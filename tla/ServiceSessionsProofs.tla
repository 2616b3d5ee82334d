------------------------ MODULE ServiceSessionsProofs ------------------------
(***************************************************************************)
(* Proofs about the sessions of ServiceSessions.  Every session has an     *)
(* inductive invariant of its own, and every action of another session     *)
(* leaves its variables alone.                                             *)
(***************************************************************************)
EXTENDS ServiceSessions, OrderLemmas, FiniteSetTheorems, SequenceTheorems, TLAPS

-----------------------------------------------------------------------------
(* Repairs.  What a proposal makes of a contract is shown as in PlateRunProofs, which is   *)
(* about the same operators with the variables of a run.                                  *)

\* A component of a unit vector is on the grid, up to the length of one.
LEMMA ComponentIs ==
    ASSUME NEW a \in Int, NEW b \in Int
    PROVE  Component(a, b) \in 0..Unit
<1> DEFINE S == {n \in 1..Unit : (2 * n - 1) * (2 * n - 1) * (a * a + b * b) <= 4 * Unit * Unit * a * a}
           T == {0} \cup S
<1>1. Unit \in Nat
  BY PlateAssumption, DirectionAssumption
<1>2. T \in SUBSET (0..Unit) /\ T # {}
  BY <1>1
<1>3. Component(a, b) = Max(T)
  BY Zenon DEF Component
<1> HIDE DEF T
<1>4. PICK m \in T : \A n \in T : n <= m
  BY <1>1, <1>2, LargestExists
<1>5. Max(T) \in T
  <2>1. \A n \in T : m >= n
    BY <1>1, <1>2, <1>4
  <2> QED  BY <1>4, <2>1 DEF Max
<1> QED  BY <1>2, <1>3, <1>5

\* What validation makes of values are values; of a contract without a direction of length
\* zero it makes one that is left as it is by another validation.
LEMMA ValidatedIs ==
    ASSUME NEW design \in [Fields -> Values]
    PROVE  /\ Validated(design) \in [Fields -> Values]
           /\ Valid(design) => Validated(design) \in Designs
<1> DEFINE e == Validated(design)
<1>1. \A f \in DOMAIN Partner : /\ f \in Fields /\ Partner[f] \in DOMAIN Partner /\ Partner[f] \in Fields
                                /\ Partner[Partner[f]] = f
  BY DirectionAssumption
<1>2. Unit \in 1..MaxValue /\ MaxValue \in Nat /\ 0..Unit \subseteq Values /\ Values \subseteq Int
  BY PlateAssumption, DirectionAssumption DEF Values
<1>3. \A f \in DOMAIN Partner : e[f] = Component(design[f], design[Partner[f]])
  BY <1>1 DEF Validated
<1>4. \A f \in Fields \ DOMAIN Partner : e[f] = design[f]
  BY DEF Validated
<1>5. \A f \in DOMAIN Partner : e[f] \in Values
  <2>1. \A f \in DOMAIN Partner : design[f] \in Int /\ design[Partner[f]] \in Int
    BY <1>1, <1>2
  <2> QED  BY <1>2, <1>3, <2>1, ComponentIs
<1>6. e \in [Fields -> Values]
  <2>1. \A f \in Fields : e[f] \in Values
    BY <1>4, <1>5
  <2> QED  BY <2>1 DEF Validated
<1>7. ASSUME Valid(design) PROVE e \in Designs
  <2>1. ASSUME NEW f \in DOMAIN Partner
        PROVE  (e[f] # 0 \/ e[Partner[f]] # 0) /\ Component(e[f], e[Partner[f]]) = e[f]
    <3> DEFINE x == design[f]
               y == design[Partner[f]]
    <3>1. x \in Values /\ y \in Values /\ (x # 0 \/ y # 0)
      BY <1>1, <1>7 DEF Valid
    <3>2. e[f] = Component(x, y) /\ e[Partner[f]] = Component(y, x)
      BY <1>1, <1>3
    <3> HIDE DEF x, y, e
    <3>3. /\ Component(x, y) # 0 \/ Component(y, x) # 0
          /\ Component(Component(x, y), Component(y, x)) = Component(x, y)
      BY <3>1, DirectionAssumption
    <3> QED  BY <3>2, <3>3
  <2>2. Valid(e)
    BY <2>1 DEF Valid
  <2>3. Validated(e) = e
    <3>1. Validated(e) \in [Fields -> Values] \/ DOMAIN Validated(e) = Fields
      BY DEF Validated
    <3>2. \A f \in Fields : Validated(e)[f] = e[f]
      <4> HIDE DEF e
      <4> QED  BY <2>1 DEF Validated
    <3>3. Validated(e) = [f \in Fields |-> Validated(e)[f]] /\ e = [f \in Fields |-> e[f]]
      BY <1>6 DEF Validated
    <3> HIDE DEF e
    <3> QED  BY <3>2, <3>3
  <2> QED  BY <1>6, <2>2, <2>3 DEF Designs
<1> QED  BY <1>6, <1>7

\* A list of changes as a proposal holds them, of paths and to values, and what is known of
\* the contracts it makes: each is written into the one before.
ChangeList(s, m) == /\ Len(s) = m
                    /\ \A i \in 1..m : s[i].path \in Paths /\ s[i].after \in Values
Stages(after, design, s, m) ==
    /\ after[0] = design
    /\ \A n \in 0..m : after[n] \in [Fields -> Values]
    /\ \A n \in 1..m : after[n] = Validated(Written(after[n - 1], s[n].path, s[n].after))

LEMMA AfterIs ==
    ASSUME NEW design \in [Fields -> Values], NEW s, NEW m \in Nat, ChangeList(s, m)
    PROVE  Stages(After(design, s), design, s, m)
<1> USE DEF ChangeList
<1> DEFINE D == [Fields -> Values]
           New(d, n) == Validated(Written(d, s[n].path, s[n].after))
           step == [x \in D \X (1..m) |-> New(x[1], x[2])]
           is(f) == f = [n \in 0..Len(s) |->
                           IF n = 0 THEN design ELSE Validated(Written(f[n - 1], s[n].path, s[n].after))]
           first == CHOOSE f : is(f)
<1>1. \A d \in D, n \in 1..m : New(d, n) \in D /\ step[<<d, n>>] = New(d, n)
  <2>1. \A d \in D, n \in 1..m : Written(d, s[n].path, s[n].after) \in D
    BY PlateAssumption DEF Written
  <2> QED  BY <2>1, ValidatedIs
<1> HIDE DEF step
<1>2. \E f : is(f)
  <2>1. PICK f : Iterates(f, design, step, m)
    BY IteratedExists
  <2>2. f = [n \in 0..m |-> IF n = 0 THEN design ELSE step[<<f[n - 1], n>>]]
    BY <2>1 DEF Iterates
  <2> DEFINE S == {n \in 0..m : f[n] \in D}
  <2>3. 0 \in S
    BY <2>2
  <2>4. ASSUME NEW n \in 1..m, n - 1 \in S PROVE n \in S
    <3>1. n \in 0..m /\ n # 0 /\ f[n - 1] \in D
      BY <2>4
    <3>2. f[n] = step[<<f[n - 1], n>>]
      <4> HIDE DEF D, S
      <4> QED  BY <2>2, <3>1
    <3> QED  BY <1>1, <3>1, <3>2
  <2>5. \A n \in 0..m : n \in S
    <3> HIDE DEF S
    <3> QED  BY <2>3, <2>4, CountingUp
  <2>6. \A n \in 0..m : n # 0 => n \in 1..m /\ n - 1 \in 0..m
    OBVIOUS
  <2>7. \A n \in 0..m : n # 0 => step[<<f[n - 1], n>>] = New(f[n - 1], n)
    BY <1>1, <2>5, <2>6
  <2>8. f = [n \in 0..m |-> IF n = 0 THEN design ELSE New(f[n - 1], n)]
    <3> HIDE DEF New, S
    <3> QED  BY <2>2, <2>7
  <2>9. is(f)
    BY <2>8
  <2> HIDE DEF is
  <2> QED  BY <2>9
<1>3. is(first)
  <2> HIDE DEF is
  <2> QED  BY <1>2, Zenon
<1>4. After(design, s) = first
  BY Zenon DEF After
<1> HIDE DEF first
<1>5. \A n \in 0..m : first[n] = IF n = 0 THEN design ELSE New(first[n - 1], n)
  BY <1>3
<1> HIDE DEF New, is
<1> DEFINE S == {n \in 0..m : first[n] \in D}
<1>6. 0 \in S
  BY <1>5
<1>7. ASSUME NEW n \in 1..m, n - 1 \in S PROVE n \in S
  <2>1. first[n] = New(first[n - 1], n) /\ n \in 0..m /\ first[n - 1] \in D
    BY <1>5, <1>7
  <2> QED  BY <1>1, <2>1
<1>8. \A n \in 0..m : n \in S
  <2> HIDE DEF S
  <2> QED  BY <1>6, <1>7, CountingUp
<1>9. \A n \in 1..m : first[n] = New(first[n - 1], n)
  BY <1>5
<1> QED  BY <1>4, <1>5, <1>8, <1>9 DEF New, Stages

\* A field that is no component of a direction is as the last change that names it wrote it.
LEMMA WrittenValue ==
    ASSUME NEW design \in [Fields -> Values], NEW s, NEW m \in Nat, ChangeList(s, m),
           NEW f \in Fields \ DOMAIN Partner
    PROVE  \A n \in 0..m :
              \/ /\ \A i \in 1..n : FieldOf[s[i].path] # f
                 /\ After(design, s)[n][f] = design[f]
              \/ \E i \in 1..n : FieldOf[s[i].path] = f /\ After(design, s)[n][f] = s[i].after
<1> DEFINE after == After(design, s)
           Unnamed(n) == (\A i \in 1..n : FieldOf[s[i].path] # f) /\ after[n][f] = design[f]
           Stands(n) == \E i \in 1..n : FieldOf[s[i].path] = f /\ after[n][f] = s[i].after
           S == {n \in 0..m : Unnamed(n) \/ Stands(n)}
<1>1. /\ after[0] = design
      /\ \A n \in 0..m : after[n] \in [Fields -> Values]
      /\ \A n \in 1..m : after[n] = Validated(Written(after[n - 1], s[n].path, s[n].after))
  <2>1. Stages(After(design, s), design, s, m)
    BY AfterIs
  <2> QED  BY <2>1 DEF Stages
<1> HIDE DEF after
<1> USE DEF ChangeList
<1>2. 0 \in S
  BY <1>1
<1>3. ASSUME NEW n \in 1..m, n - 1 \in S PROVE n \in S
  <2>1. n \in 0..m /\ n - 1 \in 0..m /\ n \in 1..n
    OBVIOUS
  <2>2. after[n][f] = IF FieldOf[s[n].path] = f THEN s[n].after ELSE after[n - 1][f]
    <3>1. after[n - 1] \in [Fields -> Values]
      BY <1>1, <2>1
    <3> DEFINE w == Written(after[n - 1], s[n].path, s[n].after)
    <3>2. w[f] = IF FieldOf[s[n].path] = f THEN s[n].after ELSE after[n - 1][f]
      BY <3>1 DEF Written
    <3>3. after[n] = Validated(w)
      BY <1>1
    <3> HIDE DEF w
    <3>4. Validated(w)[f] = w[f]
      BY DEF Validated
    <3> QED  BY <3>2, <3>3, <3>4
  <2>3. CASE FieldOf[s[n].path] = f
    BY <2>1, <2>2, <2>3
  <2>4. CASE FieldOf[s[n].path] # f /\ Unnamed(n - 1)
    <3>1. \A i \in 1..n : i = n \/ i \in 1..(n - 1)
      OBVIOUS
    <3> QED  BY <2>1, <2>2, <2>4, <3>1
  <2>5. CASE FieldOf[s[n].path] # f /\ Stands(n - 1)
    <3>1. \A i \in 1..(n - 1) : i \in 1..n
      OBVIOUS
    <3>2. Stands(n)
      BY <2>2, <2>5, <3>1
    <3> QED  BY <2>1, <3>2
  <2> QED  BY <1>3, <2>3, <2>4, <2>5
<1>4. \A n \in 0..m : n \in S
  <2> HIDE DEF S
  <2> QED  BY <1>2, <1>3, CountingUp
<1> QED  BY <1>4 DEF after

\* A field keeps its value as long as no change names it or the other component of its
\* direction.
LEMMA UntouchedValue ==
    ASSUME NEW design \in Designs, NEW s, NEW m \in Nat, ChangeList(s, m),
           NEW f \in Fields, NEW k \in 0..m,
           \A i \in 1..k : /\ FieldOf[s[i].path] # f
                           /\ f \in DOMAIN Partner => FieldOf[s[i].path] # Partner[f]
    PROVE  After(design, s)[k][f] = design[f]
<1>1. design \in [Fields -> Values] /\ Validated(design) = design
  BY DEF Designs
<1> DEFINE after == After(design, s)
           Alike(n, g) == after[n][g] = design[g]
           S == {n \in 0..k : Alike(n, f) /\ (f \in DOMAIN Partner => Alike(n, Partner[f]))}
<1>2. /\ after[0] = design
      /\ \A n \in 0..m : after[n] \in [Fields -> Values]
      /\ \A n \in 1..m : after[n] = Validated(Written(after[n - 1], s[n].path, s[n].after))
  <2>1. Stages(After(design, s), design, s, m)
    BY <1>1, AfterIs
  <2> QED  BY <2>1 DEF Stages
<1> HIDE DEF after
<1> USE DEF ChangeList
<1>3. 0 \in S
  BY <1>2
<1>4. ASSUME NEW n \in 1..k, n - 1 \in S PROVE n \in S
  <2> DEFINE w == Written(after[n - 1], s[n].path, s[n].after)
  <2>1. /\ n \in 0..k /\ after[n] = Validated(w)
        /\ n - 1 \in 0..k /\ after[n - 1] \in [Fields -> Values]
    <3>1. n \in 1..m /\ n - 1 \in 0..m /\ n \in 0..k /\ n - 1 \in 0..k
      OBVIOUS
    <3> QED  BY <1>2, <3>1
  <2>2. w[f] = design[f] /\ (f \in DOMAIN Partner => w[Partner[f]] = design[Partner[f]])
    <3> DEFINE before == after[n - 1]
    <3>1. \A g \in Fields : FieldOf[s[n].path] # g => w[g] = before[g]
      BY <2>1 DEF Written
    <3>2. /\ FieldOf[s[n].path] # f
          /\ f \in DOMAIN Partner => FieldOf[s[n].path] # Partner[f] /\ Partner[f] \in Fields
      BY DirectionAssumption
    <3>3. before[f] = design[f] /\ (f \in DOMAIN Partner => before[Partner[f]] = design[Partner[f]])
      BY <1>4
    <3> HIDE DEF w, before
    <3> QED  BY <3>1, <3>2, <3>3
  <2> HIDE DEF w
  <2>3. CASE f \notin DOMAIN Partner
    <3>1. Validated(w)[f] = w[f]
      BY <2>3 DEF Validated
    <3> QED  BY <2>1, <2>2, <2>3, <3>1
  <2>4. CASE f \in DOMAIN Partner
    <3> DEFINE g == Partner[f]
    <3>1. g \in DOMAIN Partner /\ g \in Fields /\ Partner[g] = f /\ w[g] = design[g]
      BY <2>2, <2>4, DirectionAssumption
    <3>2. \A d : /\ Validated(d)[f] = Component(d[f], d[g])
                 /\ Validated(d)[g] = Component(d[g], d[f])
      BY <2>4, <3>1 DEF Validated
    <3>3. Validated(w)[f] = Validated(design)[f] /\ Validated(w)[g] = Validated(design)[g]
      <4> HIDE DEF g
      <4> QED  BY <2>2, <3>1, <3>2
    <3> QED  BY <1>1, <2>1, <3>3
  <2> QED  BY <2>3, <2>4
<1>5. \A n \in 0..k : n \in S
  <2>1. k \in Nat
    OBVIOUS
  <2> HIDE DEF S
  <2> QED  BY <1>3, <1>4, <2>1, CountingUp
<1> QED  BY <1>5 DEF after

\* The changes of a proposal are of paths that are declared free and not locked, to values
\* other than those of the contract they were computed from.
LEMMA ChangeFacts ==
    ASSUME NEW design, NEW p, NEW s \in Proposals(design, p)
    PROVE  /\ Len(s) \in Nat /\ DOMAIN s = 1..Len(s)
           /\ s # <<>> => 1 \in DOMAIN s
           /\ \A i \in DOMAIN s :
                /\ s[i].path \in DOMAIN p.free /\ s[i].after \in Values
                /\ s[i].before = design[FieldOf[s[i].path]] /\ s[i].after # s[i].before
<1>1. PICK n \in 0..MaxChanges : s \in [1..n -> Changes(design, p)]
  BY DEF Proposals
<1>2. DOMAIN s = 1..n /\ n \in Nat /\ Len(s) = n /\ (n = 0 => s = <<>>)
  BY <1>1, PlateAssumption
<1>3. \A i \in 1..n : s[i] \in Changes(design, p)
  BY <1>1
<1> QED  BY <1>2, <1>3 DEF Changes

\* An accepted proposal yields a contract.
LEMMA AcceptedIsDesign ==
    ASSUME NEW design \in Designs, NEW seen, NEW p, DOMAIN p.free \subseteq Paths,
           NEW s \in Proposals(seen, p), Accepts(design, seen, p, s)
    PROVE  Applied(design, s) \in Designs
<1> DEFINE m == Len(s)
           after == After(design, s)
           w == Written(after[m - 1], s[m].path, s[m].after)
<1>1. /\ m \in Nat /\ DOMAIN s = 1..m /\ design \in [Fields -> Values]
      /\ \A i \in 1..m : s[i].path \in Paths /\ s[i].after \in Values
  BY ChangeFacts DEF Designs
<1>2. m \in 1..m /\ m - 1 \in 0..m
  <2>1. 1 \in 1..m
    BY <1>1, ChangeFacts DEF Accepts
  <2> QED  BY <1>1, <2>1
<1>3. Valid(w)
  BY <1>1, <1>2 DEF Accepts, RaisesAt
<1>4. after[m] = Validated(w) /\ after[m - 1] \in [Fields -> Values]
  <2>1. Stages(after, design, s, m)
    <3>1. ChangeList(s, m)
      BY <1>1 DEF ChangeList
    <3> HIDE DEF m
    <3> QED  BY <1>1, <3>1, AfterIs
  <2> HIDE DEF after
  <2> QED  BY <1>2, <2>1 DEF Stages
<1>5. w \in [Fields -> Values]
  BY <1>1, <1>2, <1>4 DEF Written
<1> QED  BY <1>3, <1>4, <1>5, ValidatedIs DEF Applied

\* A change of an accepted proposal is of a value that is the one it was computed from: of
\* several changes of one field it is the first whose value before was compared with the
\* contract itself.  It is another where the direction was written before.
LEMMA AcceptedAsSeen ==
    ASSUME NEW design \in Designs, NEW seen, NEW p, DOMAIN p.free \subseteq Paths,
           NEW s \in Proposals(seen, p), Accepts(design, seen, p, s),
           NEW i \in DOMAIN s,
           \A j \in 1 .. i - 1 :
              ~(FieldOf[s[i].path] \in DOMAIN Partner /\ FieldOf[s[j].path] = Partner[FieldOf[s[i].path]])
    PROVE  design[FieldOf[s[i].path]] = seen[FieldOf[s[i].path]]
<1> DEFINE m == Len(s)
           f == FieldOf[s[i].path]
           Writers == {k \in 1..i : FieldOf[s[k].path] = f}
<1>1. /\ m \in Nat /\ DOMAIN s = 1..m /\ i \in 1..m
      /\ \A k \in 1..m : /\ s[k].path \in Paths /\ s[k].after \in Values
                        /\ s[k].before = seen[FieldOf[s[k].path]]
  BY ChangeFacts
<1>2. Writers \in SUBSET Nat /\ i \in Writers
  BY <1>1
<1>3. PICK j \in Writers : \A k \in Writers : j <= k
  <2> HIDE DEF Writers
  <2> QED  BY <1>2, LeastExists
<1>4. j \in 1..i /\ j \in 1..m /\ j - 1 \in 0..m /\ FieldOf[s[j].path] = f
  BY <1>1, <1>3
<1>5. After(design, s)[j - 1][f] = design[f]
  <2>1. ASSUME NEW k \in 1 .. j - 1
        PROVE  FieldOf[s[k].path] # f /\ (f \in DOMAIN Partner => FieldOf[s[k].path] # Partner[f])
    <3>1. k \in 1..i /\ k \in 1 .. i - 1 /\ ~(j <= k)
      BY <1>1, <1>4
    <3> QED  BY <1>3, <3>1
  <2>2. f \in Fields
    BY <1>1, PlateAssumption
  <2>3. ChangeList(s, m)
    BY <1>1 DEF ChangeList
  <2> HIDE DEF f, m, Writers
  <2> QED  BY <1>1, <1>4, <2>1, <2>2, <2>3, UntouchedValue
<1>6. After(design, s)[j - 1][f] = s[j].before
  BY <1>1, <1>4 DEF Accepts, ChangeFits
<1> QED  BY <1>1, <1>4, <1>5, <1>6

\* What an applied proposal wrote to a field that is no component of a direction is not
\* what it was computed from.
LEMMA AppliedDiffers ==
    ASSUME NEW design \in Designs, NEW seen, NEW p, DOMAIN p.free \subseteq Paths,
           NEW s \in Proposals(seen, p),
           NEW i \in DOMAIN s, FieldOf[s[i].path] \notin DOMAIN Partner
    PROVE  Applied(design, s)[FieldOf[s[i].path]] # seen[FieldOf[s[i].path]]
<1> DEFINE m == Len(s)
           f == FieldOf[s[i].path]
<1>1. /\ m \in Nat /\ DOMAIN s = 1..m /\ i \in 1..m /\ m \in 0..m
      /\ design \in [Fields -> Values]
      /\ \A k \in 1..m : /\ s[k].path \in Paths /\ s[k].after \in Values
                        /\ s[k].before = seen[FieldOf[s[k].path]] /\ s[k].after # s[k].before
  BY ChangeFacts DEF Designs
<1>2. f \in Fields \ DOMAIN Partner
  BY <1>1, PlateAssumption
<1>3. \/ \A k \in 1..m : FieldOf[s[k].path] # f
      \/ \E k \in 1..m : FieldOf[s[k].path] = f /\ After(design, s)[m][f] = s[k].after
  <2>1. ChangeList(s, m)
    BY <1>1 DEF ChangeList
  <2> HIDE DEF f, m
  <2> QED  BY <1>1, <1>2, <2>1, WrittenValue
<1>4. PICK k \in 1..m : FieldOf[s[k].path] = f /\ Applied(design, s)[f] = s[k].after
  BY <1>1, <1>3 DEF Applied
<1> QED  BY <1>1, <1>4

\* What is kept of proposals and of the last application.
RepairInv ==
    /\ service = "repair" => contract \in Designs /\ DOMAIN policy.free \subseteq Paths
    /\ \A p \in proposals : /\ p.changes \in Proposals(p.seen, p.policy) /\ p.changes # <<>>
                            /\ DOMAIN p.policy.free \subseteq Paths
    /\ \A a \in last :
         /\ a.proposal \in proposals /\ a.on \in Designs
         /\ policy = a.proposal.policy
         /\ Accepts(a.on, a.proposal.seen, policy, a.proposal.changes)
         /\ contract = Applied(a.on, a.proposal.changes)

\* Inductive: what was applied was accepted, and the contract is what it made.
THEOREM RepairInvariant == ServicesSpec => []RepairInv
<1>1. ServicesInit => RepairInv
  BY DEF ServicesInit, Init, NoRepair, RepairInv, ContractPolicies, Policies
<1>2. RepairInv /\ [ServicesNext]_serviceVars => RepairInv'
  <2> SUFFICES ASSUME RepairInv, [ServicesNext]_serviceVars
               PROVE  RepairInv'
    OBVIOUS
  <2>1. CASE UNCHANGED <<service, sessionVars>>
    BY <2>1 DEF RepairInv, sessionVars
  <2>2. CASE ProposeRepair /\ service = "repair" /\ service' = service
    <3>1. PICK s \in Proposals(contract, policy) :
            /\ s # <<>>
            /\ proposals' = proposals \cup {[seen |-> contract, policy |-> policy, changes |-> s]}
      BY <2>2 DEF ProposeRepair
    <3> QED  BY <2>2, <3>1 DEF RepairInv, ProposeRepair
  <2>3. CASE EditValue /\ service = "repair" /\ service' = service
    <3>1. PICK f \in Fields, v \in Values :
            /\ Valid([contract EXCEPT ![f] = v])
            /\ contract' = Validated([contract EXCEPT ![f] = v])
      BY <2>3 DEF EditValue
    <3>2. [contract EXCEPT ![f] = v] \in [Fields -> Values]
      BY <2>3 DEF RepairInv, Designs
    <3>3. contract' \in Designs
      BY <3>1, <3>2, ValidatedIs
    <3> QED  BY <2>3, <3>3 DEF RepairInv, EditValue
  <2>4. CASE LockPath /\ service' = service
    BY <2>4 DEF RepairInv, LockPath, WithLock
  <2>5. CASE ApplyRepair /\ service = "repair" /\ service' = service
    <3>1. PICK p \in proposals :
            /\ Accepted(p) /\ contract' = Applied(contract, p.changes)
            /\ last' = {[proposal |-> p, on |-> contract]}
      BY <2>5 DEF ApplyRepair
    <3>2. contract \in Designs
      BY <2>5 DEF RepairInv
    <3>3. contract' \in Designs
      BY <3>1, <3>2, AcceptedIsDesign DEF RepairInv, Accepted
    <3>4. policy' = policy /\ proposals' = proposals
      BY <2>5 DEF ApplyRepair
    <3>5. p.policy = policy /\ Accepts(contract, p.seen, policy, p.changes)
      BY <3>1 DEF Accepted
    <3>6. ASSUME NEW a \in last' PROVE a.proposal = p /\ a.on = contract
      BY <3>1
    <3>7. /\ service' = "repair" => contract' \in Designs /\ DOMAIN policy'.free \subseteq Paths
          /\ \A q \in proposals' : /\ q.changes \in Proposals(q.seen, q.policy) /\ q.changes # <<>>
                                   /\ DOMAIN q.policy.free \subseteq Paths
      BY <2>5, <3>3, <3>4 DEF RepairInv
    <3>8. \A a \in last' :
            /\ a.proposal \in proposals' /\ a.on \in Designs
            /\ policy' = a.proposal.policy
            /\ Accepts(a.on, a.proposal.seen, policy', a.proposal.changes)
            /\ contract' = Applied(a.on, a.proposal.changes)
      BY <3>1, <3>2, <3>4, <3>5, <3>6
    <3> QED  BY <3>7, <3>8 DEF RepairInv
  <2> QED  BY <2>1, <2>2, <2>3, <2>4, <2>5
              DEF ServicesNext, Repairs, Next, Exchanging, Asking, serviceVars
<1> QED  BY <1>1, <1>2, PTL DEF ServicesSpec

\* A repair was applied only where every value it changes was the one it was computed
\* from: apply_repair's hash, which does not see changes below a micron, and its check of
\* the value before each change together see to it, also where several paths name a field.
\* Only a component of a direction whose other component was written before is excepted.
THEOREM AppliedAsSeenHolds == ServicesSpec => []AppliedAsSeen
<1>1. RepairInv => AppliedAsSeen
  <2> SUFFICES ASSUME RepairInv, NEW a \in last, NEW i \in DOMAIN a.proposal.changes
               PROVE  LET s == a.proposal.changes
                          FieldAt(k) == FieldOf[s[k].path]
                      IN \/ a.on[FieldAt(i)] = a.proposal.seen[FieldAt(i)]
                         \/ \E j \in 1 .. i - 1 :
                              FieldAt(i) \in DOMAIN Partner /\ FieldAt(j) = Partner[FieldAt(i)]
    BY DEF RepairInv, AppliedAsSeen, Accepts
  <2>1. /\ a.proposal.changes \in Proposals(a.proposal.seen, policy)
        /\ a.on \in Designs /\ DOMAIN policy.free \subseteq Paths
        /\ Accepts(a.on, a.proposal.seen, policy, a.proposal.changes)
    BY DEF RepairInv
  <2> QED  BY <2>1, AcceptedAsSeen
<1> QED  BY <1>1, RepairInvariant, PTL

\* A proposal that was applied and changes more than directions is not accepted again on
\* what it made.
THEOREM NeverAppliedTwiceHolds == ServicesSpec => []NeverAppliedTwice
<1>1. RepairInv => NeverAppliedTwice
  <2> SUFFICES ASSUME RepairInv, NEW a \in last, Accepted(a.proposal),
                      NEW i \in DOMAIN a.proposal.changes,
                      FieldOf[a.proposal.changes[i].path] \notin DOMAIN Partner
               PROVE  FALSE
    BY DEF NeverAppliedTwice
  <2> DEFINE p == a.proposal
             f == FieldOf[p.changes[i].path]
  <2>1. /\ p.changes \in Proposals(p.seen, p.policy)
        /\ DOMAIN p.policy.free \subseteq Paths /\ a.on \in Designs
        /\ Accepts(a.on, p.seen, p.policy, p.changes)
        /\ policy = p.policy /\ contract = Applied(a.on, p.changes)
    BY DEF RepairInv
  <2>2. contract \in Designs
    BY <2>1, AcceptedIsDesign
  <2>3. contract[f] # p.seen[f]
    BY <2>1, AppliedDiffers
  <2>4. contract[f] = p.seen[f]
    BY <2>1, <2>2, AcceptedAsSeen DEF Accepted
  <2> QED  BY <2>3, <2>4
<1> QED  BY <1>1, RepairInvariant, PTL
-----------------------------------------------------------------------------
(* Sets *)

\* A finite set on which a relation is total and transitive has a first element.
LEMMA FirstExists ==
    ASSUME NEW S, IsFiniteSet(S), S # {}, NEW R,
           \A x, y \in S : <<x, y>> \in R \/ <<y, x>> \in R,
           \A x, y, z \in S : <<x, y>> \in R /\ <<y, z>> \in R => <<x, z>> \in R
    PROVE  \E x \in S : \A y \in S : <<x, y>> \in R
<1> DEFINE First(t, x) == x \in t /\ \A y \in t : <<x, y>> \in R
           Bare == {t \in SUBSET S : t # {} /\ ~\E x : First(t, x)}
           Sizes == {Cardinality(t) : t \in Bare}
<1>1. \A t \in SUBSET S : IsFiniteSet(t) /\ Cardinality(t) \in Nat
  BY FS_Subset, FS_CardinalityType
<1>2. CASE Bare = {}
  <2>1. S \notin Bare
    BY <1>2
  <2>2. \E x : First(S, x)
    BY <2>1
  <2> QED  BY <2>2
<1>3. CASE Bare # {}
  <2>1. Sizes \in SUBSET Nat /\ Sizes # {}
    BY <1>1, <1>3
  <2> HIDE DEF Sizes
  <2>2. PICK n \in Sizes : \A m \in Sizes : n <= m
    BY <2>1, LeastExists
  <2>3. PICK t \in Bare : n = Cardinality(t)
    BY <2>2 DEF Sizes
  <2>4. PICK x \in t : TRUE
    BY <2>3
  <2>5. t \in SUBSET S /\ t \ {x} \in SUBSET S /\ IsFiniteSet(t) /\ Cardinality(t) \in Nat
    BY <1>1, <2>3
  <2>6. Cardinality(t \ {x}) = Cardinality(t) - 1
    BY <2>4, <2>5, FS_RemoveElement
  <2>7. Cardinality(t \ {x}) \notin Sizes
    BY <2>2, <2>3, <2>5, <2>6
  <2>8. t \ {x} \notin Bare
    BY <2>7 DEF Sizes
  <2>9. CASE t \ {x} = {}
    <3>1. First(t, x)
      BY <2>4, <2>5, <2>9
    <3> QED  BY <2>3, <3>1
  <2>10. CASE t \ {x} # {}
    <3>1. PICK z : First(t \ {x}, z)
      BY <2>5, <2>8, <2>10
    <3>2. CASE <<z, x>> \in R
      <4>1. First(t, z)
        BY <3>1, <3>2
      <4> QED  BY <2>3, <4>1
    <3>3. CASE <<x, z>> \in R
      <4>1. First(t, x)
        BY <2>4, <2>5, <3>1, <3>3
      <4> QED  BY <2>3, <4>1
    <3> QED  BY <2>4, <2>5, <3>1, <3>2, <3>3
  <2> QED  BY <2>9, <2>10
<1> QED  BY <1>2, <1>3

\* The largest of a set that has one.
LEMMA MaxIs ==
    ASSUME NEW S \in SUBSET Int, \E x \in S : \A y \in S : y <= x
    PROVE  Max(S) \in S /\ \A y \in S : y <= Max(S)
BY DEF Max

\* The least of a set that has one.
LEMMA MinIs ==
    ASSUME NEW S \in SUBSET Int, \E x \in S : \A y \in S : x <= y
    PROVE  Min(S) \in S /\ \A y \in S : Min(S) <= y
BY DEF Min

\* A finite set of numbers has both.
LEMMA FiniteExtremes ==
    ASSUME NEW S \in SUBSET Int, IsFiniteSet(S), S # {}
    PROVE  /\ Max(S) \in S /\ \A y \in S : y <= Max(S)
           /\ Min(S) \in S /\ \A y \in S : Min(S) <= y
<1> DEFINE Below == {x \in S \X S : x[1] <= x[2]}
           Above == {x \in S \X S : x[2] <= x[1]}
<1>1. \E x \in S : \A y \in S : <<x, y>> \in Below
  <2>1. \A x, y \in S : <<x, y>> \in Below \/ <<y, x>> \in Below
    OBVIOUS
  <2>2. \A x, y, z \in S : <<x, y>> \in Below /\ <<y, z>> \in Below => <<x, z>> \in Below
    OBVIOUS
  <2> HIDE DEF Below
  <2> QED  BY <2>1, <2>2, FirstExists
<1>2. \E x \in S : \A y \in S : <<x, y>> \in Above
  <2>1. \A x, y \in S : <<x, y>> \in Above \/ <<y, x>> \in Above
    OBVIOUS
  <2>2. \A x, y, z \in S : <<x, y>> \in Above /\ <<y, z>> \in Above => <<x, z>> \in Above
    OBVIOUS
  <2> HIDE DEF Above
  <2> QED  BY <2>1, <2>2, FirstExists
<1>3. (\E x \in S : \A y \in S : x <= y) /\ (\E x \in S : \A y \in S : y <= x)
  BY <1>1, <1>2
<1> QED  BY <1>3, MaxIs, MinIs

\* There are n numbers up to n.
LEMMA CountTo ==
    ASSUME NEW n \in Nat
    PROVE  IsFiniteSet(1..n) /\ Cardinality(1..n) = n
BY FS_Interval

\* Finite sets that share nothing add up.
LEMMA DisjointUnion ==
    ASSUME NEW S, NEW T, IsFiniteSet(S), IsFiniteSet(T), S \cap T = {}
    PROVE  IsFiniteSet(S \cup T) /\ Cardinality(S \cup T) = Cardinality(S) + Cardinality(T)
<1>1. Cardinality(S) \in Nat /\ Cardinality(T) \in Nat
  BY FS_CardinalityType
<1>2. IsFiniteSet(S \cup T) /\ Cardinality(S \cup T) = Cardinality(S) + Cardinality(T) - Cardinality(S \cap T)
  BY FS_Union
<1>3. Cardinality(S \cap T) = 0
  BY FS_EmptySet
<1> QED  BY <1>1, <1>2, <1>3

\* Pairs with a fixed first part are as many as their second parts.
LEMMA Tagged ==
    ASSUME NEW x, NEW S, IsFiniteSet(S)
    PROVE  IsFiniteSet({x} \X S) /\ Cardinality({x} \X S) = Cardinality(S)
<1>1. IsFiniteSet({x}) /\ Cardinality({x}) = 1
  BY FS_Singleton
<1>2. IsFiniteSet({x} \X S) /\ Cardinality({x} \X S) = Cardinality({x}) * Cardinality(S)
  BY <1>1, FS_Product
<1>3. Cardinality(S) \in Nat
  BY FS_CardinalityType
<1> QED  BY <1>1, <1>2, <1>3
-----------------------------------------------------------------------------
(* The entities of a set, in order *)

\* The element a set is taken apart by.
Chosen(s) == CHOOSE x \in s : TRUE

\* The function that InOrder is computed by.
Listing(g, S) == g = [s \in SUBSET S |-> IF s = {} THEN <<>> ELSE Append(g[s \ {Chosen(s)}], Chosen(s))]

\* The listing of a set is that of all but one element, and then that one.
LEMMA InOrderUnfolds ==
    ASSUME NEW S
    PROVE  InOrder(S) = (CHOOSE g : Listing(g, S))[S]
BY DEF InOrder, FoldSet, MapThenFoldSet, Listing, Chosen

\* Up to so many elements there is such a function.
Partial(g, S, n) ==
    g = [s \in {t \in SUBSET S : Cardinality(t) <= n} |->
           IF s = {} THEN <<>> ELSE Append(g[s \ {Chosen(s)}], Chosen(s))]

\* By induction on the number of elements it is computed for.
LEMMA PartialListing ==
    ASSUME NEW S, IsFiniteSet(S), NEW n \in Nat
    PROVE  \E g : Partial(g, S, n)
<1> DEFINE Failing == {m \in Nat : ~\E g : Partial(g, S, m)}
           Small(m) == {t \in SUBSET S : Cardinality(t) <= m}
<1>1. ASSUME NEW t \in SUBSET S
      PROVE  /\ IsFiniteSet(t) /\ Cardinality(t) \in Nat /\ (Cardinality(t) = 0 <=> t = {})
             /\ t # {} => /\ Chosen(t) \in t /\ t \ {Chosen(t)} \in SUBSET S
                          /\ Cardinality(t \ {Chosen(t)}) = Cardinality(t) - 1
  BY FS_Subset, FS_CardinalityType, FS_EmptySet, FS_RemoveElement DEF Chosen
<1>2. ASSUME NEW m \in Failing, \A k \in Failing : m <= k PROVE FALSE
  <2>1. CASE m = 0
    <3> DEFINE g == [s \in Small(0) |-> <<>>]
    <3>1. Partial(g, S, 0)
      BY <1>1 DEF Partial
    <3> QED  BY <2>1, <3>1
  <2>2. CASE m # 0
    <3>1. m \in Nat /\ m - 1 \in Nat /\ m - 1 \notin Failing
      BY <2>2, <1>2
    <3>2. PICK h : Partial(h, S, m - 1)
      BY <3>1
    <3> DEFINE g == [s \in Small(m) |-> IF s = {} THEN <<>> ELSE Append(h[s \ {Chosen(s)}], Chosen(s))]
    <3>3. ASSUME NEW s \in Small(m - 1) PROVE h[s] = g[s]
      <4>1. s \in Small(m)
        <5>1. Cardinality(s) \in Nat /\ Cardinality(s) <= m - 1
          BY <1>1
        <5>2. Cardinality(s) <= m
          BY <3>1, <5>1
        <5> QED  BY <5>2
      <4>2. h[s] = IF s = {} THEN <<>> ELSE Append(h[s \ {Chosen(s)}], Chosen(s))
        BY <3>2 DEF Partial
      <4> QED  BY <4>1, <4>2
    <3>4. ASSUME NEW s \in Small(m), s # {} PROVE h[s \ {Chosen(s)}] = g[s \ {Chosen(s)}]
      <4>1. s \ {Chosen(s)} \in Small(m - 1)
        BY <1>1, <3>1, <3>4
      <4> HIDE DEF g
      <4> QED  BY <3>3, <4>1
    <3>5. Partial(g, S, m)
      <4> DEFINE f == [s \in Small(m) |-> IF s = {} THEN <<>> ELSE Append(g[s \ {Chosen(s)}], Chosen(s))]
      <4>1. \A s \in Small(m) : g[s] = f[s]
        BY <3>4, Zenon
      <4>2. g = f
        BY <4>1
      <4> HIDE DEF g
      <4> QED  BY <4>2 DEF Partial
    <3> QED  BY <3>5
  <2> QED  BY <2>1, <2>2
<1>3. Failing = {}
  <2> HIDE DEF Failing
  <2>1. Failing \in SUBSET Nat
    BY DEF Failing
  <2> QED  BY <1>2, <2>1, LeastExists
<1> QED  BY <1>3

\* Of a finite set there is such a function, so the listing is one.
LEMMA ListingExists ==
    ASSUME NEW S, IsFiniteSet(S)
    PROVE  \E g : Listing(g, S)
<1>1. Cardinality(S) \in Nat
  BY FS_CardinalityType
<1>2. PICK g : Partial(g, S, Cardinality(S))
  BY <1>1, PartialListing
<1>3. {t \in SUBSET S : Cardinality(t) <= Cardinality(S)} = SUBSET S
  BY FS_Subset
<1> QED  BY <1>2, <1>3 DEF Partial, Listing

\* The sequence lists the elements of a set.
Lists(q, s) ==
    /\ q \in Seq(s)
    /\ Len(q) = Cardinality(s)
    /\ \A x \in s : \E k \in 1..Len(q) : q[k] = x

\* The entities of a finite set are listed once each, and nothing else is.
LEMMA InOrderLists ==
    ASSUME NEW S, IsFiniteSet(S)
    PROVE  Lists(InOrder(S), S)
<1> DEFINE g == CHOOSE f : Listing(f, S)
           Failing == {m \in Nat : \E s \in SUBSET S : Cardinality(s) = m /\ ~Lists(g[s], s)}
<1>1. Listing(g, S)
  BY ListingExists
<1> HIDE DEF g
<1>2. ASSUME NEW s \in SUBSET S
      PROVE  g[s] = IF s = {} THEN <<>> ELSE Append(g[s \ {Chosen(s)}], Chosen(s))
  BY <1>1 DEF Listing
<1>3. ASSUME NEW t \in SUBSET S
      PROVE  /\ IsFiniteSet(t) /\ Cardinality(t) \in Nat /\ (Cardinality(t) = 0 <=> t = {})
             /\ t # {} => /\ Chosen(t) \in t /\ t \ {Chosen(t)} \in SUBSET S
                          /\ Cardinality(t \ {Chosen(t)}) = Cardinality(t) - 1
  BY FS_Subset, FS_CardinalityType, FS_EmptySet, FS_RemoveElement DEF Chosen
<1>4. ASSUME NEW m \in Failing, \A k \in Failing : m <= k PROVE FALSE
  <2>1. PICK s \in SUBSET S : Cardinality(s) = m /\ ~Lists(g[s], s)
    OBVIOUS
  <2>2. CASE s = {}
    <3>1. g[s] = <<>> /\ Cardinality(s) = 0
      BY <1>2, <1>3, <2>2
    <3> QED  BY <2>1, <2>2, <3>1 DEF Lists
  <2>3. CASE s # {}
    <3> DEFINE x == Chosen(s)
               r == s \ {x}
    <3>1. x \in s /\ r \in SUBSET S /\ Cardinality(r) = m - 1 /\ m \in Nat /\ m - 1 \in Nat
      BY <1>3, <2>1, <2>3
    <3>2. Lists(g[r], r)
      BY <1>4, <3>1
    <3>3. g[s] = Append(g[r], x)
      BY <1>2, <2>3
    <3> HIDE DEF x, r
    <3>4. s = r \cup {x} /\ x \notin r
      BY <3>1 DEF r
    <3>5. g[r] \in Seq(s) /\ g[r] \in Seq(r)
      BY <3>2, <3>4, SeqMonotonic DEF Lists
    <3>6. /\ g[s] \in Seq(s) /\ Len(g[s]) = Len(g[r]) + 1
          /\ \A k \in 1..Len(g[r]) : g[s][k] = g[r][k]
          /\ g[s][Len(g[r]) + 1] = x
      BY <3>1, <3>3, <3>5, AppendProperties
    <3>7. Len(g[r]) \in Nat /\ Len(g[r]) = m - 1
      BY <3>1, <3>2, <3>5, LenProperties DEF Lists
    <3>8. ASSUME NEW y \in s PROVE \E k \in 1..Len(g[s]) : g[s][k] = y
      <4>1. CASE y = x
        BY <4>1, <3>6, <3>7
      <4>2. CASE y \in r
        <5>1. PICK k \in 1..Len(g[r]) : g[r][k] = y
          BY <4>2, <3>2 DEF Lists
        <5> QED  BY <5>1, <3>6, <3>7
      <4> QED  BY <4>1, <4>2, <3>4
    <3>9. Len(g[s]) = Cardinality(s)
      BY <2>1, <3>1, <3>6, <3>7
    <3> QED  BY <2>1, <3>6, <3>8, <3>9 DEF Lists
  <2> QED  BY <2>2, <2>3
<1>5. Failing = {}
  <2> HIDE DEF Failing
  <2>1. Failing \in SUBSET Nat
    BY DEF Failing
  <2> QED  BY <1>4, <2>1, LeastExists
<1>6. Lists(g[S], S)
  <2>1. Cardinality(S) \in Nat
    BY <1>3
  <2> QED  BY <1>5, <2>1
<1> QED  BY <1>6, InOrderUnfolds DEF g
-----------------------------------------------------------------------------
(* Drawings, and what may become of them *)

\* An entity is a record of its fields, and has points.
IsEntity(e) ==
    /\ DOMAIN e = {"layer", "form", "points", "labelled", "id", "type", "refs", "hash", "width"}
    /\ e.labelled \in BOOLEAN /\ e.width \in Int
    /\ e.points \in Seq(Int \X Int) /\ e.points # <<>>

\* A drawing as it is written: its entities, in order, and nothing beside them.
IsDrawing(d) ==
    /\ DOMAIN d = {"release", "unit", "layers", "entities", "record", "beside"}
    /\ d.beside \in BOOLEAN
    /\ \E S : d.entities \in Seq(S) /\ \A e \in S : IsEntity(e)

\* An entity of a drawing that was edited: of one written entity but for its place, its
\* layer, its form and whether its XDATA are whole, and with the id of some written one.
TracedEntity(e, d0) ==
    /\ IsEntity(e)
    /\ \E k \in DOMAIN d0.entities : e.id = d0.entities[k].id
    /\ \E j \in DOMAIN d0.entities :
         LET b == d0.entities[j]
         IN /\ e.type = b.type /\ e.hash = b.hash /\ e.width = b.width
            /\ e.refs \in {b.refs, <<>>}
            /\ e.form \in {b.form} \cup Reforms
            /\ Len(e.points) = Len(b.points)

\* A drawing that was edited: all its entities come from a written one.
Traced(d, d0) ==
    /\ DOMAIN d = {"release", "unit", "layers", "entities", "record", "beside"}
    /\ d.beside \in BOOLEAN
    /\ d.record \in {d0.record, -1}
    /\ \E S : d.entities \in Seq(S) /\ \A e \in S : TracedEntity(e, d0)

\* A sequence is a sequence of its own elements.
LEMMA SequenceOfOwn ==
    ASSUME NEW S, NEW q \in Seq(S)
    PROVE  q \in Seq({q[i] : i \in DOMAIN q})
<1>1. q \in [1..Len(q) -> {q[i] : i \in DOMAIN q}] /\ Len(q) \in Nat
  BY LenProperties
<1> QED  BY <1>1, IsASeq

\* A drawing that nobody edited stems from itself.
LEMMA TracedSelf ==
    ASSUME NEW d, IsDrawing(d)
    PROVE  Traced(d, d)
<1> DEFINE S == {d.entities[i] : i \in DOMAIN d.entities}
<1>1. PICK T : d.entities \in Seq(T) /\ \A e \in T : IsEntity(e)
  BY DEF IsDrawing
<1>2. d.entities \in Seq(S)
  BY <1>1, SequenceOfOwn
<1>3. ASSUME NEW i \in DOMAIN d.entities PROVE TracedEntity(d.entities[i], d)
  <2>1. d.entities[i] \in T
    BY <1>1, ElementOfSeq, LenProperties
  <2> QED  BY <1>1, <2>1 DEF TracedEntity
<1>4. \A e \in S : TracedEntity(e, d)
  BY <1>3
<1> HIDE DEF S
<1> QED  BY <1>2, <1>4 DEF Traced, IsDrawing

\* A function on the first numbers is a sequence.
LEMMA SequenceOfFunction ==
    ASSUME NEW T, NEW n \in Nat, NEW f \in [1..n -> T]
    PROVE  f \in Seq(T) /\ Len(f) = n
<1>1. f \in Seq(T)
  BY SeqDef, Zenon
<1> QED  BY <1>1, LenProperties

\* Moving points leaves as many.
LEMMA MovedPoints ==
    ASSUME NEW p \in Seq(Int \X Int), NEW by \in Int \X Int
    PROVE  Shifted(p, by) \in Seq(Int \X Int) /\ Len(Shifted(p, by)) = Len(p)
<1>1. Len(p) \in Nat /\ DOMAIN p = 1..Len(p) /\ \A k \in 1..Len(p) : p[k] \in Int \X Int
  BY LenProperties, ElementOfSeq
<1>2. \A k \in 1..Len(p) : <<p[k][1] + by[1], p[k][2] + by[2]>> \in Int \X Int
  BY <1>1
<1>3. Shifted(p, by) \in [1..Len(p) -> Int \X Int]
  BY <1>1, <1>2 DEF Shifted
<1> HIDE DEF Shifted
<1> QED  BY <1>1, <1>3, SequenceOfFunction, Zenon

\* So does moving the last of them.
LEMMA StretchedPoints ==
    ASSUME NEW p \in Seq(Int \X Int), p # <<>>
    PROVE  LET q == ReplaceAt(p, Len(p), Shifted(<<Last(p)>>, <<2, 2>>)[1])
           IN  q \in Seq(Int \X Int) /\ Len(q) = Len(p)
<1> DEFINE x == Shifted(<<Last(p)>>, <<2, 2>>)[1]
<1>1. Len(p) \in Nat /\ DOMAIN p = 1..Len(p) /\ Len(p) >= 1 /\ \A k \in 1..Len(p) : p[k] \in Int \X Int
  BY LenProperties, ElementOfSeq, EmptySeq
<1>2. Last(p) \in Int \X Int
  BY <1>1 DEF Last
<1>3. x = <<Last(p)[1] + 2, Last(p)[2] + 2>>
  BY DEF Shifted
<1> HIDE DEF x
<1>4. x \in Int \X Int
  BY <1>2, <1>3
<1>5. [p EXCEPT ![Len(p)] = x] \in Seq(Int \X Int) /\ Len([p EXCEPT ![Len(p)] = x]) = Len(p)
  BY <1>1, <1>4, ExceptSeq
<1> QED  BY <1>5 DEF ReplaceAt, x

\* Another program's edit of one entity leaves it one that stems from a written one.
LEMMA TracedEntityEdit ==
    ASSUME NEW d0, NEW e, TracedEntity(e, d0), NEW Other, NEW f \in EntityEdits(e, Other)
    PROVE  TracedEntity(f, d0)
<1>1. IsEntity(e)
  BY DEF TracedEntity
<1>2. CASE \E by \in Shifts : f = [e EXCEPT !.points = Shifted(@, by)]
  <2>1. PICK by \in Shifts : f = [e EXCEPT !.points = Shifted(@, by)]
    BY <1>2
  <2>2. by \in Int \X Int
    BY DEF Shifts
  <2>3. Shifted(e.points, by) \in Seq(Int \X Int) /\ Len(Shifted(e.points, by)) = Len(e.points)
    BY <1>1, <2>2, MovedPoints DEF IsEntity
  <2>4. f.points = Shifted(e.points, by) /\ DOMAIN f = DOMAIN e
        /\ \A x \in DOMAIN e \ {"points"} : f[x] = e[x]
    BY <1>1, <2>1 DEF IsEntity
  <2>5. f.points # <<>>
    BY <1>1, <2>3, <2>4, EmptySeq DEF IsEntity
  <2> QED  BY <1>1, <2>3, <2>4, <2>5 DEF TracedEntity, IsEntity
<1>3. CASE f = [e EXCEPT !.points = ReplaceAt(@, Len(@), Shifted(<<Last(@)>>, <<2, 2>>)[1])]
  <2> DEFINE q == ReplaceAt(e.points, Len(e.points), Shifted(<<Last(e.points)>>, <<2, 2>>)[1])
  <2>1. q \in Seq(Int \X Int) /\ Len(q) = Len(e.points)
    BY <1>1, StretchedPoints DEF IsEntity
  <2>2. f.points = q /\ DOMAIN f = DOMAIN e
        /\ \A x \in DOMAIN e \ {"points"} : f[x] = e[x]
    BY <1>1, <1>3 DEF IsEntity
  <2> HIDE DEF q
  <2>3. f.points # <<>>
    BY <1>1, <2>1, <2>2, EmptySeq DEF IsEntity
  <2> QED  BY <1>1, <2>1, <2>2, <2>3 DEF TracedEntity, IsEntity
<1>4. CASE f = [e EXCEPT !.labelled = FALSE] \/ f = [e EXCEPT !.refs = <<>>]
           \/ (\E form \in Reforms : f = [e EXCEPT !.form = form])
           \/ (\E layer \in Other : f = [e EXCEPT !.layer = layer])
  BY <1>1, <1>4 DEF TracedEntity, IsEntity
<1> QED  BY <1>2, <1>3, <1>4 DEF EntityEdits

\* Another program's edit of a drawing that stems from a written one.
LEMMA TracedEdit ==
    ASSUME NEW d0, NEW d, Traced(d, d0), NEW Other, NEW x \in Edits(d, Other)
    PROVE  Traced(x, d0)
<1>1. PICK S : d.entities \in Seq(S) /\ \A e \in S : TracedEntity(e, d0)
  BY DEF Traced
<1>2. /\ Len(d.entities) \in Nat /\ DOMAIN d.entities = 1..Len(d.entities)
      /\ \A i \in DOMAIN d.entities : d.entities[i] \in S
  BY <1>1, LenProperties, ElementOfSeq
\* It is enough to look at the entities.
<1>3. ASSUME NEW q, NEW T, q \in Seq(T), \A e \in T : TracedEntity(e, d0), x = [d EXCEPT !.entities = q]
      PROVE  Traced(x, d0)
  BY <1>3 DEF Traced
\* One of them replaced.
<1>4. ASSUME NEW i \in DOMAIN d.entities, NEW e, TracedEntity(e, d0),
             x = [d EXCEPT !.entities = [d.entities EXCEPT ![i] = e]]
      PROVE  Traced(x, d0)
  <2>1. d.entities \in Seq(S \cup {e})
    BY <1>1, SeqMonotonic
  <2>2. [d.entities EXCEPT ![i] = e] \in Seq(S \cup {e})
    BY <1>2, <2>1, ExceptSeq
  <2>3. \A y \in S \cup {e} : TracedEntity(y, d0)
    BY <1>1, <1>4
  <2> QED  BY <1>3, <1>4, <2>2, <2>3
<1>5. CASE \E i \in DOMAIN d.entities : \E e \in EntityEdits(d.entities[i], Other) :
             x = [d EXCEPT !.entities = ReplaceAt(@, i, e)]
  <2>0. PICK i \in DOMAIN d.entities : \E e \in EntityEdits(d.entities[i], Other) :
             x = [d EXCEPT !.entities = ReplaceAt(@, i, e)]
    BY <1>5
  <2>1. PICK e \in EntityEdits(d.entities[i], Other) : x = [d EXCEPT !.entities = ReplaceAt(@, i, e)]
    BY <2>0
  <2>2. TracedEntity(e, d0)
    BY <1>1, <1>2, TracedEntityEdit
  <2> QED  BY <1>4, <2>1, <2>2 DEF ReplaceAt
<1>6. CASE \E i \in DOMAIN d.entities :
             x = [d EXCEPT !.entities[i].id = d.entities[(i % Len(d.entities)) + 1].id]
  <2>1. PICK i \in DOMAIN d.entities :
             x = [d EXCEPT !.entities[i].id = d.entities[(i % Len(d.entities)) + 1].id]
    BY <1>6
  <2> DEFINE k == (i % Len(d.entities)) + 1
             e == [d.entities[i] EXCEPT !.id = d.entities[k].id]
  <2>2. k \in DOMAIN d.entities
    BY <1>2
  <2>3. TracedEntity(d.entities[i], d0) /\ TracedEntity(d.entities[k], d0)
    BY <1>1, <1>2, <2>2
  <2>4. TracedEntity(e, d0)
    <3> HIDE DEF k
    <3> QED  BY <2>3 DEF TracedEntity, IsEntity
  <2> HIDE DEF e, k
  <2>5. x = [d EXCEPT !.entities = [d.entities EXCEPT ![i] = e]]
    BY <2>1 DEF e, k
  <2> QED  BY <1>4, <2>4, <2>5
<1>7. CASE \E i \in DOMAIN d.entities : x = [d EXCEPT !.entities = RemoveAt(@, i)]
  <2>1. PICK i \in DOMAIN d.entities : x = [d EXCEPT !.entities = RemoveAt(@, i)]
    BY <1>7
  <2>2. SubSeq(d.entities, 1, i - 1) \in Seq(S) /\ SubSeq(d.entities, i + 1, Len(d.entities)) \in Seq(S)
    BY <1>1, <1>2, SubSeqProperties
  <2>3. RemoveAt(d.entities, i) \in Seq(S)
    BY <2>2, ConcatProperties DEF RemoveAt
  <2> QED  BY <1>1, <1>3, <2>1, <2>3
<1>8. CASE \E i \in DOMAIN d.entities : x = [d EXCEPT !.entities = Append(@, d.entities[i])]
  <2>1. PICK i \in DOMAIN d.entities : x = [d EXCEPT !.entities = Append(@, d.entities[i])]
    BY <1>8
  <2>2. Append(d.entities, d.entities[i]) \in Seq(S)
    BY <1>1, <1>2, AppendProperties
  <2> QED  BY <1>1, <1>3, <2>1, <2>2
<1>9. CASE x \in {[d EXCEPT !.layers = @ \ {CHOOSE layer \in @ : TRUE}], [d EXCEPT !.unit = "inch"],
             [d EXCEPT !.release = "R12"], [d EXCEPT !.record = -1], [d EXCEPT !.beside = TRUE]}
  <2>1. DOMAIN x = DOMAIN d /\ x.entities = d.entities /\ x.record \in {d.record, -1} /\ x.beside \in {d.beside, TRUE}
    BY <1>9 DEF Traced
  <2> QED  BY <1>1, <2>1 DEF Traced
<1> QED  BY <1>5, <1>6, <1>7, <1>8, <1>9 DEF Edits

\* The extent of points along an axis.
LEMMA LowHigh ==
    ASSUME NEW p \in Seq(Int \X Int), p # <<>>, NEW axis \in 1..2
    PROVE  /\ Low(p, axis) \in Int /\ High(p, axis) \in Int /\ Low(p, axis) <= High(p, axis)
           /\ \A k \in DOMAIN p : p[k][axis] \in Int /\ Low(p, axis) <= p[k][axis] /\ p[k][axis] <= High(p, axis)
           /\ \E k \in DOMAIN p : Low(p, axis) = p[k][axis]
           /\ \E k \in DOMAIN p : High(p, axis) = p[k][axis]
<1> DEFINE q == [k \in DOMAIN p |-> p[k][axis]]
           T == {p[k][axis] : k \in DOMAIN p}
<1>1. Len(p) \in Nat /\ DOMAIN p = 1..Len(p) /\ Len(p) >= 1 /\ \A k \in 1..Len(p) : p[k] \in Int \X Int
  BY LenProperties, ElementOfSeq, EmptySeq
<1>2. \A k \in DOMAIN p : p[k][axis] \in Int
  BY <1>1
<1>3. IsFiniteSet(T)
  <2>1. DOMAIN q = 1..Len(p)
    BY <1>1
  <2>2. T = {q[k] : k \in DOMAIN q}
    OBVIOUS
  <2> HIDE DEF q, T
  <2>3. IsFiniteSet(DOMAIN q)
    BY <1>1, <2>1, FS_Interval
  <2> QED  BY <2>2, <2>3, FiniteImage
<1>4. T \in SUBSET Int /\ p[1][axis] \in T
  <2>1. 1 \in DOMAIN p
    BY <1>1
  <2> QED  BY <1>2, <2>1
<1>5. Low(p, axis) = Min(T) /\ High(p, axis) = Max(T)
  BY DEF Low, High
<1>6. /\ Max(T) \in T /\ \A y \in T : y <= Max(T)
      /\ Min(T) \in T /\ \A y \in T : Min(T) <= y
  <2> HIDE DEF T
  <2> QED  BY <1>3, <1>4, FiniteExtremes
<1> QED  BY <1>2, <1>5, <1>6

\* The gap between two shapes is the largest of the distances between their sides.
LEMMA GapIs ==
    ASSUME NEW p \in Seq(Int \X Int), p # <<>>, NEW q \in Seq(Int \X Int), q # <<>>
    PROVE  /\ Gap(p, q) \in Int
           /\ \E axis \in 1..2 : Gap(p, q) \in {Low(p, axis) - High(q, axis), Low(q, axis) - High(p, axis)}
           /\ \A axis \in 1..2 : Low(p, axis) - High(q, axis) <= Gap(p, q) /\ Low(q, axis) - High(p, axis) <= Gap(p, q)
<1> DEFINE f(axis) == Low(p, axis) - High(q, axis)
           g(axis) == Low(q, axis) - High(p, axis)
           S == {f(axis) : axis \in 1..2} \cup {g(axis) : axis \in 1..2}
<1>1. f(1) \in Int /\ f(2) \in Int /\ g(1) \in Int /\ g(2) \in Int
  <2>1. \A axis \in 1..2 : /\ Low(p, axis) \in Int /\ High(p, axis) \in Int
                           /\ Low(q, axis) \in Int /\ High(q, axis) \in Int
    BY LowHigh
  <2>2. 1 \in 1..2 /\ 2 \in 1..2
    OBVIOUS
  <2>3. ASSUME NEW axis \in 1..2 PROVE f(axis) \in Int /\ g(axis) \in Int
    <3>1. \A a \in Int, b \in Int : a - b \in Int
      OBVIOUS
    <3> QED  BY <2>1, <3>1
  <2> HIDE DEF f, g
  <2> QED  BY <2>2, <2>3
<1> HIDE DEF f, g
<1>2. S = {f(1), f(2), g(1), g(2)}
  OBVIOUS
<1>3. \E x \in {f(1), f(2), g(1), g(2)} : \A y \in {f(1), f(2), g(1), g(2)} : y <= x
  BY <1>1
<1>4. Gap(p, q) = Max(S)
  BY DEF Gap, f, g
<1>5. Max(S) \in S /\ \A y \in S : y <= Max(S)
  BY <1>1, <1>2, <1>3, MaxIs
<1> QED  BY <1>1, <1>2, <1>4, <1>5 DEF f, g

\* The centre of a shape is a number of microns.
LEMMA CentreIs ==
    ASSUME NEW p \in Seq(Int \X Int), p # <<>>, NEW axis \in 1..2
    PROVE  Centre(p, axis) \in Int
<1>1. Low(p, axis) \in Int /\ High(p, axis) \in Int
  BY LowHigh
<1> DEFINE l == Low(p, axis)
           h == High(p, axis)
<1> HIDE DEF l, h
<1>2. (l + h) \div 2 \in Int
  BY <1>1 DEF l, h
<1> QED  BY <1>2 DEF Centre, l, h

\* Only what has no fault passes.
LEMMA PassedMeansNoViolation ==
    ASSUME NEW raised \in BOOLEAN, NEW V, Answer(raised, V).status = "passed"
    PROVE  ~raised /\ V = {}
BY DEF Answer, Judged
-----------------------------------------------------------------------------
(* Frames *)

\* What is drawn for the things of one kind is a sequence of just these.
LEMMA FrameKindListed ==
    ASSUME NEW c, NEW hash, NEW type, IsFiniteSet(ListedFrame(c, type))
    PROVE  LET S == {FrameEntity(c, hash, type, id) : id \in ListedFrame(c, type)}
           IN  Lists(InOrder(S), S)
<1> DEFINE S == {FrameEntity(c, hash, type, id) : id \in ListedFrame(c, type)}
           f == [id \in ListedFrame(c, type) |-> FrameEntity(c, hash, type, id)]
<1>1. f \in Surjection(ListedFrame(c, type), S)
  BY Zenon DEF Surjection
<1> HIDE DEF S, f
<1>2. IsFiniteSet(S)
  BY <1>1, FS_Surjection
<1>3. Lists(InOrder(S), S)
  BY <1>2, InOrderLists
<1> QED  BY <1>3 DEF S

\* The entities of a frame drawing are those of its things, the metadata among them.
LEMMA FrameEntities ==
    ASSUME NEW c, FrameContract(c), NEW hash
    PROVE  DrawnFrame(c, hash).entities
             \in Seq({FrameEntity(c, hash, item[1], item[2]) : item \in FrameItems(c)})
<1> DEFINE All(type) == {FrameEntity(c, hash, type, id) : id \in ListedFrame(c, type)}
           T == {FrameEntity(c, hash, item[1], item[2]) : item \in FrameItems(c)}
<1>1. \A type \in {"member", "support", "load", "metadata"} : type \in DOMAIN LayerOf
  BY DEF LayerOf
<1>2. ASSUME NEW type \in DOMAIN LayerOf PROVE InOrder(All(type)) \in Seq(T)
  <2>1. IsFiniteSet(ListedFrame(c, type))
    BY <1>2, FS_Singleton DEF ListedFrame, FrameContract, LayerOf
  <2>2. Lists(InOrder(All(type)), All(type))
    BY <2>1, FrameKindListed
  <2>3. All(type) \subseteq T
    <3> SUFFICES ASSUME NEW id \in ListedFrame(c, type) PROVE FrameEntity(c, hash, type, id) \in T
      OBVIOUS
    <3>1. <<type, id>> \in FrameItems(c)
      BY <1>2 DEF FrameItems
    <3> QED  BY <3>1
  <2> HIDE DEF All, T
  <2> QED  BY <2>2, <2>3, SeqMonotonic DEF Lists
<1>3. DrawnFrame(c, hash).entities =
        InOrder(All("member")) \o InOrder(All("support")) \o InOrder(All("load")) \o InOrder(All("metadata"))
  BY DEF DrawnFrame, Drawing
<1> HIDE DEF All, T
<1>4. DrawnFrame(c, hash).entities \in Seq(T)
  BY <1>1, <1>2, <1>3, ConcatProperties
<1> QED  BY <1>4 DEF T

\* A thing is drawn in two points or in one, of the same kind and form whatever the contract.
LEMMA FramePoints ==
    ASSUME NEW c, NEW type, NEW id
    PROVE  /\ Len(PointsOf(c, type, id)) = (IF type = "member" THEN 2 ELSE 1)
           /\ DOMAIN PointsOf(c, type, id) = (IF type = "member" THEN 1..2 ELSE 1..1)
BY DEF PointsOf

\* The drawing of a frame that is ready is one whose entities can be told apart.
LEMMA FrameIsDrawing ==
    ASSUME NEW c, FrameContract(c), NEW claim, NEW hash, FrameStatus(c, claim, hash) = "ready"
    PROVE  IsDrawing(DrawnFrame(c, hash))
<1> DEFINE T == {FrameEntity(c, hash, item[1], item[2]) : item \in FrameItems(c)}
<1>1. /\ \A m \in DOMAIN c.members : {c.members[m].from, c.members[m].to} \subseteq DOMAIN c.nodes
      /\ \A s \in DOMAIN c.supports : c.supports[s].node \in DOMAIN c.nodes
      /\ \A l \in DOMAIN c.loads : c.loads[l].node \in DOMAIN c.nodes
  BY DEF FrameStatus
<1>2. ASSUME NEW item \in FrameItems(c) PROVE IsEntity(FrameEntity(c, hash, item[1], item[2]))
  <2>1. PICK type \in DOMAIN LayerOf : item \in {type} \X ListedFrame(c, type)
    BY DEF FrameItems
  <2>2. item[1] = type /\ item[2] \in ListedFrame(c, type)
    BY <2>1
  <2>3. \A n \in DOMAIN c.nodes : c.nodes[n] \in Int \X Int
    BY DEF FrameContract
  <2>4. PointsOf(c, type, item[2]) \in Seq(Int \X Int)
    <3>1. CASE type = "member"
      BY <1>1, <2>2, <2>3, <3>1 DEF PointsOf, ListedFrame
    <3>2. CASE type = "support"
      BY <1>1, <2>2, <2>3, <3>2 DEF PointsOf, ListedFrame
    <3>3. CASE type = "load"
      BY <1>1, <2>2, <2>3, <3>3 DEF PointsOf, ListedFrame
    <3>4. CASE type = "metadata"
      BY <3>4 DEF PointsOf
    <3> QED  BY <3>1, <3>2, <3>3, <3>4 DEF LayerOf
  <2>5. PointsOf(c, type, item[2]) # <<>>
    BY FramePoints
  <2> QED  BY <2>2, <2>4, <2>5 DEF IsEntity, FrameEntity
<1>3. DrawnFrame(c, hash).entities \in Seq(T) /\ \A e \in T : IsEntity(e)
  BY <1>2, FrameEntities
<1>4. DOMAIN DrawnFrame(c, hash) = {"release", "unit", "layers", "entities", "record", "beside"}
      /\ DrawnFrame(c, hash).beside = FALSE
  BY DEF DrawnFrame, Drawing
<1> HIDE DEF T
<1> QED  BY <1>3, <1>4 DEF IsDrawing

\* The things of a contract are as many as its entities, and the metadata.
LEMMA FrameItemCount ==
    ASSUME NEW c, FrameContract(c)
    PROVE  /\ IsFiniteSet(FrameItems(c))
           /\ Cardinality(FrameItems(c))
                = Cardinality(DOMAIN c.members) + Cardinality(DOMAIN c.supports) + Cardinality(DOMAIN c.loads) + 1
<1> DEFINE M == {"member"} \X DOMAIN c.members
           S == {"support"} \X DOMAIN c.supports
           L == {"load"} \X DOMAIN c.loads
           X == {"metadata"} \X {"frame-metadata"}
<1>1. FrameItems(c) = ((M \cup S) \cup L) \cup X
  <2>1. DOMAIN LayerOf = {"member", "support", "load", "metadata"}
    BY DEF LayerOf
  <2>2. /\ ListedFrame(c, "member") = DOMAIN c.members /\ ListedFrame(c, "support") = DOMAIN c.supports
        /\ ListedFrame(c, "load") = DOMAIN c.loads /\ ListedFrame(c, "metadata") = {"frame-metadata"}
    BY DEF ListedFrame
  <2> QED  BY <2>1, <2>2 DEF FrameItems
<1>2. /\ IsFiniteSet(DOMAIN c.members) /\ Cardinality(DOMAIN c.members) \in Nat
      /\ IsFiniteSet(DOMAIN c.supports) /\ Cardinality(DOMAIN c.supports) \in Nat
      /\ IsFiniteSet(DOMAIN c.loads) /\ Cardinality(DOMAIN c.loads) \in Nat
  BY FS_CardinalityType DEF FrameContract
<1>3. /\ IsFiniteSet(M) /\ Cardinality(M) = Cardinality(DOMAIN c.members)
      /\ IsFiniteSet(S) /\ Cardinality(S) = Cardinality(DOMAIN c.supports)
      /\ IsFiniteSet(L) /\ Cardinality(L) = Cardinality(DOMAIN c.loads)
      /\ IsFiniteSet(X) /\ Cardinality(X) = 1
  <2>1. IsFiniteSet({"frame-metadata"}) /\ Cardinality({"frame-metadata"}) = 1
    BY FS_Singleton
  <2> QED  BY <1>2, <2>1, Tagged
<1>4. M \cap S = {} /\ (M \cup S) \cap L = {} /\ ((M \cup S) \cup L) \cap X = {}
  OBVIOUS
<1> HIDE DEF M, S, L, X
<1>5. IsFiniteSet(M \cup S) /\ Cardinality(M \cup S) = Cardinality(DOMAIN c.members) + Cardinality(DOMAIN c.supports)
  <2>1. IsFiniteSet(M \cup S) /\ Cardinality(M \cup S) = Cardinality(M) + Cardinality(S)
    BY <1>3, <1>4, DisjointUnion, Zenon
  <2> QED  BY <1>3, <2>1
<1>6. /\ IsFiniteSet((M \cup S) \cup L)
      /\ Cardinality((M \cup S) \cup L)
           = Cardinality(DOMAIN c.members) + Cardinality(DOMAIN c.supports) + Cardinality(DOMAIN c.loads)
  <2>1. /\ IsFiniteSet((M \cup S) \cup L)
        /\ Cardinality((M \cup S) \cup L) = Cardinality(M \cup S) + Cardinality(L)
    BY <1>3, <1>4, <1>5, DisjointUnion, Zenon
  <2> QED  BY <1>3, <1>5, <2>1
<1>7. /\ IsFiniteSet(((M \cup S) \cup L) \cup X)
      /\ Cardinality(((M \cup S) \cup L) \cup X)
           = Cardinality(DOMAIN c.members) + Cardinality(DOMAIN c.supports) + Cardinality(DOMAIN c.loads) + 1
  <2>1. /\ IsFiniteSet(((M \cup S) \cup L) \cup X)
        /\ Cardinality(((M \cup S) \cup L) \cup X) = Cardinality((M \cup S) \cup L) + Cardinality(X)
    BY <1>3, <1>4, <1>6, DisjointUnion, Zenon
  <2> QED  BY <1>3, <1>6, <2>1
<1> QED  BY <1>1, <1>7

\* An entity no fault was found with is a thing of the contract, with its meaning and its
\* source, in place, if it was drawn from that contract.
LEMMA FaultlessEntity ==
    ASSUME NEW c, NEW hash, NEW d, NEW i \in DOMAIN d.entities,
           TracedEntity(d.entities[i], DrawnFrame(c, hash)), FrameContract(c),
           MetadataFaults(c, hash, d.entities[i]) = {}, FrameEntityFaults(c, d, i) = {}
    PROVE  LET item == <<d.entities[i].type, d.entities[i].id>>
           IN  item \in FrameItems(c) /\ Shows(c, hash, d.entities[i], item)
<1> DEFINE e == d.entities[i]
           d0 == DrawnFrame(c, hash)
<1>1. IsEntity(e)
  BY DEF TracedEntity
<1>2. PICK j \in DOMAIN d0.entities :
         LET b == d0.entities[j]
         IN /\ e.type = b.type /\ e.hash = b.hash /\ e.refs \in {b.refs, <<>>} /\ Len(e.points) = Len(b.points)
  BY DEF TracedEntity
<1>3. PICK item \in FrameItems(c) : d0.entities[j] = FrameEntity(c, hash, item[1], item[2])
  <2>1. d0.entities \in Seq({FrameEntity(c, hash, item[1], item[2]) : item \in FrameItems(c)})
    BY FrameEntities
  <2> HIDE DEF d0
  <2> QED  BY <2>1, LenProperties, ElementOfSeq
<1> HIDE DEF e, d0
<1>4. e.type = item[1] /\ e.hash = hash /\ Len(e.points) = (IF item[1] = "member" THEN 2 ELSE 1)
      /\ e.refs \in {<<Semantics(c, item[1], item[2]), Source(c, item[2])>>, <<>>}
  <2> DEFINE b == FrameEntity(c, hash, item[1], item[2])
  <2>1. /\ b.type = item[1] /\ b.hash = hash /\ b.points = PointsOf(c, item[1], item[2])
        /\ b.refs = <<Semantics(c, item[1], item[2]), Source(c, item[2])>>
    BY DEF FrameEntity
  <2>2. Len(b.points) = (IF item[1] = "member" THEN 2 ELSE 1)
    <3> HIDE DEF b
    <3>1. Len(PointsOf(c, item[1], item[2])) = (IF item[1] = "member" THEN 2 ELSE 1)
      BY FramePoints, Zenon
    <3> QED  BY <2>1, <3>1
  <2> HIDE DEF b
  <2>3. e.type = b.type /\ e.hash = b.hash /\ e.refs \in {b.refs, <<>>} /\ Len(e.points) = Len(b.points)
    BY <1>2, <1>3 DEF b
  <2> QED  BY <2>1, <2>2, <2>3
<1>5. KnownFrame(c, e.type, e.id) /\ e.form = (IF e.type = "member" THEN "line" ELSE IF e.type = "metadata" THEN "text" ELSE "point")
  BY DEF FrameEntityFaults, e
<1>6. e.refs = <<Semantics(c, item[1], item[2]), Source(c, item[2])>>
  BY <1>4, <1>5 DEF MetadataFaults, e
<1>7. e.refs[1] = Semantics(c, e.type, e.id)
  BY <1>5, <1>6 DEF MetadataFaults, e
<1>8. e.refs[2] = Source(c, e.id)
  <2>1. CASE c.source = {}
    BY <1>6, <2>1 DEF Source
  <2>2. CASE c.source # {}
    BY <1>5, <1>6, <2>2 DEF MetadataFaults, e
  <2> QED  BY <2>1, <2>2
<1>9. e.refs = <<Semantics(c, e.type, e.id), Source(c, e.id)>>
  BY <1>6, <1>7, <1>8
<1>10. DOMAIN e.points = 1..Len(e.points)
  BY <1>1, LenProperties DEF IsEntity
<1>11. e.type # "metadata" =>
          LET points == PointsOf(c, e.type, e.id)
              At(q) == \A k \in DOMAIN q : \A axis \in 1..2 : Abs(e.points[k][axis] - q[k][axis]) <= Epsilon
          IN  At(points) \/ At(Reverse(points))
  <2> SUFFICES ASSUME e.type # "metadata"
               PROVE  LET points == PointsOf(c, e.type, e.id)
                          At(q) == \A k \in DOMAIN q : \A axis \in 1..2 : Abs(e.points[k][axis] - q[k][axis]) <= Epsilon
                      IN  At(points) \/ At(Reverse(points))
    OBVIOUS
  <2>1. e.type \in Kinds
    BY <1>5 DEF KnownFrame, LayerOf, Kinds
  <2>2. \/ WithinEpsilon(e.points, PointsOf(c, e.type, e.id))
        \/ e.type = "member" /\ WithinEpsilon(e.points, Reverse(PointsOf(c, e.type, e.id)))
    BY <1>5, <2>1 DEF FrameEntityFaults, e
  <2>3. DOMAIN e.points = DOMAIN PointsOf(c, e.type, e.id)
    <3>1. DOMAIN PointsOf(c, e.type, e.id) = (IF e.type = "member" THEN 1..2 ELSE 1..1)
      BY FramePoints, Zenon
    <3> QED  BY <1>4, <1>10, <3>1
  <2>4. e.type = "member" => DOMAIN e.points = DOMAIN Reverse(PointsOf(c, e.type, e.id))
    <3>1. Len(PointsOf(c, e.type, e.id)) = (IF e.type = "member" THEN 2 ELSE 1)
      BY FramePoints, Zenon
    <3> QED  BY <1>4, <1>10, <3>1 DEF Reverse
  <2> QED  BY <2>2, <2>3, <2>4 DEF WithinEpsilon
<1>12. <<e.type, e.id>> \in FrameItems(c)
  BY <1>5 DEF KnownFrame, FrameItems
<1>13. Shows(c, hash, e, <<e.type, e.id>>)
  BY <1>4, <1>9, <1>11 DEF Shows
<1> QED  BY <1>12, <1>13 DEF e

\* What a frame drawing that passed has no fault in.
LEMMA FrameFaultless ==
    ASSUME NEW c, NEW hash, NEW d, VerifyFrame(c, d, hash).status = "passed"
    PROVE  /\ FrameStatus(c, {}, hash) = "ready"
           /\ d.record = hash /\ ~d.beside /\ Relevant(d) = DOMAIN d.entities
           /\ \A i \in DOMAIN d.entities :
                /\ d.entities[i].labelled
                /\ MetadataFaults(c, hash, d.entities[i]) = {} /\ FrameEntityFaults(c, d, i) = {}
           /\ AbsenceFaults(c, d) = {}
<1> DEFINE V == {Violation(code, {}, 0, FALSE) : code \in
                   IF FrameStatus(c, {}, hash) # "ready" THEN {"CONTRACT_NOT_READY"}
                   ELSE FrameFaults(c, d, hash)}
<1>1. V = {}
  <2>1. Answer(FALSE, V).status = "passed"
    BY DEF VerifyFrame
  <2> HIDE DEF V
  <2> QED  BY <2>1, PassedMeansNoViolation
<1>2. FrameStatus(c, {}, hash) = "ready"
  BY <1>1
<1>3. FrameFaults(c, d, hash) = {}
  BY <1>1, <1>2
<1> DEFINE A1 == IF d.record # hash THEN {"CONTRACT_RECORD_INVALID"} ELSE {}
           A2 == IF d.beside THEN {"CONTENT_FORBIDDEN"} ELSE {}
           A3 == IF Relevant(d) # DOMAIN d.entities THEN {"LAYER_UNEXPECTED"} ELSE {}
           A4 == UNION {MetadataFaults(c, hash, d.entities[i]) : i \in Relevant(d)}
           A5 == UNION {FrameEntityFaults(c, d, i) : i \in {j \in Relevant(d) : d.entities[j].labelled}}
           A0 == {v.code : v \in FileViolations(d, FrameLayers)}
<1>4. A0 \cup A1 \cup A2 \cup A3 \cup A4 \cup A5 \cup AbsenceFaults(c, d) = {}
  BY <1>3 DEF FrameFaults
<1>5. A1 = {} /\ A2 = {} /\ A3 = {} /\ A4 = {} /\ A5 = {} /\ AbsenceFaults(c, d) = {}
  <2> HIDE DEF A0, A1, A2, A3, A4, A5
  <2> QED  BY <1>4
<1>6. d.record = hash /\ ~d.beside /\ Relevant(d) = DOMAIN d.entities
  BY <1>5
<1>7. \A i \in Relevant(d) : MetadataFaults(c, hash, d.entities[i]) = {}
  BY <1>5
<1>8. \A i \in Relevant(d) : d.entities[i].labelled
  BY <1>7 DEF MetadataFaults
<1>9. ASSUME NEW i \in Relevant(d) PROVE FrameEntityFaults(c, d, i) = {}
  <2>1. FrameEntityFaults(c, d, i) \in {FrameEntityFaults(c, d, k) : k \in {j \in Relevant(d) : d.entities[j].labelled}}
    BY <1>8
  <2> QED  BY <1>5, <2>1
<1> QED  BY <1>2, <1>5, <1>6, <1>7, <1>8, <1>9

\* Two entities of a drawing that passed are two things, but for the metadata.
LEMMA NoTwins ==
    ASSUME NEW c, NEW hash, NEW d, VerifyFrame(c, d, hash).status = "passed", DOMAIN d.entities \subseteq Nat,
           NEW i \in DOMAIN d.entities, NEW j \in DOMAIN d.entities, i # j,
           d.entities[i].type # "metadata"
    PROVE  <<d.entities[i].type, d.entities[i].id>> # <<d.entities[j].type, d.entities[j].id>>
<1>1. ASSUME NEW m \in DOMAIN d.entities, NEW n \in DOMAIN d.entities, n < m,
             d.entities[m].type # "metadata",
             d.entities[n].type = d.entities[m].type, d.entities[n].id = d.entities[m].id
      PROVE  FALSE
  <2>1. /\ Relevant(d) = DOMAIN d.entities /\ d.entities[n].labelled
        /\ FrameEntityFaults(c, d, m) = {}
    BY FrameFaultless
  <2>2. n \in Earlier(d, m)
    BY <1>1, <2>1 DEF Earlier
  <2>3. d.entities[m].type \in DOMAIN LayerOf
    BY <2>1 DEF FrameEntityFaults, KnownFrame
  <2>4. d.entities[m].type \in Kinds
    BY <1>1, <2>3 DEF Kinds, LayerOf
  <2> QED  BY <1>1, <2>1, <2>2, <2>4 DEF FrameEntityFaults
<1>2. i < j \/ j < i
  <2>1. i \in Nat /\ j \in Nat
    OBVIOUS
  <2> QED  BY <2>1
<1> SUFFICES ASSUME d.entities[i].type = d.entities[j].type, d.entities[i].id = d.entities[j].id
             PROVE  FALSE
  OBVIOUS
<1> QED  BY <1>1, <1>2

\* A drawing of a contract that passed conforms to it, whatever was done to it.
LEMMA PassedFrameConforms ==
    ASSUME NEW c, NEW hash, NEW d, FrameContract(c), Traced(d, DrawnFrame(c, hash)),
           VerifyFrame(c, d, hash).status = "passed"
    PROVE  FrameConforms(c, hash, d)
<1> DEFINE N == Len(d.entities)
           Item(i) == <<d.entities[i].type, d.entities[i].id>>
           Plain == {i \in 1..N : d.entities[i].type # "metadata"}
<1>1. PICK S : d.entities \in Seq(S) /\ \A e \in S : TracedEntity(e, DrawnFrame(c, hash))
  BY DEF Traced
<1>2. N \in Nat /\ DOMAIN d.entities = 1..N /\ \A i \in 1..N : d.entities[i] \in S
  BY <1>1, LenProperties, ElementOfSeq
<1>3. /\ Relevant(d) = 1..N /\ AbsenceFaults(c, d) = {}
      /\ \A i \in 1..N : d.entities[i].labelled /\ FrameEntityFaults(c, d, i) = {}
  BY <1>2, FrameFaultless
<1>4. ASSUME NEW i \in 1..N
      PROVE  Item(i) \in FrameItems(c) /\ Shows(c, hash, d.entities[i], Item(i))
  <2>1. i \in DOMAIN d.entities /\ TracedEntity(d.entities[i], DrawnFrame(c, hash))
    BY <1>1, <1>2
  <2>2. MetadataFaults(c, hash, d.entities[i]) = {} /\ FrameEntityFaults(c, d, i) = {}
    BY <2>1, FrameFaultless
  <2> HIDE DEF N
  <2> QED  BY <2>1, <2>2, FaultlessEntity
<1>5. /\ Cardinality(FrameItems(c)) = N /\ IsFiniteSet(FrameItems(c)) /\ Cardinality(FrameItems(c)) \in Nat
  <2>1. Cardinality(1..N) = N
    BY <1>2, CountTo
  <2>2. Cardinality(Relevant(d)) = Cardinality(DOMAIN c.members) + Cardinality(DOMAIN c.supports) + Cardinality(DOMAIN c.loads) + 1
    BY <1>3 DEF AbsenceFaults
  <2> QED  BY <1>2, <1>3, <2>1, <2>2, FrameItemCount
\* No two entities are the same thing, but for the metadata.
<1>6. ASSUME NEW i \in Plain, NEW j \in Plain, i # j PROVE Item(i) # Item(j)
  BY <1>2, <1>6, NoTwins
\* Every thing of the contract is there: the entities are as many as the things.
<1>7. ASSUME NEW item \in FrameItems(c) PROVE \E i \in 1..N : Item(i) = item
  <2>1. item = <<item[1], item[2]>> /\ item[1] \in DOMAIN LayerOf /\ item[2] \in ListedFrame(c, item[1])
    BY DEF FrameItems
  <2>2. CASE item[1] \in Kinds
    <3>1. Absent(c, d) = {}
      BY <1>3 DEF AbsenceFaults
    <3>2. ListedFrame(c, item[1]) \subseteq
            {d.entities[i].id : i \in {j \in Relevant(d) : d.entities[j].labelled /\ d.entities[j].type = item[1]}}
      BY <2>2, <3>1 DEF Absent
    <3>3. PICK i \in {j \in Relevant(d) : d.entities[j].labelled /\ d.entities[j].type = item[1]} :
            d.entities[i].id = item[2]
      BY <2>1, <3>2
    <3> QED  BY <1>3, <2>1, <3>3
  <2>3. CASE item[1] \notin Kinds
    <3>1. item = <<"metadata", "frame-metadata">>
      BY <2>1, <2>3 DEF Kinds, LayerOf, ListedFrame
    <3>2. \E i \in 1..N : d.entities[i].type = "metadata"
      <4> SUFFICES ASSUME Plain = 1..N PROVE FALSE
        OBVIOUS
      <4> DEFINE f == [i \in 1..N |-> Item(i)]
                 T == FrameItems(c) \ {item}
      <4>1. \A i \in 1..N : Item(i) \in T
        BY <1>4, <3>1
      <4>2. \A i, j \in 1..N : i # j => Item(i) # Item(j)
        BY <1>6
      <4>3. f \in Injection(1..N, T)
        <5> HIDE DEF Item, T
        <5> QED  BY <4>1, <4>2 DEF Injection, IsInjective
      <4>4. IsFiniteSet(T) /\ Cardinality(T) = N - 1
        BY <1>5, FS_RemoveElement
      <4>5. Cardinality(1..N) = N
        BY <1>2, CountTo
      <4> HIDE DEF f, T
      <4>6. Cardinality(1..N) <= Cardinality(T)
        BY <4>3, <4>4, FS_Injection
      <4> QED  BY <1>2, <4>4, <4>5, <4>6
    <3>3. PICK i \in 1..N : d.entities[i].type = "metadata"
      BY <3>2
    <3>4. Item(i) \in FrameItems(c)
      BY <1>4
    <3>5. d.entities[i].id = "frame-metadata"
      <4>1. d.entities[i].id \in ListedFrame(c, "metadata")
        BY <3>3, <3>4 DEF FrameItems
      <4> QED  BY <4>1 DEF ListedFrame
    <3> QED  BY <3>1, <3>3, <3>5
  <2> QED  BY <2>2, <2>3
<1>8. \A item \in FrameItems(c) : \E i \in DOMAIN d.entities : Shows(c, hash, d.entities[i], item)
  BY <1>2, <1>4, <1>7
<1>9. d.record = hash /\ ~d.beside
  BY FrameFaultless
<1> QED  BY <1>5, <1>8, <1>9 DEF FrameConforms
-----------------------------------------------------------------------------
(* Rhino exchanges *)

\* The ends of the members are points of the plane.
LEMMA EndsArePoints ==
    ASSUME NEW e, FrameExchange(e), e.unit \in DOMAIN UnitScale
    PROVE  Ends(e) \subseteq Int \X Int \X Int /\ Tolerance(e) \in Nat
<1>1. UnitScale[e.unit] \in Nat
  BY DEF UnitScale
<1>2. ASSUME NEW m \in DOMAIN e.members, NEW k \in 1..2
      PROVE  Local(e, e.members[m].points[k]) \in Int \X Int \X Int
  <2> DEFINE p == e.members[m].points[k]
             o == e.datum.origin
             r == [j \in 1..3 |-> (p[j] - o[j]) * UnitScale[e.unit]]
  <2>1. p \in Int \X Int \X Int /\ o \in Int \X Int \X Int
    BY DEF FrameExchange
  <2>2. p[1] \in Int /\ p[2] \in Int /\ p[3] \in Int /\ o[1] \in Int /\ o[2] \in Int /\ o[3] \in Int
    BY <2>1
  <2> HIDE DEF p, o
  <2>3. r \in Int \X Int \X Int /\ r[1] \in Int /\ r[2] \in Int /\ r[3] \in Int
    <3>1. \A j \in 1..3 : (p[j] - o[j]) * UnitScale[e.unit] \in Int
      BY <1>1, <2>2
    <3>2. r = <<r[1], r[2], r[3]>>
      OBVIOUS
    <3> QED  BY <3>1, <3>2
  <2>4. Local(e, p) = (IF e.datum.axes = "straight" THEN r ELSE <<r[2], -r[1], r[3]>>)
    BY DEF Local, o
  <2> HIDE DEF r
  <2>5. Local(e, p) \in Int \X Int \X Int
    BY <2>3, <2>4
  <2> QED  BY <2>5 DEF p
<1>3. Ends(e) \subseteq Int \X Int \X Int
  BY <1>2 DEF Ends
<1>4. Tolerance(e) \in Nat
  <2>1. e.tolerance \in Nat
    BY DEF FrameExchange
  <2> QED  BY <2>1 DEF Tolerance, UnitScale
<1> QED  BY <1>3, <1>4

\* There are finitely many ends.
LEMMA EndsAreFinite ==
    ASSUME NEW e, FrameExchange(e)
    PROVE  IsFiniteSet(Ends(e))
<1> DEFINE D == (DOMAIN e.members) \X (1..2)
           f == [x \in D |-> Local(e, e.members[x[1]].points[x[2]])]
<1>1. IsFiniteSet(D)
  <2>1. IsFiniteSet(DOMAIN e.members) /\ IsFiniteSet(1..2)
    <3>1. IsFiniteSet(DOMAIN e.members)
      BY DEF FrameExchange
    <3>2. \A n \in Nat : IsFiniteSet(1..n)
      BY FS_Interval
    <3> QED  BY <3>1, <3>2
  <2> QED  BY <2>1, FS_Product
<1>2. \A x \in D : f[x] \in Ends(e)
  BY DEF Ends
<1>3. ASSUME NEW p \in Ends(e) PROVE \E x \in D : f[x] = p
  <2>1. PICK m \in DOMAIN e.members, k \in 1..2 : p = Local(e, e.members[m].points[k])
    BY DEF Ends
  <2>2. <<m, k>> \in D /\ f[<<m, k>>] = p
    BY <2>1
  <2> QED  BY <2>2
<1>4. f \in Surjection(D, Ends(e))
  <2>1. f \in [D -> Ends(e)]
    BY <1>2
  <2> HIDE DEF D, f
  <2> QED  BY <1>3, <2>1, Zenon DEF Surjection
<1> HIDE DEF D, f
<1> QED  BY <1>1, <1>4, FS_Surjection

\* The end that stands for those it is merged with is one of them.
LEMMA RepresentativeIsNear ==
    ASSUME NEW e, FrameExchange(e), e.unit \in DOMAIN UnitScale, NEW p \in Ends(e)
    PROVE  Representative(e, p) \in Ends(e) /\ Near(e, p, Representative(e, p))
<1> DEFINE Cluster == {q \in Ends(e) : Near(e, p, q)}
           R == {x \in Ends(e) \X Ends(e) : Precedes(x[1], x[2])}
<1>1. Ends(e) \subseteq Int \X Int \X Int /\ Tolerance(e) \in Nat
  BY EndsArePoints
<1>2. \A q \in Ends(e) : q[1] \in Int /\ q[2] \in Int
  BY <1>1
<1>3. p \in Cluster
  BY <1>1, <1>2 DEF Near, Abs
<1>4. IsFiniteSet(Cluster)
  BY EndsAreFinite, FS_Subset
<1>5. \A x, y \in Cluster : <<x, y>> \in R \/ <<y, x>> \in R
  BY <1>2 DEF Precedes
<1>6. \A x, y, z \in Cluster : <<x, y>> \in R /\ <<y, z>> \in R => <<x, z>> \in R
  BY <1>2 DEF Precedes
<1>7. \E q \in Cluster : \A r \in Cluster : <<q, r>> \in R
  <2> HIDE DEF Cluster, R
  <2> QED  BY <1>3, <1>4, <1>5, <1>6, FirstExists
<1>8. \E q \in Cluster : \A r \in Cluster : Precedes(q, r)
  BY <1>7
<1>9. Representative(e, p) \in Cluster
  <2>1. Representative(e, p) = CHOOSE q \in Cluster : \A r \in Cluster : Precedes(q, r)
    BY DEF Representative
  <2> HIDE DEF Cluster
  <2> QED  BY <1>8, <2>1
<1> QED  BY <1>9

\* Rounding to the micron moves by half of one at most.
LEMMA QuantizedIsClose ==
    ASSUME NEW x \in Int
    PROVE  Quantized(x) \in Int /\ LocalGrid * Quantized(x) - x \in -2..2
<1> DEFINE b == x \div 4
           r == x % 4
<1>1. b \in Int /\ r \in 0..3 /\ x = 4 * b + r
  OBVIOUS
<1>2. Quantized(x) = IF 2 * r > 4 \/ (2 * r = 4 /\ b % 2 = 1) THEN b + 1 ELSE b
  BY DEF Quantized, LocalGrid
<1> HIDE DEF b, r
<1> QED  BY <1>1, <1>2 DEF LocalGrid

\* Ends are at one node exactly if they are near one another.
LEMMA NodesAreClusters ==
    ASSUME NEW e, FrameExchange(e), e.unit \in DOMAIN UnitScale, ~Ambiguous(e), ~Collides(e),
           NEW p \in Ends(e), NEW q \in Ends(e)
    PROVE  NodeAt(e, p) = NodeAt(e, q) <=> Near(e, p, q)
<1>1. Ends(e) \subseteq Int \X Int \X Int /\ Tolerance(e) \in Nat
  BY EndsArePoints
<1>2. \A x \in Ends(e) : x[1] \in Int /\ x[2] \in Int
  BY <1>1
<1>3. \A x, y \in Ends(e) : Near(e, x, y) => Near(e, y, x)
  BY <1>1, <1>2 DEF Near, Abs
<1>4. \A x, y, z \in Ends(e) : Near(e, x, y) /\ Near(e, y, z) => Near(e, x, z)
  BY DEF Ambiguous
<1>5. ASSUME Near(e, p, q) PROVE NodeAt(e, p) = NodeAt(e, q)
  <2>1. \A r \in Ends(e) : Near(e, p, r) <=> Near(e, q, r)
    BY <1>3, <1>4, <1>5
  <2>2. {r \in Ends(e) : Near(e, p, r)} = {r \in Ends(e) : Near(e, q, r)}
    BY <2>1
  <2>3. Representative(e, p) = Representative(e, q)
    BY <2>2 DEF Representative
  <2> QED  BY <2>3 DEF NodeAt
<1>6. ASSUME NodeAt(e, p) = NodeAt(e, q) PROVE Near(e, p, q)
  <2>1. Representative(e, p) = Representative(e, q)
    BY <1>6 DEF Collides
  <2>2. /\ Representative(e, p) \in Ends(e) /\ Near(e, p, Representative(e, p))
        /\ Representative(e, q) \in Ends(e) /\ Near(e, q, Representative(e, q))
    BY RepresentativeIsNear
  <2> QED  BY <1>3, <1>4, <2>1, <2>2
<1> QED  BY <1>5, <1>6

\* A node is within the tolerance and half a micron of the ends it is made of.
LEMMA NodeIsClose ==
    ASSUME NEW e, FrameExchange(e), e.unit \in DOMAIN UnitScale, NEW p \in Ends(e)
    PROVE  /\ NodeAt(e, p) \in Int \X Int
           /\ \A axis \in 1..2 : 2 * Abs(LocalGrid * NodeAt(e, p)[axis] - p[axis]) <= 2 * Tolerance(e) + LocalGrid
<1> DEFINE q == Representative(e, p)
<1>1. Ends(e) \subseteq Int \X Int \X Int /\ Tolerance(e) \in Nat
  BY EndsArePoints
<1>2. q \in Ends(e) /\ Near(e, p, q)
  BY RepresentativeIsNear
<1>3. p[1] \in Int /\ p[2] \in Int /\ q[1] \in Int /\ q[2] \in Int
  BY <1>1, <1>2
<1>4. NodeAt(e, p) = <<Quantized(q[1]), Quantized(q[2])>>
  BY DEF NodeAt
<1> HIDE DEF q
<1>5. \A axis \in 1..2 : /\ Quantized(q[axis]) \in Int
                         /\ LocalGrid * Quantized(q[axis]) - q[axis] \in -2..2
                         /\ Abs(p[axis] - q[axis]) <= Tolerance(e)
  BY <1>2, <1>3, QuantizedIsClose DEF Near
<1>6. ASSUME NEW axis \in 1..2
      PROVE  2 * Abs(LocalGrid * NodeAt(e, p)[axis] - p[axis]) <= 2 * Tolerance(e) + LocalGrid
  <2>1. NodeAt(e, p)[axis] = Quantized(q[axis]) /\ p[axis] \in Int /\ q[axis] \in Int
    BY <1>3, <1>4
  <2> QED  BY <1>1, <1>5, <2>1 DEF Abs, LocalGrid
<1> QED  BY <1>4, <1>5, <1>6

\* What is adapted from an exchange is a contract, and its nodes are those of the ends.
LEMMA AdaptedIsFrame ==
    ASSUME NEW e, FrameExchange(e), e.unit \in DOMAIN UnitScale
    PROVE  FrameContract(AdaptedContract(e))
<1>1. \A p \in Ends(e) : NodeAt(e, p) \in Int \X Int
  BY NodeIsClose
<1>2. /\ DOMAIN AdaptedContract(e).members = DOMAIN e.members
      /\ DOMAIN AdaptedContract(e).supports = DOMAIN e.supports
      /\ DOMAIN AdaptedContract(e).loads = DOMAIN e.loads
      /\ AdaptedContract(e).nodes = [n \in {NodeAt(e, p) : p \in Ends(e)} |-> n]
  BY DEF AdaptedContract
<1>3. \A n \in {NodeAt(e, p) : p \in Ends(e)} : n \in Int \X Int
  BY <1>1
<1>4. \A S \in {DOMAIN e.members, DOMAIN e.supports, DOMAIN e.loads} : IsFiniteSet(S)
  BY DEF FrameExchange
<1> QED  BY <1>2, <1>3, <1>4 DEF FrameContract

\* Every member is adapted, between the nodes of its two ends.
LEMMA AdaptedMembers ==
    ASSUME NEW e, NEW m \in DOMAIN e.members, NEW k \in 1..2
    PROVE  LET p == Local(e, e.members[m].points[k])
           IN  p \in Ends(e) /\ PointsOf(AdaptedContract(e), "member", m)[k] = NodeAt(e, p)
<1> DEFINE End(x, j) == NodeAt(e, Local(e, e.members[x].points[j]))
           c == AdaptedContract(e)
<1>1. Local(e, e.members[m].points[k]) \in Ends(e)
  BY DEF Ends
<1>2. Local(e, e.members[m].points[1]) \in Ends(e) /\ Local(e, e.members[m].points[2]) \in Ends(e)
  BY DEF Ends
<1>3. c.nodes = [n \in {NodeAt(e, p) : p \in Ends(e)} |-> n]
  BY DEF AdaptedContract
<1>4. c.members[m].from = End(m, 1) /\ c.members[m].to = End(m, 2)
  BY DEF AdaptedContract
<1>5. PointsOf(c, "member", m) = <<c.nodes[c.members[m].from], c.nodes[c.members[m].to]>>
  BY DEF PointsOf
<1> HIDE DEF c
<1>6. c.nodes[End(m, 1)] = End(m, 1) /\ c.nodes[End(m, 2)] = End(m, 2)
  BY <1>2, <1>3
<1> QED  BY <1>1, <1>4, <1>5, <1>6 DEF c

\* What a round trip releases is the drawing of what it adapted, and that passed.
LEMMA ReleasedDrawing ==
    ASSUME NEW e, NEW hash, NEW d \in RoundTrip(e, hash)
    PROVE  LET c == AdaptedContract(e)
           IN  /\ e.unit \in DOMAIN UnitScale /\ ~Ambiguous(e) /\ ~Collides(e)
               /\ DOMAIN e.members \cup DOMAIN e.supports \cup DOMAIN e.loads \subseteq DOMAIN e.sources
               /\ d = DrawnFrame(c, hash)
               /\ FrameStatus(c, {}, hash) = "ready"
               /\ VerifyFrame(c, d, hash).status = "passed"
               /\ c.source = {[exchange |-> e.id, document |-> e.document, objects |-> e.sources]}
<1> DEFINE c == AdaptedContract(e)
<1>1. PolicyMet(e) /\ AdapterStatus(e, hash) = "ready" /\ d \in Released(e, c, hash)
  BY DEF RoundTrip
<1>2. e.unit \in DOMAIN UnitScale /\ ~Rejected(e) /\ FrameStatus(c, {}, hash) = "ready"
  BY <1>1 DEF AdapterStatus
<1>3. ~Ambiguous(e) /\ ~Collides(e)
  BY <1>2 DEF Rejected
<1>4. d \in CadAssurance(c, {}, hash) /\ Bundled(e, c, d, hash)
  BY <1>1 DEF Released
<1>5. d = DrawnFrame(c, hash) /\ VerifyFrame(c, d, hash).status = "passed"
  <2> HIDE DEF c
  <2> QED  BY <1>4, <1>2 DEF CadAssurance
<1>6. c.source = Provenance(e) /\ c.source # {}
  BY <1>4 DEF Bundled
<1>7. c.source = {[exchange |-> e.id, document |-> e.document, objects |-> e.sources]}
  <2> HIDE DEF c
  <2> QED  BY <1>6 DEF Provenance
<1>8. DOMAIN e.members \cup DOMAIN e.supports \cup DOMAIN e.loads \subseteq DOMAIN e.sources
  BY SMTT(30), <1>1 DEF PolicyMet
<1> QED  BY <1>2, <1>3, <1>5, <1>7, <1>8

\* What a round trip releases keeps the members, their sources, their ends, and which
\* of these meet.
LEMMA ReleasedKeepsGeometry ==
    ASSUME NEW e, FrameExchange(e), NEW hash, NEW d \in RoundTrip(e, hash)
    PROVE  KeepsGeometry(e, d)
<1> DEFINE c == AdaptedContract(e)
           At(m, k) == Local(e, e.members[m].points[k])
           Of(m) == {i \in DOMAIN d.entities : d.entities[i].type = "member" /\ d.entities[i].id = m}
           EndOf(x) == d.entities[CHOOSE i \in Of(x[1]) : TRUE].points[x[2]]
           Corners == (DOMAIN e.members) \X (1..2)
<1>1. /\ e.unit \in DOMAIN UnitScale /\ ~Ambiguous(e) /\ ~Collides(e)
      /\ DOMAIN e.members \cup DOMAIN e.supports \cup DOMAIN e.loads \subseteq DOMAIN e.sources
      /\ d = DrawnFrame(c, hash)
      /\ FrameStatus(c, {}, hash) = "ready"
      /\ VerifyFrame(c, d, hash).status = "passed"
      /\ c.source = {[exchange |-> e.id, document |-> e.document, objects |-> e.sources]}
  BY ReleasedDrawing
<1>2. FrameContract(c)
  BY <1>1, AdaptedIsFrame
<1>3. /\ DOMAIN c.members = DOMAIN e.members /\ DOMAIN c.supports = DOMAIN e.supports
      /\ DOMAIN c.loads = DOMAIN e.loads
  BY DEF AdaptedContract
<1>4. \A m \in DOMAIN e.members, k \in 1..2 :
        At(m, k) \in Ends(e) /\ PointsOf(c, "member", m)[k] = NodeAt(e, At(m, k))
  BY AdaptedMembers
<1> HIDE DEF c, At
<1>5. FrameConforms(c, hash, d)
  <2>1. Traced(d, DrawnFrame(c, hash))
    BY <1>1, <1>2, FrameIsDrawing, TracedSelf
  <2> QED  BY <1>1, <1>2, <2>1, PassedFrameConforms
<1>6. /\ d.entities \in Seq({FrameEntity(c, hash, item[1], item[2]) : item \in FrameItems(c)})
      /\ DOMAIN d.entities \subseteq Nat
  BY <1>1, <1>2, FrameEntities, LenProperties
<1>7. ASSUME NEW i \in DOMAIN d.entities
      PROVE  \E item \in FrameItems(c) : d.entities[i] = FrameEntity(c, hash, item[1], item[2])
  BY <1>6, LenProperties, ElementOfSeq
\* Every member is there once.
<1>8. ASSUME NEW m \in DOMAIN e.members PROVE \E i \in DOMAIN d.entities : Of(m) = {i}
  <2>1. <<"member", m>> \in FrameItems(c)
    <3>1. "member" \in DOMAIN LayerOf /\ m \in ListedFrame(c, "member")
      BY <1>3 DEF LayerOf, ListedFrame
    <3> QED  BY <3>1 DEF FrameItems
  <2>2. PICK i \in DOMAIN d.entities : Shows(c, hash, d.entities[i], <<"member", m>>)
    BY <1>5, <2>1 DEF FrameConforms
  <2>3. d.entities[i].type = "member" /\ d.entities[i].id = m
    BY <2>2 DEF Shows
  <2>4. ASSUME NEW j \in DOMAIN d.entities, d.entities[j].type = "member", d.entities[j].id = m
        PROVE  j = i
    <3>1. d.entities[j].type = d.entities[i].type /\ d.entities[j].id = d.entities[i].id
      BY <2>3, <2>4
    <3>2. d.entities[i].type # "metadata"
      BY <2>3
    <3>3. DOMAIN d.entities \subseteq Nat
      BY <1>6
    <3>4. i # j => <<d.entities[i].type, d.entities[i].id>> # <<d.entities[j].type, d.entities[j].id>>
      BY <1>1, <3>2, <3>3, NoTwins
    <3> QED  BY <3>1, <3>4
  <2> QED  BY <2>3, <2>4
<1>9. ASSUME NEW m \in DOMAIN e.members PROVE Cardinality(Of(m)) = 1
  <2> HIDE DEF Of
  <2> QED  BY <1>8, FS_Singleton
<1>10. ASSUME NEW x \in Corners PROVE EndOf(x) = NodeAt(e, At(x[1], x[2])) /\ At(x[1], x[2]) \in Ends(e)
  <2>1. x[1] \in DOMAIN e.members /\ x[2] \in 1..2
    OBVIOUS
  <2>2. PICK i \in DOMAIN d.entities : Of(x[1]) = {i}
    BY <1>8, <2>1
  <2>3. EndOf(x) = d.entities[i].points[x[2]] /\ d.entities[i].type = "member" /\ d.entities[i].id = x[1]
    BY <2>2
  <2>4. PICK item \in FrameItems(c) : d.entities[i] = FrameEntity(c, hash, item[1], item[2])
    BY <1>7
  <2>5. d.entities[i].points = PointsOf(c, "member", x[1])
    <3>1. LET f == FrameEntity(c, hash, item[1], item[2])
          IN  f.type = item[1] /\ f.id = item[2] /\ f.points = PointsOf(c, item[1], item[2])
      BY DEF FrameEntity
    <3>2. item[1] = "member" /\ item[2] = x[1]
      BY <2>3, <2>4, <3>1
    <3> QED  BY <2>4, <3>1, <3>2
  <2> HIDE DEF EndOf
  <2> QED  BY <1>4, <2>1, <2>3, <2>5
<1>11. ASSUME NEW i \in DOMAIN d.entities, d.entities[i].type # "metadata"
       PROVE  \E s \in d.entities[i].refs[2] : s.document = e.document /\ s.object = {e.sources[d.entities[i].id]}
  <2>1. PICK item \in FrameItems(c) : d.entities[i] = FrameEntity(c, hash, item[1], item[2])
    BY <1>7
  <2>2. d.entities[i].refs[2] = Source(c, item[2]) /\ d.entities[i].type = item[1] /\ d.entities[i].id = item[2]
    BY <2>1 DEF FrameEntity
  <2>3. item[2] \in DOMAIN e.sources
    <3>1. item[1] \in DOMAIN LayerOf /\ item[2] \in ListedFrame(c, item[1])
      BY DEF FrameItems
    <3> QED  BY <1>1, <1>3, <1>11, <2>2, <3>1 DEF ListedFrame, LayerOf
  <2> DEFINE s == [exchange |-> e.id, document |-> e.document,
                   object |-> IF item[2] \in DOMAIN e.sources THEN {e.sources[item[2]]} ELSE {}]
  <2>4. s \in Source(c, item[2])
    <3> DEFINE t == [exchange |-> e.id, document |-> e.document, objects |-> e.sources]
    <3>1. t \in c.source
      BY <1>1
    <3>2. t.exchange = e.id /\ t.document = e.document /\ t.objects = e.sources
      OBVIOUS
    <3>3. s = [exchange |-> t.exchange, document |-> t.document,
               object |-> IF item[2] \in DOMAIN t.objects THEN {t.objects[item[2]]} ELSE {}]
      BY <3>2
    <3> HIDE DEF s, t
    <3> QED  BY <3>1, <3>3 DEF Source
  <2>5. s.document = e.document /\ s.object = {e.sources[item[2]]}
    BY <2>3
  <2> HIDE DEF s
  <2> QED  BY <2>2, <2>4, <2>5
<1>12. ASSUME NEW x \in Corners, NEW axis \in 1..2
       PROVE  2 * Abs(LocalGrid * EndOf(x)[axis] - At(x[1], x[2])[axis]) <= 2 * Tolerance(e) + LocalGrid
  <2> HIDE DEF EndOf, Corners
  <2> QED  BY <1>1, <1>10, NodeIsClose
<1>13. ASSUME NEW x \in Corners, NEW y \in Corners
       PROVE  (EndOf(x) = EndOf(y))
                <=> \A axis \in 1..2 : Abs(At(x[1], x[2])[axis] - At(y[1], y[2])[axis]) <= Tolerance(e)
  <2>1. NodeAt(e, At(x[1], x[2])) = NodeAt(e, At(y[1], y[2])) <=> Near(e, At(x[1], x[2]), At(y[1], y[2]))
    <3> HIDE DEF Corners, EndOf
    <3> QED  BY <1>1, <1>10, NodesAreClusters
  <2> HIDE DEF EndOf, Corners
  <2> QED  BY <1>10, <2>1 DEF Near
<1> QED  BY Zenon, <1>9, <1>11, <1>12, <1>13 DEF KeepsGeometry, At
-----------------------------------------------------------------------------
(* Plates *)

\* A box is its two corners.
LEMMA BoxIsPoints ==
    ASSUME NEW b \in Boxes
    PROVE  b \in Seq(Int \X Int) /\ b # <<>> /\ Len(b) = 2 /\ DOMAIN b = 1..2
<1>1. b \in Seq(Int \X Int) /\ Len(b) = 2
  BY SequenceOfFunction, Zenon DEF Boxes
<1>2. b # <<>>
  BY <1>1, EmptySeq
<1> QED  BY <1>1, <1>2, LenProperties

\* The features of a plate and their copies are finitely many boxes.
LEMMA ShapesOfPlate ==
    ASSUME NEW c, PlateContract(c), Expandable(c)
    PROVE  /\ IsFiniteSet(DOMAIN c.features) /\ IsFiniteSet(CopyIds(c))
           /\ \A f \in DOMAIN c.features :
                c.features[f].box \in Boxes /\ c.features[f].form \in {"circle", "closed"}
           /\ \A id \in CopyIds(c) : CopyOf(c, id).box \in Boxes /\ CopyOf(c, id).form \in {"circle", "closed"}
<1> DEFINE Row(p) == {<<p, k>> : k \in 2..c.patterns[p].count}
           rows == [p \in DOMAIN c.patterns |-> Row(p)]
           ids == [copy \in Copies(c) |-> CopyId(copy)]
<1>1. IsFiniteSet(DOMAIN c.features) /\ IsFiniteSet(DOMAIN c.patterns)
  BY DEF PlateContract
<1>2. ASSUME NEW p \in DOMAIN c.patterns PROVE IsFiniteSet(Row(p))
  <2> DEFINE r == [k \in 2..c.patterns[p].count |-> <<p, k>>]
  <2>1. DOMAIN r = 2..c.patterns[p].count /\ Row(p) = {r[k] : k \in DOMAIN r}
    OBVIOUS
  <2>2. c.patterns[p].count \in Nat
    BY DEF PlateContract
  <2> HIDE DEF r, Row
  <2>3. IsFiniteSet(DOMAIN r)
    BY <2>1, <2>2, FS_Interval
  <2> QED  BY <2>1, <2>3, FiniteImage
<1>3. IsFiniteSet(Copies(c))
  <2>1. DOMAIN rows = DOMAIN c.patterns /\ {Row(p) : p \in DOMAIN c.patterns} = {rows[p] : p \in DOMAIN rows}
    OBVIOUS
  <2>2. Copies(c) = UNION {Row(p) : p \in DOMAIN c.patterns}
    BY DEF Copies
  <2> HIDE DEF rows, Row
  <2>3. IsFiniteSet({Row(p) : p \in DOMAIN c.patterns})
    BY <1>1, <2>1, FiniteImage
  <2> QED  BY <1>2, <2>2, <2>3, FS_UNION
<1>4. IsFiniteSet(CopyIds(c))
  <2>1. DOMAIN ids = Copies(c) /\ CopyIds(c) = {ids[copy] : copy \in DOMAIN ids}
    BY DEF CopyIds
  <2> HIDE DEF ids
  <2> QED  BY <1>3, <2>1, FiniteImage
<1>5. \A f \in DOMAIN c.features : c.features[f].form \in {"circle", "closed"} /\ c.features[f].box \in Boxes
  BY DEF PlateContract
<1>6. ASSUME NEW id \in CopyIds(c)
      PROVE  CopyOf(c, id).box \in Boxes /\ CopyOf(c, id).form \in {"circle", "closed"}
  <2> DEFINE copy == CHOOSE x \in Copies(c) : CopyId(x) = id
  <2>1. copy \in Copies(c)
    BY DEF CopyIds
  <2> HIDE DEF copy
  <2>2. PICK p \in DOMAIN c.patterns : copy \in Row(p)
    BY <2>1 DEF Copies
  <2>3. PICK k \in 2..c.patterns[p].count : copy = <<p, k>>
    BY <2>2
  <2> DEFINE s == c.features[c.patterns[p].source]
             by == <<(k - 1) * c.patterns[p].spacing, 0>>
  <2>4. c.patterns[p].source \in DOMAIN c.features /\ s.form \in {"circle", "closed"} /\ s.box \in Boxes
    BY <1>5 DEF Expandable
  <2>5. CopyOf(c, id).form = s.form /\ CopyOf(c, id).box = Shifted(s.box, by)
    <3>1. copy[1] = p /\ copy[2] = k
      BY <2>3
    <3> QED  BY <3>1 DEF CopyOf, copy
  <2>6. c.patterns[p].count \in Nat /\ c.patterns[p].spacing \in Int
    BY DEF PlateContract, Numbers
  <2>7. by \in Int \X Int
    BY <2>6
  <2> HIDE DEF by
  <2>8. Shifted(s.box, by) \in Boxes
    <3>1. s.box \in [1..2 -> Int \X Int]
      BY <2>4 DEF Boxes
    <3>2. \A j \in 1..2 : s.box[j] \in Int \X Int
      BY <3>1
    <3> HIDE DEF s
    <3>3. \A j \in 1..2 : <<s.box[j][1] + by[1], s.box[j][2] + by[2]>> \in Int \X Int
      <4>1. by[1] \in Int /\ by[2] \in Int
        BY <2>7
      <4>2. \A j \in 1..2 : s.box[j][1] \in Int /\ s.box[j][2] \in Int
        BY <3>2
      <4> QED  BY <4>1, <4>2
    <3>4. DOMAIN s.box = 1..2
      BY <3>1
    <3> QED  BY <3>3, <3>4 DEF Shifted, Boxes
  <2> HIDE DEF s
  <2> QED  BY <2>4, <2>5, <2>8
<1> QED  BY <1>1, <1>4, <1>5, <1>6

\* What is drawn of a plate: the outline, the features and the copies.
OutlineOf(c, hash) == PlateEntity("OUTLINE", "closed", c.outlineId, c.outline, hash)
FeatureOf(c, f, hash) == PlateEntity("CUT", c.features[f].form, f, c.features[f].box, hash)
CopiedAs(c, id, hash) == PlateEntity("CUT", CopyOf(c, id).form, id, CopyOf(c, id).box, hash)
FeaturesDrawn(c, hash) == {FeatureOf(c, f, hash) : f \in DOMAIN c.features}
CopiesDrawn(c, hash) == {CopiedAs(c, id, hash) : id \in CopyIds(c)}

LEMMA PlateIsDrawing ==
    ASSUME NEW c, NEW hash
    PROVE  /\ DrawnPlate(c, hash).entities
                = <<OutlineOf(c, hash)>> \o InOrder(FeaturesDrawn(c, hash)) \o InOrder(CopiesDrawn(c, hash))
           /\ DrawnPlate(c, hash).beside = FALSE /\ DrawnPlate(c, hash).layers = PlateLayers
           /\ DrawnPlate(c, hash).release = "R2013" /\ DrawnPlate(c, hash).unit = "mm"
           /\ DOMAIN DrawnPlate(c, hash) = {"release", "unit", "layers", "entities", "record", "beside"}
<1> DEFINE S == {FeatureOf(c, f, hash) : f \in DOMAIN c.features}
           T == {CopiedAs(c, id, hash) : id \in CopyIds(c)}
           q == <<OutlineOf(c, hash)>> \o InOrder(S) \o InOrder(T)
<1>1. DrawnPlate(c, hash) = Drawing(PlateLayers, q)
  BY Zenon DEF DrawnPlate, OutlineOf, FeatureOf, CopiedAs
<1> HIDE DEF q
<1>2. /\ Drawing(PlateLayers, q).entities = q /\ Drawing(PlateLayers, q).beside = FALSE
      /\ Drawing(PlateLayers, q).layers = PlateLayers /\ Drawing(PlateLayers, q).release = "R2013"
      /\ Drawing(PlateLayers, q).unit = "mm"
      /\ DOMAIN Drawing(PlateLayers, q) = {"release", "unit", "layers", "entities", "record", "beside"}
  BY DEF Drawing
<1>3. S = FeaturesDrawn(c, hash) /\ T = CopiesDrawn(c, hash)
  BY DEF FeaturesDrawn, CopiesDrawn
<1> HIDE DEF S, T
<1>4. q = <<OutlineOf(c, hash)>> \o InOrder(FeaturesDrawn(c, hash)) \o InOrder(CopiesDrawn(c, hash))
  BY <1>3 DEF q
<1> QED  BY <1>1, <1>2, <1>4

LEMMA PlateEntities ==
    ASSUME NEW c, PlateContract(c), Expandable(c), NEW hash
    PROVE  /\ IsDrawing(DrawnPlate(c, hash))
           /\ \A j \in DOMAIN DrawnPlate(c, hash).entities :
                LET b == DrawnPlate(c, hash).entities[j]
                IN b.form \in {"circle", "closed"} /\ b.hash = hash /\ Len(b.points) = 2
<1> DEFINE S == {FeatureOf(c, f, hash) : f \in DOMAIN c.features}
           T == {CopiedAs(c, id, hash) : id \in CopyIds(c)}
           o == OutlineOf(c, hash)
           U == {o} \cup S \cup T
           Good(b) == IsEntity(b) /\ b.form \in {"circle", "closed"} /\ b.hash = hash /\ Len(b.points) = 2
           qs == [f \in DOMAIN c.features |-> FeatureOf(c, f, hash)]
           qt == [id \in CopyIds(c) |-> CopiedAs(c, id, hash)]
           d == DrawnPlate(c, hash)
<1>1. InOrder(S) \in Seq(S) /\ InOrder(T) \in Seq(T)
  <2>1. /\ DOMAIN qs = DOMAIN c.features /\ S = {qs[f] : f \in DOMAIN qs}
        /\ DOMAIN qt = CopyIds(c) /\ T = {qt[id] : id \in DOMAIN qt}
    OBVIOUS
  <2> HIDE DEF qs, qt, S, T
  <2>2. IsFiniteSet(S) /\ IsFiniteSet(T)
    BY <2>1, ShapesOfPlate, FiniteImage
  <2> QED  BY <2>2, InOrderLists DEF Lists
<1>2. ASSUME NEW layer, NEW id, NEW b \in Boxes, NEW form \in {"circle", "closed"}
      PROVE  Good(PlateEntity(layer, form, id, b, hash))
  <2>1. b \in Seq(Int \X Int) /\ b # <<>> /\ Len(b) = 2
    BY BoxIsPoints
  <2> QED  BY <2>1 DEF PlateEntity, IsEntity
<1> HIDE DEF Good
<1>3. Good(o)
  <2>1. c.outline \in Boxes
    BY DEF PlateContract
  <2> QED  BY <1>2, <2>1 DEF OutlineOf
<1>4. \A b \in S : Good(b)
  BY <1>2, ShapesOfPlate DEF FeatureOf
<1>5. \A b \in T : Good(b)
  BY <1>2, ShapesOfPlate DEF CopiedAs
<1>6. /\ d.entities = <<o>> \o InOrder(S) \o InOrder(T) /\ d.beside = FALSE
      /\ DOMAIN d = {"release", "unit", "layers", "entities", "record", "beside"}
  <2>1. S = FeaturesDrawn(c, hash) /\ T = CopiesDrawn(c, hash)
    BY DEF FeaturesDrawn, CopiesDrawn
  <2> HIDE DEF S, T
  <2> QED  BY <2>1, PlateIsDrawing
<1>7. \A b \in U : Good(b)
  BY <1>3, <1>4, <1>5
<1> HIDE DEF S, T, o, d
<1>8. d.entities \in Seq(U)
  <2>1. <<o>> \in Seq(U) /\ InOrder(S) \in Seq(U) /\ InOrder(T) \in Seq(U)
    BY <1>1, SeqMonotonic
  <2> HIDE DEF U
  <2>2. <<o>> \o InOrder(S) \in Seq(U)
    BY <2>1, ConcatProperties
  <2> QED  BY <1>6, <2>1, <2>2, ConcatProperties
<1> HIDE DEF U
<1>9. \A j \in DOMAIN d.entities : Good(d.entities[j])
  BY <1>7, <1>8, LenProperties, ElementOfSeq
<1>10. IsDrawing(d)
  BY <1>6, <1>7, <1>8 DEF IsDrawing, Good
<1> QED  BY <1>9, <1>10 DEF Good, d

\* What is read of a plate drawing in which no entity is at fault: every one on the cut
\* layers, under an id of its own.
LEMMA PlateRead ==
    ASSUME NEW c, PlateContract(c), Expandable(c), NEW h0, NEW hash, NEW d, Traced(d, DrawnPlate(c, h0)),
           ReadingViolations(d, hash) = {}
    PROVE  /\ DOMAIN d.entities \subseteq Nat /\ IsFiniteSet(DOMAIN d.entities)
           /\ \A i \in CutEntities(d) :
                LET e == d.entities[i]
                IN /\ e.labelled /\ e.hash = hash /\ e.hash = h0 /\ e.form \in {"circle", "closed"}
                   /\ e.points \in Seq(Int \X Int) /\ e.points # <<>> /\ Len(e.points) = 2 /\ DOMAIN e.points = 1..2
                   /\ e.id \in DOMAIN ReadBack(d) /\ ReadBack(d)[e.id] = e.points
           /\ \A i, j \in CutEntities(d) : d.entities[i].id = d.entities[j].id => i = j
           /\ \A id \in DOMAIN ReadBack(d) : \E i \in CutEntities(d) : d.entities[i].id = id
<1> DEFINE Cut == CutEntities(d)
           On(i) == d.entities[i]
           d0 == DrawnPlate(c, h0)
<1>1. PICK S : d.entities \in Seq(S) /\ \A e \in S : TracedEntity(e, d0)
  BY DEF Traced
<1>2. Len(d.entities) \in Nat /\ DOMAIN d.entities = 1..Len(d.entities) /\ \A i \in DOMAIN d.entities : TracedEntity(On(i), d0)
  BY <1>1, LenProperties, ElementOfSeq
<1>3. DOMAIN d.entities \subseteq Nat /\ IsFiniteSet(DOMAIN d.entities) /\ Cut \subseteq DOMAIN d.entities
  <2>1. Cut \subseteq DOMAIN d.entities
    BY DEF CutEntities
  <2>2. DOMAIN d.entities = 1..Len(d.entities) /\ Len(d.entities) \in Nat
    BY <1>2
  <2> HIDE DEF Cut
  <2> QED  BY <2>1, <2>2, FS_Interval
<1>4. ASSUME NEW i \in Cut
      PROVE  /\ IsEntity(On(i)) /\ On(i).form \in {"circle", "closed"} \cup Reforms /\ Len(On(i).points) = 2
             /\ On(i).hash = h0
  <2>1. TracedEntity(On(i), d0)
    BY <1>2, <1>3
  <2>2. \A j \in DOMAIN d0.entities :
          /\ d0.entities[j].form \in {"circle", "closed"} /\ Len(d0.entities[j].points) = 2
          /\ d0.entities[j].hash = h0
    BY PlateEntities
  <2> HIDE DEF d0, Cut
  <2> QED  BY <2>1, <2>2 DEF TracedEntity
<1>5. ASSUME NEW i \in Cut
      PROVE  /\ On(i).form # "spline" /\ On(i).labelled /\ On(i).hash = hash
             /\ ~\E j \in Kept(d) : j < i /\ On(j).id = On(i).id
             /\ On(i).form \notin {"open", "crossed"}
  <2>1. EntityViolations(d, hash, i) = {}
    BY DEF ReadingViolations
  <2>2. On(i).form # "spline"
    BY <2>1 DEF EntityViolations
  <2>3. On(i).labelled
    BY <2>1, <2>2 DEF EntityViolations
  <2> DEFINE Repeated == \E j \in Kept(d) : j < i /\ On(j).id = On(i).id
             Codes == (IF On(i).hash # hash THEN {"HASH_MISMATCH"} ELSE {})
                        \cup (IF Repeated THEN {"ID_DUPLICATE"}
                              ELSE IF On(i).form = "open" THEN {"POLYLINE_OPEN"}
                              ELSE IF On(i).form = "crossed" THEN {"GEOMETRY_INVALID"} ELSE {})
  <2>4. EntityViolations(d, hash, i) = {Violation(code, {On(i).id}, 0, FALSE) : code \in Codes}
    BY <2>2, <2>3 DEF EntityViolations
  <2>5. Codes = {}
    <3> HIDE DEF Codes
    <3> QED  BY <2>1, <2>4
  <2>6. ~Repeated
    BY <2>5
  <2>7. On(i).hash = hash /\ On(i).form \notin {"open", "crossed"}
    BY <2>5, <2>6
  <2> QED  BY <2>2, <2>3, <2>6, <2>7
<1>6. \A i \in Cut : On(i).form \in {"circle", "closed"} /\ On(i).labelled
  BY <1>4, <1>5 DEF Reforms
<1>7. \A i \in Cut : MeasurableCut(On(i))
  BY <1>6 DEF MeasurableCut, KnownCut
\* No two have one id: the first of them would have been kept, and the other one a repetition.
<1>8. ASSUME NEW i \in Cut, NEW j \in Cut, j < i, On(j).id = On(i).id PROVE FALSE
  <2> DEFINE Same == {k \in Cut : On(k).id = On(i).id}
  <2>1. Same \in SUBSET Nat /\ j \in Same
    BY <1>3, <1>8
  <2>2. PICK k \in Same : \A m \in Same : k <= m
    <3> HIDE DEF Same
    <3> QED  BY <2>1, LeastExists
  <2>3. k \in Kept(d)
    <3>1. \A m \in Cut : m < k => On(m).id # On(k).id
      BY <1>3, <2>2
    <3> QED  BY <1>7, <2>2, <3>1 DEF Kept
  <2>4. k < i
    <3>1. k <= j /\ k \in Nat /\ j \in Nat /\ i \in Nat
      BY <1>3, <2>1, <2>2
    <3> QED  BY <1>8, <3>1
  <2> QED  BY <1>5, <2>2, <2>3, <2>4
<1>9. ASSUME NEW i \in Cut, NEW j \in Cut, On(i).id = On(j).id PROVE i = j
  <2>1. i \in Nat /\ j \in Nat
    BY <1>3
  <2> QED  BY <1>8, <1>9, <2>1
<1>10. Kept(d) = Cut
  BY <1>3, <1>7, <1>9 DEF Kept
<1>11. DOMAIN ReadBack(d) = {On(i).id : i \in Cut}
  BY <1>10 DEF ReadBack
<1>12. ASSUME NEW i \in Cut PROVE ReadBack(d)[On(i).id] = On(i).points
  <2>1. (CHOOSE k \in Kept(d) : On(k).id = On(i).id) = i
    BY <1>9, <1>10
  <2> QED  BY <1>10, <2>1 DEF ReadBack
<1>13. ASSUME NEW i \in Cut
       PROVE  /\ On(i).points \in Seq(Int \X Int) /\ On(i).points # <<>> /\ Len(On(i).points) = 2
              /\ DOMAIN On(i).points = 1..2
  BY <1>4, LenProperties DEF IsEntity
<1> HIDE DEF Cut, d0
<1> QED  BY <1>3, <1>4, <1>5, <1>6, <1>9, <1>11, <1>12, <1>13 DEF Cut

\* A violation of a contract is not removed together with what it is like.
LEMMA DeduplicatedEmpty ==
    ASSUME NEW V, \A v \in V : v.nth \in Nat, Deduplicated(V) = {}
    PROVE  V = {}
<1> SUFFICES ASSUME NEW v \in V PROVE FALSE
  OBVIOUS
<1> DEFINE Like == {w \in V : w.code = v.code /\ w.on = v.on}
           Nths == {w.nth : w \in Like}
<1>1. Nths \in SUBSET Nat /\ v.nth \in Nths
  OBVIOUS
<1>2. PICK n \in Nths : \A m \in Nths : n <= m
  <2> HIDE DEF Nths
  <2> QED  BY <1>1, LeastExists
<1>3. PICK w \in Like : w.nth = n
  BY <1>2
<1>4. w \in Deduplicated(V)
  BY <1>2, <1>3 DEF Deduplicated
<1> QED  BY <1>4

\* Every violation of a plate says where in the contract it comes from, or nowhere.
LEMMA PlateViolationsNumbered ==
    ASSUME NEW c, PlateContract(c), NEW hash, NEW d, NEW read
    PROVE  \A v \in ReadingViolations(d, hash) \cup DimensionViolations(c, read) \cup MeasuredViolations(c, read) :
             v.nth \in Nat
<1> DEFINE R == ReadingViolations(d, hash)
           D == DimensionViolations(c, read)
           M == MeasuredViolations(c, read)
<1>1. \A v \in R : v.nth \in Nat
  <2>1. \A v \in FileViolations(d, PlateLayers) : v.nth \in Nat
    BY DEF FileViolations, Violation
  <2>2. ASSUME NEW i \in CutEntities(d), NEW v \in EntityViolations(d, hash, i) PROVE v.nth \in Nat
    <3>1. \E code, on : v = Violation(code, on, 0, FALSE)
      BY Zenon DEF EntityViolations
    <3> QED  BY <3>1 DEF Violation
  <2> QED  BY <2>1, <2>2 DEF ReadingViolations
<1>2. \A v \in D : v.nth \in Nat
  <2>1. ASSUME NEW v \in D PROVE \E i \in DOMAIN c.dimensions : \E code, on, r : v = Violation(code, on, i, r)
    <3>1. PICK i \in DOMAIN c.dimensions :
            LET e == c.dimensions[i]
                Found == MeasuredPlate(c, read, e.path)
            IN v \in (IF Found = {} THEN {Violation("PATH_INVALID", {}, i, FALSE)}
                      ELSE {Violation("TOLERANCE", m.on, i, ~e.locked /\ e.path \in c.free) :
                             m \in {x \in Found : ~WithinTolerance(e, x.value)}})
      BY Zenon DEF DimensionViolations
    <3>2. \E code, on, r : v = Violation(code, on, i, r)
      BY <3>1, Zenon
    <3> QED  BY <3>2
  <2>2. \A i \in DOMAIN c.dimensions : i \in Nat
    BY DEF PlateContract
  <2> HIDE DEF D
  <2> QED  BY <2>1, <2>2 DEF Violation
<1>3. \A v \in M : v.nth \in Nat
  <2>1. ASSUME NEW v \in M
        PROVE  \E i \in {0} \cup DOMAIN c.constraints : \E code, on, r : v = Violation(code, on, i, r)
    BY Zenon DEF MeasuredViolations, EdgeViolations, LigamentViolations, MinimumViolations, DeclaredViolations
  <2>2. \A i \in DOMAIN c.constraints : i \in Nat
    BY DEF PlateContract
  <2> HIDE DEF M
  <2> QED  BY <2>1, <2>2 DEF Violation
<1> QED  BY <1>1, <1>2, <1>3

\* Of a plate that passed nothing was wrong.
LEMMA PlateFaultless ==
    ASSUME NEW c, PlateContract(c), NEW hash, NEW d, VerifyPlate(c, d, hash).status = "passed"
    PROVE  /\ ~Raises(c, ReadBack(d))
           /\ ReadingViolations(d, hash) = {} /\ DimensionViolations(c, ReadBack(d)) = {}
           /\ MeasuredViolations(c, ReadBack(d)) = {}
<1> DEFINE read == ReadBack(d)
           R == ReadingViolations(d, hash)
           D == DimensionViolations(c, read)
           M == MeasuredViolations(c, read)
           V == R \cup D \cup M
<1>1. Raises(c, read) \in BOOLEAN
  BY DEF Raises
<1>2. ~Raises(c, read) /\ Deduplicated(V) = {}
  <2>1. Answer(Raises(c, read), Deduplicated(V)).status = "passed"
    BY DEF VerifyPlate, JudgedPlate
  <2> HIDE DEF V, read
  <2> QED  BY <1>1, <2>1, PassedMeansNoViolation
<1>3. V = {}
  <2>1. \A v \in V : v.nth \in Nat
    BY PlateViolationsNumbered
  <2> HIDE DEF V
  <2> QED  BY <1>2, <2>1, DeduplicatedEmpty
<1> QED  BY <1>2, <1>3

\* What is asked of a distance is the largest that any constraint asks.
LEMMA RequiredIs ==
    ASSUME NEW c, PlateContract(c), NEW types, NEW least \in Int
    PROVE  /\ Required(c, types, least) \in Int /\ least <= Required(c, types, least)
           /\ \A i \in DOMAIN c.constraints :
                c.constraints[i].type \in types => /\ c.constraints[i].value \in Int
                                                   /\ c.constraints[i].value <= Required(c, types, least)
           /\ \/ Required(c, types, least) = least
              \/ \E i \in DOMAIN c.constraints :
                   c.constraints[i].type \in types /\ Required(c, types, least) = c.constraints[i].value
<1> DEFINE J == {j \in DOMAIN c.constraints : c.constraints[j].type \in types}
           q == [i \in J |-> c.constraints[i].value]
           T == {c.constraints[i].value : i \in J}
<1>1. \A i \in DOMAIN c.constraints : c.constraints[i].value \in Int
  BY DEF PlateContract, Numbers
<1>2. IsFiniteSet(T)
  <2>1. IsFiniteSet(DOMAIN c.constraints)
    BY DEF PlateContract
  <2>2. IsFiniteSet(J)
    BY <2>1, FS_Subset
  <2>3. DOMAIN q = J /\ T = {q[i] : i \in DOMAIN q}
    OBVIOUS
  <2> HIDE DEF J, q, T
  <2> QED  BY <2>2, <2>3, FiniteImage
<1>3. T \in SUBSET Int
  BY <1>1
<1>4. IsFiniteSet({least} \cup T)
  <2> HIDE DEF T
  <2> QED  BY <1>2, FS_AddElement
<1>5. Required(c, types, least) = Max({least} \cup T)
  BY DEF Required
<1>6. /\ Max({least} \cup T) \in {least} \cup T /\ \A y \in {least} \cup T : y <= Max({least} \cup T)
  <2> HIDE DEF T
  <2>1. {least} \cup T \in SUBSET Int /\ {least} \cup T # {}
    BY <1>3
  <2> QED  BY <1>4, <2>1, FiniteExtremes
<1>7. \A i \in DOMAIN c.constraints : c.constraints[i].type \in types => c.constraints[i].value \in T
  OBVIOUS
<1>8. \A x \in T : \E i \in DOMAIN c.constraints : c.constraints[i].type \in types /\ x = c.constraints[i].value
  OBVIOUS
<1> HIDE DEF T
<1> QED  BY <1>1, <1>3, <1>5, <1>6, <1>7, <1>8

\* Asking more types of constraints asks no less.
LEMMA RequiredMonotone ==
    ASSUME NEW c, PlateContract(c), NEW more, NEW types \in SUBSET more, NEW least \in Int, NEW base \in Int
    PROVE  /\ Required(c, types, least) \in Int
           /\ Required(c, types, least) = least \/ Required(c, types, least) <= Required(c, more, base)
<1>1. /\ Required(c, types, least) \in Int
      /\ \/ Required(c, types, least) = least
         \/ \E i \in DOMAIN c.constraints :
              c.constraints[i].type \in types /\ Required(c, types, least) = c.constraints[i].value
  BY RequiredIs
<1>2. \A i \in DOMAIN c.constraints :
        c.constraints[i].type \in more => c.constraints[i].value <= Required(c, more, base)
  BY RequiredIs
<1> QED  BY <1>1, <1>2

\* How far a shape is from the edge of the one around it is the least of four distances.
LEMMA EdgeIs ==
    ASSUME NEW p \in Seq(Int \X Int), p # <<>>, NEW o \in Seq(Int \X Int), o # <<>>,
           NEW e, e = Min({Low(p, axis) - Low(o, axis) : axis \in 1..2}
                          \cup {High(o, axis) - High(p, axis) : axis \in 1..2})
    PROVE  e \in Int /\ \A axis \in 1..2 : e <= Low(p, axis) - Low(o, axis) /\ e <= High(o, axis) - High(p, axis)
<1> DEFINE f(axis) == Low(p, axis) - Low(o, axis)
           g(axis) == High(o, axis) - High(p, axis)
           S == {f(axis) : axis \in 1..2} \cup {g(axis) : axis \in 1..2}
<1>1. f(1) \in Int /\ f(2) \in Int /\ g(1) \in Int /\ g(2) \in Int
  <2>1. \A axis \in 1..2 : /\ Low(p, axis) \in Int /\ High(p, axis) \in Int
                           /\ Low(o, axis) \in Int /\ High(o, axis) \in Int
    BY LowHigh
  <2>2. 1 \in 1..2 /\ 2 \in 1..2
    OBVIOUS
  <2>3. ASSUME NEW axis \in 1..2 PROVE f(axis) \in Int /\ g(axis) \in Int
    <3>1. \A a \in Int, b \in Int : a - b \in Int
      OBVIOUS
    <3> QED  BY <2>1, <3>1
  <2> HIDE DEF f, g
  <2> QED  BY <2>2, <2>3
<1>2. e = Min(S)
  OBVIOUS
<1> HIDE DEF f, g
<1>3. S = {f(1), f(2), g(1), g(2)}
  OBVIOUS
<1>4. \E x \in {f(1), f(2), g(1), g(2)} : \A y \in {f(1), f(2), g(1), g(2)} : x <= y
  BY <1>1
<1>5. S \in SUBSET Int
  BY <1>1, <1>3
<1>6. \E x \in S : \A y \in S : x <= y
  BY <1>3, <1>4
<1> HIDE DEF S
<1>7. Min(S) \in S /\ \A y \in S : Min(S) <= y
  BY <1>5, <1>6, MinIs
<1>8. \A axis \in 1..2 : f(axis) \in S /\ g(axis) \in S
  BY DEF S
<1> QED  BY <1>2, <1>5, <1>7, <1>8 DEF f, g

\* The least extent of a shape is no more than any.
LEMMA ExtentIs ==
    ASSUME NEW p \in Seq(Int \X Int), p # <<>>,
           NEW e, e = Min({Extent(p, axis) : axis \in 1..2})
    PROVE  e \in Int /\ \A axis \in 1..2 : Extent(p, axis) \in Int /\ e <= Extent(p, axis)
<1> DEFINE f(axis) == Extent(p, axis)
           S == {f(axis) : axis \in 1..2}
<1>1. \A axis \in 1..2 : f(axis) \in Int
  <2>1. \A axis \in 1..2 : Low(p, axis) \in Int /\ High(p, axis) \in Int
    BY LowHigh
  <2>2. \A a \in Int, b \in Int : a - b \in Int
    OBVIOUS
  <2> QED  BY <2>1, <2>2 DEF Extent
<1>2. 1 \in 1..2 /\ 2 \in 1..2
  OBVIOUS
<1>3. e = Min(S)
  OBVIOUS
<1> HIDE DEF f
<1>4. f(1) \in Int /\ f(2) \in Int /\ S = {f(1), f(2)}
  BY <1>1, <1>2
<1>5. f(1) <= f(2) \/ f(2) <= f(1)
  BY <1>4
<1>6. S \in SUBSET Int /\ \E x \in S : \A y \in S : x <= y
  <2>1. \A x \in S, y \in S : (x = f(1) \/ x = f(2)) /\ (y = f(1) \/ y = f(2))
    BY <1>4
  <2>2. f(1) \in S /\ f(2) \in S
    BY <1>4
  <2> HIDE DEF S
  <2> QED  BY <1>4, <1>5, <2>1, <2>2
<1> HIDE DEF S
<1>7. Min(S) \in S /\ \A y \in S : Min(S) <= y
  BY <1>6, MinIs
<1>8. \A axis \in 1..2 : f(axis) \in S
  BY DEF S
<1> QED  BY <1>1, <1>3, <1>6, <1>7, <1>8 DEF f

\* What is measured of a plate drawing that passed: every cut and the outline, apart.
LEMMA PlateMeasured ==
    ASSUME NEW c, PlateContract(c), Expandable(c), NEW hash, NEW d, Traced(d, DrawnPlate(c, hash)),
           VerifyPlate(c, d, hash).status = "passed"
    PROVE  LET read == ReadBack(d)
               cuts == Restrict(read, DOMAIN read \ {c.outlineId})
           IN /\ c.outlineId \in DOMAIN read
              /\ DOMAIN cuts = DOMAIN read \ {c.outlineId}
              /\ \A id \in DOMAIN cuts : cuts[id] = read[id]
              /\ EdgeViolations(c, read[c.outlineId], cuts) = {} /\ LigamentViolations(c, cuts) = {}
              /\ MinimumViolations(c, cuts) = {}
              /\ \A n \in DOMAIN c.constraints :
                   c.constraints[n].required =>
                     Violates(c.constraints[n], read[c.outlineId], read, NamedPlate(c, c.constraints[n].on, read)) = {}
<1> DEFINE read == ReadBack(d)
           cuts == Restrict(read, DOMAIN read \ {c.outlineId})
           Wrong(i) == Violates(c.constraints[i], read[c.outlineId], read, NamedPlate(c, c.constraints[i].on, read))
           Declared0 == {Violation(c.constraints[i].type, Wrong(i), i, RepairableAt(c, NamedPlate(c, c.constraints[i].on, read))) :
                           i \in {j \in DOMAIN c.constraints : c.constraints[j].required /\ Wrong(j) # {}}}
<1>1. c.outlineId \in DOMAIN read
  BY Zenon, PlateFaultless DEF MeasuredViolations
<1>2. MeasuredViolations(c, read)
        = EdgeViolations(c, read[c.outlineId], cuts) \cup LigamentViolations(c, cuts)
            \cup MinimumViolations(c, cuts) \cup Declared0
  BY <1>1, Zenon DEF MeasuredViolations, DeclaredViolations
<1>3. MeasuredViolations(c, read) = {}
  BY PlateFaultless
<1>4. /\ EdgeViolations(c, read[c.outlineId], cuts) = {} /\ LigamentViolations(c, cuts) = {}
      /\ MinimumViolations(c, cuts) = {} /\ Declared0 = {}
  <2> HIDE DEF read, cuts, Declared0
  <2> QED  BY <1>2, <1>3
<1>5. \A n \in DOMAIN c.constraints : c.constraints[n].required => Wrong(n) = {}
  <2> HIDE DEF read, cuts, Wrong
  <2> QED  BY <1>4, Zenon
<1>6. DOMAIN cuts = DOMAIN read \ {c.outlineId} /\ \A id \in DOMAIN cuts : cuts[id] = read[id]
  BY DEF Restrict
<1> QED  BY <1>1, <1>4, <1>5, <1>6, Zenon

\* A cut of a drawing that passed keeps its distance from the edge and is large enough.
LEMMA CutKeepsInside ==
    ASSUME NEW c, PlateContract(c), NEW o, NEW cuts,
           o \in Seq(Int \X Int), o # <<>>, EdgeViolations(c, o, cuts) = {}, MinimumViolations(c, cuts) = {},
           NEW id \in DOMAIN cuts, cuts[id] \in Seq(Int \X Int), cuts[id] # <<>>
    PROVE  LET asked == Required(c, {"minimum_edge_distance"}, 0)
           IN /\ \A k \in DOMAIN cuts[id], axis \in 1..2 :
                   cuts[id][k][axis] \in (Low(o, axis) + asked - Epsilon) .. (High(o, axis) - asked + Epsilon)
              /\ \A axis \in 1..2 : Extent(cuts[id], axis) >= c.minFeature - Epsilon
<1> DEFINE p == cuts[id]
           all == Required(c, {"features_inside_outline", "minimum_edge_distance"}, 0)
           asked == Required(c, {"minimum_edge_distance"}, 0)
           edge == Min({Low(p, axis) - Low(o, axis) : axis \in 1..2}
                       \cup {High(o, axis) - High(p, axis) : axis \in 1..2})
           least == Min({Extent(p, axis) : axis \in 1..2})
<1>1. ~(edge < 0 \/ edge + Epsilon < all)
  <2> DEFINE Edge(x) == Min({Low(cuts[x], axis) - Low(o, axis) : axis \in 1..2}
                            \cup {High(o, axis) - High(cuts[x], axis) : axis \in 1..2})
  <2>1. {x \in DOMAIN cuts : Edge(x) < 0 \/ Edge(x) + Epsilon < all} = {}
    <3> DEFINE Faulty == {x \in DOMAIN cuts : Edge(x) < 0 \/ Edge(x) + Epsilon < all}
    <3>1. EdgeViolations(c, o, cuts) =
            {Violation(IF Edge(x) < 0 THEN "OUTSIDE" ELSE "EDGE_DISTANCE", {x, c.outlineId}, 0, RepairableAt(c, {x})) :
               x \in Faulty}
      BY DEF EdgeViolations
    <3> HIDE DEF Faulty, Edge
    <3> QED  BY <3>1 DEF Faulty
  <2>2. edge = Edge(id)
    OBVIOUS
  <2> HIDE DEF edge, Edge, all
  <2> QED  BY <2>1, <2>2
<1>2. ~(least + Epsilon < c.minFeature)
  BY Zenon DEF MinimumViolations
<1>3. edge \in Int /\ \A axis \in 1..2 : edge <= Low(p, axis) - Low(o, axis) /\ edge <= High(o, axis) - High(p, axis)
  BY EdgeIs
<1>4. least \in Int /\ \A axis \in 1..2 : Extent(p, axis) \in Int /\ least <= Extent(p, axis)
  BY ExtentIs
<1>5. asked \in Int /\ all \in Int /\ asked <= all
  <2>1. all \in Int /\ 0 <= all
    BY RequiredIs
  <2>2. asked \in Int /\ (asked = 0 \/ asked <= all)
    <3> DEFINE one == {"minimum_edge_distance"}
               two == {"features_inside_outline", "minimum_edge_distance"}
    <3>1. one \in SUBSET two
      OBVIOUS
    <3> HIDE DEF one, two
    <3>2. Required(c, one, 0) \in Int /\ (Required(c, one, 0) = 0 \/ Required(c, one, 0) <= Required(c, two, 0))
      BY <3>1, RequiredMonotone
    <3> QED  BY <3>2 DEF one, two
  <2> HIDE DEF asked, all
  <2> QED  BY <2>1, <2>2
<1>6. c.minFeature \in Int
  BY DEF PlateContract, Numbers
<1>7. \A axis \in 1..2 : /\ Low(p, axis) \in Int /\ High(p, axis) \in Int
                         /\ Low(o, axis) \in Int /\ High(o, axis) \in Int
                         /\ \A k \in DOMAIN p : p[k][axis] \in Int /\ Low(p, axis) <= p[k][axis] /\ p[k][axis] <= High(p, axis)
  BY LowHigh
<1> HIDE DEF p, all, asked, edge, least
<1>8. ASSUME NEW k \in DOMAIN p, NEW axis \in 1..2
      PROVE  p[k][axis] \in (Low(o, axis) + asked - Epsilon) .. (High(o, axis) - asked + Epsilon)
  <2> DEFINE x == p[k][axis]
             lowP == Low(p, axis)
             highP == High(p, axis)
             lowO == Low(o, axis)
             highO == High(o, axis)
  <2>1. /\ x \in Int /\ lowP \in Int /\ highP \in Int /\ lowO \in Int /\ highO \in Int
        /\ lowP <= x /\ x <= highP
    BY <1>7
  <2>2. edge <= lowP - lowO /\ edge <= highO - highP
    BY <1>3
  <2>3. edge + 1 >= asked
    BY <1>1, <1>3, <1>5 DEF Epsilon
  <2> HIDE DEF x, lowP, highP, lowO, highO
  <2>4. lowO + asked - 1 <= x /\ x <= highO - asked + 1
    BY <1>3, <1>5, <2>1, <2>2, <2>3
  <2>5. x \in (lowO + asked - 1) .. (highO - asked + 1)
    BY <1>5, <2>1, <2>4
  <2> QED  BY <2>5 DEF x, lowO, highO, Epsilon
<1>9. ASSUME NEW axis \in 1..2 PROVE Extent(p, axis) >= c.minFeature - Epsilon
  <2> DEFINE extent == Extent(p, axis)
             feature == c.minFeature
  <2>1. extent \in Int /\ least \in Int /\ least <= extent /\ feature \in Int
    BY <1>4, <1>6
  <2>2. ~(least + 1 < feature)
    BY <1>2 DEF Epsilon
  <2> HIDE DEF extent, feature
  <2>3. extent >= feature - 1
    BY <2>1, <2>2
  <2> QED  BY <2>3 DEF extent, feature, Epsilon
<1> QED  BY <1>8, <1>9 DEF p, asked

\* Two cuts of a drawing that passed leave material between them.
LEMMA CutsKeepApart ==
    ASSUME NEW c, PlateContract(c), NEW cuts, LigamentViolations(c, cuts) = {},
           NEW id \in DOMAIN cuts, cuts[id] \in Seq(Int \X Int), cuts[id] # <<>>,
           NEW other \in DOMAIN cuts, cuts[other] \in Seq(Int \X Int), cuts[other] # <<>>, id # other
    PROVE  ~CloserThan(cuts[id], cuts[other],
                       Max({1, c.minLigament - Epsilon, Required(c, {"minimum_ligament"}, 0) - Epsilon}))
<1> DEFINE p == cuts[id]
           q == cuts[other]
           gap == Gap(p, q)
           all == Required(c, {"non_overlap", "minimum_ligament"}, c.minLigament)
           asked == Required(c, {"minimum_ligament"}, 0)
           least == Max({1, c.minLigament - Epsilon, asked - Epsilon})
<1>1. ~(gap <= 0 \/ gap + Epsilon < all)
  <2> DEFINE pair == <<id, other>>
  <2>1. pair \in (DOMAIN cuts) \X (DOMAIN cuts) /\ pair[1] = id /\ pair[2] = other
    OBVIOUS
  <2>2. {x \in (DOMAIN cuts) \X (DOMAIN cuts) :
                      /\ x[1] # x[2]
                      /\ \/ Gap(cuts[x[1]], cuts[x[2]]) <= 0
                         \/ Gap(cuts[x[1]], cuts[x[2]]) + Epsilon < all} = {}
    <3> DEFINE Thin == {x \in (DOMAIN cuts) \X (DOMAIN cuts) :
                          /\ x[1] # x[2]
                          /\ \/ Gap(cuts[x[1]], cuts[x[2]]) <= 0
                             \/ Gap(cuts[x[1]], cuts[x[2]]) + Epsilon < all}
               Found(x) == Violation(IF Gap(cuts[x[1]], cuts[x[2]]) <= 0 THEN "OVERLAP" ELSE "LIGAMENT",
                                 {x[1], x[2]}, 0, RepairableAt(c, {x[1], x[2]}))
    <3>1. LigamentViolations(c, cuts) = {Found(x) : x \in Thin}
      BY Zenon DEF LigamentViolations
    <3> HIDE DEF Thin, Found
    <3>2. Thin = {}
      BY <3>1
    <3> QED  BY <3>2 DEF Thin
  <2> HIDE DEF pair, all
  <2> QED  BY <2>1, <2>2
<1>2. /\ gap \in Int
      /\ \E axis \in 1..2 : gap \in {Low(p, axis) - High(q, axis), Low(q, axis) - High(p, axis)}
  BY GapIs
<1>3. c.minLigament \in Int
  BY DEF PlateContract, Numbers
<1>4. all \in Int /\ c.minLigament <= all
  BY <1>3, RequiredIs
<1>5. asked \in Int /\ (asked = 0 \/ asked <= all)
  <2> DEFINE one == {"minimum_ligament"}
             two == {"non_overlap", "minimum_ligament"}
  <2>1. one \in SUBSET two
    OBVIOUS
  <2> HIDE DEF one, two
  <2>2. /\ Required(c, one, 0) \in Int
        /\ Required(c, one, 0) = 0 \/ Required(c, one, 0) <= Required(c, two, c.minLigament)
    BY <1>3, <2>1, RequiredMonotone
  <2> QED  BY <2>2 DEF one, two
<1> HIDE DEF p, q, gap, all, asked
<1>6. 1 <= gap /\ c.minLigament - Epsilon <= gap /\ asked - Epsilon <= gap
  <2>1. gap \in Int
    BY <1>2
  <2>2. 1 <= gap /\ all <= gap + 1
    BY <1>1, <1>4, <2>1 DEF Epsilon
  <2> DEFINE ligament == c.minLigament
  <2>3. ligament \in Int /\ ligament <= all
    BY <1>3, <1>4
  <2> HIDE DEF ligament
  <2>4. ligament - 1 <= gap /\ asked - 1 <= gap
    BY <1>4, <1>5, <2>1, <2>2, <2>3
  <2> QED  BY <2>2, <2>4 DEF ligament, Epsilon
<1>7. least \in {1, c.minLigament - Epsilon, asked - Epsilon}
  <2> DEFINE T == {1, c.minLigament - Epsilon, asked - Epsilon}
  <2>1. T \in SUBSET Int
    BY <1>3, <1>5 DEF Epsilon
  <2>2. \E x \in T : \A y \in T : y <= x
    <3> DEFINE b == c.minLigament - Epsilon
               a == asked - Epsilon
    <3>1. a \in Int /\ b \in Int
      BY <1>3, <1>5 DEF Epsilon
    <3>2. T = {1, b, a}
      OBVIOUS
    <3> HIDE DEF a, b, T
    <3> QED  BY <3>1, <3>2
  <2>3. least = Max(T)
    OBVIOUS
  <2> HIDE DEF T, least
  <2>4. Max(T) \in T
    BY <2>1, <2>2, MaxIs
  <2> QED  BY <2>3, <2>4 DEF T
<1>8. least <= gap /\ least \in Int
  <2> HIDE DEF least
  <2> QED  BY <1>2, <1>3, <1>5, <1>6, <1>7 DEF Epsilon
<1> HIDE DEF least
<1>9. PICK axis \in 1..2 : gap \in {Low(p, axis) - High(q, axis), Low(q, axis) - High(p, axis)}
  BY <1>2
<1>10. ~(Low(p, axis) - High(q, axis) < least /\ Low(q, axis) - High(p, axis) < least)
  BY <1>2, <1>8, <1>9
<1> QED  BY <1>10 DEF CloserThan, p, q, least, asked

\* What an alignment selects lies on one line, within its tolerance.
LEMMA Aligned ==
    ASSUME NEW c, PlateContract(c), NEW n \in DOMAIN c.constraints, c.constraints[n].type = "alignment",
           NEW o, NEW cuts, NEW selected \in SUBSET DOMAIN cuts, IsFiniteSet(selected),
           \A id \in selected : cuts[id] \in Seq(Int \X Int) /\ cuts[id] # <<>>,
           Violates(c.constraints[n], o, cuts, selected) = {},
           NEW id \in selected, NEW other \in selected, id # other
    PROVE  LET At(x) == Centre(cuts[x], c.constraints[n].axis)
           IN Abs(At(id) - At(other)) <= c.constraints[n].tolerance + Epsilon
<1> DEFINE At(x) == Centre(cuts[x], c.constraints[n].axis)
           T == {At(x) : x \in selected}
           q == [x \in selected |-> At(x)]
           allowed == c.constraints[n].tolerance + Epsilon
<1>1. c.constraints[n].axis \in 1..2 /\ c.constraints[n].tolerance \in Int
  BY DEF PlateContract, Numbers
<1>2. \A x \in selected : At(x) \in Int
  BY <1>1, CentreIs
<1>3. IsFiniteSet(T)
  <2>1. DOMAIN q = selected /\ T = {q[x] : x \in DOMAIN q}
    OBVIOUS
  <2> HIDE DEF q, T
  <2> QED  BY <2>1, FiniteImage
<1>4. Cardinality(selected) >= 2
  <2>1. Cardinality({id, other}) = 2
    <3> DEFINE one == {id}
               both == {id, other}
    <3>1. Cardinality(one) = 1 /\ IsFiniteSet(one) /\ other \notin one /\ both = one \cup {other}
      BY FS_Singleton
    <3> HIDE DEF one, both
    <3>2. Cardinality(both) = Cardinality(one) + 1
      BY <3>1, FS_AddElement
    <3>3. Cardinality(both) = 2
      BY <3>1, <3>2
    <3> QED  BY <3>3 DEF both
  <2>2. Cardinality({id, other}) <= Cardinality(selected)
    BY FS_Subset
  <2>3. Cardinality(selected) \in Nat
    BY FS_CardinalityType
  <2> QED  BY <2>1, <2>2, <2>3
<1>5. ~(Max(T) - Min(T) > allowed)
  <2>1. Violates(c.constraints[n], o, cuts, selected)
          = IF Cardinality(selected) >= 2 /\ Max(T) - Min(T) > allowed THEN selected ELSE {}
    BY Zenon DEF Violates
  <2> HIDE DEF T, allowed
  <2> QED  BY <1>4, <2>1
<1>6. T \in SUBSET Int /\ At(id) \in T /\ At(other) \in T
  BY <1>2
<1> HIDE DEF T, At
<1>7. /\ Max(T) \in T /\ \A y \in T : y <= Max(T)
      /\ Min(T) \in T /\ \A y \in T : Min(T) <= y
  BY <1>3, <1>6, FiniteExtremes
<1>8. allowed \in Int
  BY <1>1 DEF Epsilon
<1> HIDE DEF allowed
<1>9. Abs(At(id) - At(other)) <= allowed
  <2>1. /\ At(id) \in Int /\ At(other) \in Int /\ Max(T) \in Int /\ Min(T) \in Int
        /\ At(id) <= Max(T) /\ At(other) <= Max(T) /\ Min(T) <= At(id) /\ Min(T) <= At(other)
    BY <1>6, <1>7
  <2>2. Max(T) - Min(T) <= allowed
    BY <1>5, <1>8, <2>1
  <2>3. At(id) - At(other) <= allowed /\ At(other) - At(id) <= allowed
    <3>1. \A a, b, most, less, w \in Int :
            a <= most /\ b <= most /\ less <= a /\ less <= b /\ most - less <= w => a - b <= w /\ b - a <= w
      BY SMTT(30)
    <3> QED  BY SMTT(30), <1>8, <2>1, <2>2, <3>1
  <2> QED  BY <1>8, <2>1, <2>3 DEF Abs
<1> QED  BY <1>9 DEF At, allowed

\* A plate drawing that passed conforms to its contract, whatever was done to it.
LEMMA PassedPlateConforms1 ==
    ASSUME NEW c, PlateContract(c), Expandable(c), NEW hash, NEW d, Traced(d, DrawnPlate(c, hash)),
           VerifyPlate(c, d, hash).status = "passed"
    PROVE  PlateConforms(c, hash, d)
<1> DEFINE On(i) == d.entities[i]
           Read == {i \in DOMAIN d.entities : On(i).layer \in CutLayers}
           Cuts == {i \in Read : On(i).id # c.outlineId}
           read == ReadBack(d)
           cuts == Restrict(read, DOMAIN read \ {c.outlineId})
<1>1. Read = CutEntities(d)
  BY DEF CutEntities
<1>2. ReadingViolations(d, hash) = {} /\ DimensionViolations(c, read) = {} /\ ~Raises(c, read)
  BY PlateFaultless
<1>3. /\ DOMAIN d.entities \subseteq Nat /\ IsFiniteSet(DOMAIN d.entities)
      /\ \A i \in Read : /\ On(i).labelled /\ On(i).hash = hash /\ On(i).form \in {"circle", "closed"}
                         /\ On(i).points \in Seq(Int \X Int) /\ On(i).points # <<>> /\ DOMAIN On(i).points = 1..2
                         /\ On(i).id \in DOMAIN read /\ read[On(i).id] = On(i).points
      /\ \A i, j \in Read : On(i).id = On(j).id => i = j
      /\ \A id \in DOMAIN read : \E i \in Read : On(i).id = id
  <2>1. /\ DOMAIN d.entities \subseteq Nat /\ IsFiniteSet(DOMAIN d.entities)
        /\ \A i \in CutEntities(d) :
             LET e == d.entities[i]
             IN /\ e.labelled /\ e.hash = hash /\ e.hash = hash /\ e.form \in {"circle", "closed"}
                /\ e.points \in Seq(Int \X Int) /\ e.points # <<>> /\ Len(e.points) = 2 /\ DOMAIN e.points = 1..2
                /\ e.id \in DOMAIN ReadBack(d) /\ ReadBack(d)[e.id] = e.points
        /\ \A i, j \in CutEntities(d) : d.entities[i].id = d.entities[j].id => i = j
        /\ \A id \in DOMAIN ReadBack(d) : \E i \in CutEntities(d) : d.entities[i].id = id
    <3>1. ReadingViolations(d, hash) = {}
      BY <1>2
    <3> QED  BY <3>1, PlateRead
  <2> HIDE DEF Read
  <2> QED  BY <1>1, <2>1, Zenon
<1>4. /\ c.outlineId \in DOMAIN read
      /\ DOMAIN cuts = DOMAIN read \ {c.outlineId}
      /\ \A id \in DOMAIN cuts : cuts[id] = read[id]
      /\ EdgeViolations(c, read[c.outlineId], cuts) = {} /\ LigamentViolations(c, cuts) = {}
      /\ MinimumViolations(c, cuts) = {}
  BY PlateMeasured, Zenon
<1>5. ASSUME NEW i \in Cuts
      PROVE  /\ On(i).id \in DOMAIN cuts /\ cuts[On(i).id] = On(i).points
             /\ cuts[On(i).id] \in Seq(Int \X Int) /\ cuts[On(i).id] # <<>>
  <2> HIDE DEF read, cuts
  <2> QED  BY <1>3, <1>4
<1>6. PICK o \in Read : On(o).id = c.outlineId
  BY <1>3, <1>4
<1>7. Read \ Cuts = {o} /\ read[c.outlineId] = On(o).points
      /\ read[c.outlineId] \in Seq(Int \X Int) /\ read[c.outlineId] # <<>>
  <2>1. Read \ Cuts = {i \in Read : On(i).id = c.outlineId}
    OBVIOUS
  <2> HIDE DEF read, Read, Cuts
  <2>2. {i \in Read : On(i).id = c.outlineId} = {o}
    BY <1>3, <1>6
  <2>3. /\ read[On(o).id] = On(o).points /\ On(o).points \in Seq(Int \X Int) /\ On(o).points # <<>>
    BY <1>3
  <2> QED  BY <1>6, <2>1, <2>2, <2>3
<1>8. Cardinality(Read \ Cuts) = 1
  BY <1>7, FS_Singleton
<1> DEFINE asked == Required(c, {"minimum_edge_distance"}, 0)
           ligament == Max({1, c.minLigament - Epsilon, Required(c, {"minimum_ligament"}, 0) - Epsilon})
<1>9. ASSUME NEW i \in Cuts
      PROVE  /\ \A k \in 1..2, axis \in 1..2 :
                  On(i).points[k][axis] \in (Low(On(o).points, axis) + asked - Epsilon)
                                            .. (High(On(o).points, axis) - asked + Epsilon)
             /\ \A axis \in 1..2 : Extent(On(i).points, axis) >= c.minFeature - Epsilon
  <2> DEFINE id == On(i).id
             out == On(o).points
  <2>1. /\ id \in DOMAIN cuts /\ cuts[id] = On(i).points
        /\ cuts[id] \in Seq(Int \X Int) /\ cuts[id] # <<>>
    BY <1>5
  <2>2. out \in Seq(Int \X Int) /\ out # <<>> /\ EdgeViolations(c, out, cuts) = {} /\ MinimumViolations(c, cuts) = {}
    BY <1>4, <1>7
  <2>3. DOMAIN On(i).points = 1..2
    BY <1>3
  <2> HIDE DEF id, out, cuts, read
  <2>4. /\ \A k \in DOMAIN cuts[id], axis \in 1..2 :
             cuts[id][k][axis] \in (Low(out, axis) + asked - Epsilon) .. (High(out, axis) - asked + Epsilon)
        /\ \A axis \in 1..2 : Extent(cuts[id], axis) >= c.minFeature - Epsilon
    BY <2>1, <2>2, CutKeepsInside, Zenon
  <2> QED  BY <2>1, <2>3, <2>4, Zenon DEF out
<1>10. ASSUME NEW i \in Cuts, NEW j \in Cuts, i # j
       PROVE  ~CloserThan(On(i).points, On(j).points, ligament)
  <2>1. On(i).id # On(j).id
    BY <1>3, <1>10
  <2>2. /\ On(i).id \in DOMAIN cuts /\ cuts[On(i).id] = On(i).points
        /\ cuts[On(i).id] \in Seq(Int \X Int) /\ cuts[On(i).id] # <<>>
        /\ On(j).id \in DOMAIN cuts /\ cuts[On(j).id] = On(j).points
        /\ cuts[On(j).id] \in Seq(Int \X Int) /\ cuts[On(j).id] # <<>>
    BY <1>5
  <2> HIDE DEF cuts, read
  <2>3. ~CloserThan(cuts[On(i).id], cuts[On(j).id], ligament)
    BY <1>4, <2>1, <2>2, CutsKeepApart, Zenon
  <2> QED  BY <2>2, <2>3, Zenon
<1>11. ASSUME NEW n \in DOMAIN c.dimensions
       PROVE  \E x \in OnPlate(c, d, c.dimensions[n].path) : WithinTolerance(c.dimensions[n], x)
  <2> DEFINE dim == c.dimensions[n]
             path == dim.path
             Found == MeasuredPlate(c, read, path)
             Deviations ==
               IF Found = {} THEN {Violation("PATH_INVALID", {}, n, FALSE)}
               ELSE {Violation("TOLERANCE", m.on, n, ~dim.locked /\ dim.path \in c.free) :
                       m \in {x \in Found : ~WithinTolerance(dim, x.value)}}
  <2>1. Deviations = {}
    BY <1>2, Zenon DEF DimensionViolations
  <2>2. Found # {} /\ \A m \in Found : WithinTolerance(dim, m.value)
    <3> HIDE DEF Found, dim
    <3> QED  BY <2>1
  <2> DEFINE Of(id) == {On(i).points : i \in {j \in CutEntities(d) : On(j).id = id}}
             id == path.name
             copy == CopyId(<<path.name, 2>>)
             source == c.patterns[path.name].source
  <2>3. \A x \in DOMAIN read : read[x] \in Of(x)
    <3> SUFFICES ASSUME NEW x \in DOMAIN read PROVE read[x] \in Of(x)
      OBVIOUS
    <3>1. PICK i \in Read : On(i).id = x
      BY <1>3
    <3>2. read[x] = On(i).points
      BY <1>3, <3>1
    <3> QED  BY <1>1, <3>1, <3>2
  <2>4. OnPlate(c, d, path) =
          CASE path.key = "outline_width" -> {Extent(p, 1) : p \in Of(c.outlineId)}
            [] path.key = "width" -> {Extent(p, 1) : p \in Of(id)}
            [] path.key = "center" -> {Centre(p, 1) : p \in Of(id)}
            [] OTHER -> {Centre(x[2], 1) - Centre(x[1], 1) : x \in Of(source) \X Of(copy)}
    BY Zenon DEF OnPlate
  <2>5. Found =
          CASE path.key = "outline_width" ->
                 {[value |-> Extent(read[x], 1), on |-> {x}] : x \in {c.outlineId} \cap DOMAIN read}
            [] path.key = "width" /\ id \in DOMAIN read -> {[value |-> Extent(read[id], 1), on |-> {id}]}
            [] path.key = "center" /\ id \in DOMAIN read -> {[value |-> Centre(read[id], 1), on |-> {id}]}
            [] path.key = "spacing" /\ path.name \in DOMAIN c.patterns ->
                 IF {source, copy} \subseteq DOMAIN read
                 THEN {[value |-> Centre(read[copy], 1) - Centre(read[source], 1), on |-> {source, copy}]}
                 ELSE {}
            [] OTHER -> {}
    BY Zenon DEF MeasuredPlate
  <2>6. ASSUME NEW m \in Found PROVE m.value \in OnPlate(c, d, path)
    <3> HIDE DEF Of, id, copy, source, read, Found, path
    <3>1. CASE path.key = "outline_width"
      <4>1. m = [value |-> Extent(read[c.outlineId], 1), on |-> {c.outlineId}] /\ c.outlineId \in DOMAIN read
        BY <2>5, <3>1
      <4>2. OnPlate(c, d, path) = {Extent(p, 1) : p \in Of(c.outlineId)}
        BY <2>4, <3>1
      <4> QED  BY <2>3, <4>1, <4>2
    <3>2. CASE id \in DOMAIN read /\ path.key = "width"
      <4>1. m = [value |-> Extent(read[id], 1), on |-> {id}]
        BY <2>5, <3>2
      <4>2. OnPlate(c, d, path) = {Extent(p, 1) : p \in Of(id)}
        BY <2>4, <3>2
      <4> QED  BY <2>3, <3>2, <4>1, <4>2
    <3>3. CASE id \in DOMAIN read /\ path.key = "center"
      <4>1. m = [value |-> Centre(read[id], 1), on |-> {id}]
        BY <2>5, <3>3
      <4>2. OnPlate(c, d, path) = {Centre(p, 1) : p \in Of(id)}
        BY <2>4, <3>3
      <4> QED  BY <2>3, <3>3, <4>1, <4>2
    <3>4. CASE path.key # "outline_width" /\ ~(id \in DOMAIN read /\ path.key \in {"width", "center"})
      <4>1. /\ path.key = "spacing" /\ source \in DOMAIN read /\ copy \in DOMAIN read
            /\ m = [value |-> Centre(read[copy], 1) - Centre(read[source], 1), on |-> {source, copy}]
        BY <2>5, <3>4
      <4>2. OnPlate(c, d, path) = {Centre(x[2], 1) - Centre(x[1], 1) : x \in Of(source) \X Of(copy)}
        BY <2>4, <4>1
      <4>3. <<read[source], read[copy]>> \in Of(source) \X Of(copy)
        BY <2>3, <4>1
      <4> QED  BY <4>1, <4>2, <4>3
    <3> QED  BY <3>1, <3>2, <3>3, <3>4
  <2> HIDE DEF Found
  <2> QED  BY <2>2, <2>6
<1> DEFINE Named(names) == {i \in Cuts : \/ On(i).id \in names
                                         \/ \E p \in names \cap DOMAIN c.patterns : IsStrictPrefix(p, On(i).id)}
<1>12. ASSUME NEW n \in DOMAIN c.constraints, c.constraints[n].required, c.constraints[n].type = "alignment",
              NEW i \in Named(c.constraints[n].on), NEW j \in Named(c.constraints[n].on), i # j
       PROVE  Abs(Centre(On(i).points, c.constraints[n].axis) - Centre(On(j).points, c.constraints[n].axis))
                <= c.constraints[n].tolerance + Epsilon
  <2> DEFINE names == c.constraints[n].on
             selected == NamedPlate(c, names, read)
  <2>1. Violates(c.constraints[n], read[c.outlineId], read, selected) = {}
    BY <1>12, PlateMeasured, Zenon
  <2>2. \A p \in names \cap DOMAIN c.patterns : c.patterns[p].source \in DOMAIN read
    <3> HIDE DEF read
    <3> QED  BY <1>2, <1>4, <1>12 DEF Raises
  <2>3. selected \in SUBSET DOMAIN read
    <3> HIDE DEF read
    <3> QED  BY <2>2 DEF NamedPlate
  <2>4. \A id \in selected : read[id] \in Seq(Int \X Int) /\ read[id] # <<>>
    <3> HIDE DEF selected, read, Read
    <3> SUFFICES ASSUME NEW id \in selected PROVE read[id] \in Seq(Int \X Int) /\ read[id] # <<>>
      OBVIOUS
    <3>1. PICK k \in Read : On(k).id = id
      BY <1>3, <2>3
    <3>2. On(k).points \in Seq(Int \X Int) /\ On(k).points # <<>> /\ read[On(k).id] = On(k).points
      BY <1>3
    <3> QED  BY <3>1, <3>2
  <2>5. IsFiniteSet(selected)
    <3> DEFINE f == [k \in Read |-> On(k).id]
               T == {f[k] : k \in DOMAIN f}
    <3>1. IsFiniteSet(Read)
      <4>1. Read \subseteq DOMAIN d.entities
        OBVIOUS
      <4> QED  BY <1>3, <4>1, FS_Subset
    <3>2. DOMAIN f = Read /\ \A k \in Read : f[k] = On(k).id
      OBVIOUS
    <3> HIDE DEF f, Read, selected, read
    <3>3. IsFiniteSet(T)
      BY <3>1, <3>2, FiniteImage
    <3>4. \A id \in DOMAIN read : \E k \in Read : On(k).id = id
      BY <1>3
    <3> HIDE DEF On
    <3>5. selected \subseteq T
      BY <2>3, <3>2, <3>4
    <3> QED  BY <3>3, <3>5, FS_Subset
  <2>6. ASSUME NEW k \in Named(names) PROVE On(k).id \in selected
    <3>1. /\ On(k).id \in DOMAIN read /\ On(k).id # c.outlineId
          /\ \/ On(k).id \in names
             \/ \E p \in names \cap DOMAIN c.patterns : IsStrictPrefix(p, On(k).id)
      <4>1. k \in Read
        OBVIOUS
      <4> HIDE DEF read
      <4> QED  BY <1>3, <4>1
    <3> HIDE DEF read
    <3> QED  BY <3>1, Zenon DEF NamedPlate
  <2>7. On(i).id \in selected /\ On(j).id \in selected /\ On(i).id # On(j).id
    BY <1>3, <1>12, <2>6
  <2>8. read[On(i).id] = On(i).points /\ read[On(j).id] = On(j).points
    <3>1. i \in Read /\ j \in Read
      OBVIOUS
    <3> HIDE DEF read, Read
    <3> QED  BY <1>3, <3>1
  <2> HIDE DEF selected, cuts, read
  <2>9. LET At(x) == Centre(read[x], c.constraints[n].axis)
        IN Abs(At(On(i).id) - At(On(j).id)) <= c.constraints[n].tolerance + Epsilon
    BY <1>12, <2>1, <2>3, <2>4, <2>5, <2>7, Aligned, Zenon
  <2> QED  BY <2>8, <2>9, Zenon
<1>13. \A i \in Read : On(i).labelled /\ On(i).hash = hash /\ On(i).form \in {"circle", "closed"}
  BY <1>3
<1>14. \A x \in Read \ Cuts, i \in Cuts : \A k \in 1..2, axis \in 1..2 :
         On(i).points[k][axis] \in (Low(On(x).points, axis) + asked - Epsilon)
                                   .. (High(On(x).points, axis) - asked + Epsilon)
  <2> HIDE DEF Read, Cuts, asked
  <2> QED  BY <1>7, <1>9, Zenon
<1>15. \A i \in Cuts : \A axis \in 1..2 : Extent(On(i).points, axis) >= c.minFeature - Epsilon
  BY <1>9
<1>16. \A i, j \in Cuts : i # j => ~CloserThan(On(i).points, On(j).points, ligament)
  BY <1>10
<1>17. \A n \in DOMAIN c.dimensions :
         \E x \in OnPlate(c, d, c.dimensions[n].path) : WithinTolerance(c.dimensions[n], x)
  BY <1>11
<1>18. \A n \in DOMAIN c.constraints :
         c.constraints[n].required /\ c.constraints[n].type = "alignment" =>
           \A i, j \in Named(c.constraints[n].on) : i # j =>
             Abs(Centre(On(i).points, c.constraints[n].axis) - Centre(On(j).points, c.constraints[n].axis))
               <= c.constraints[n].tolerance + Epsilon
  BY <1>12
<1> HIDE DEF read, cuts
<1> QED  BY <1>8, <1>13, <1>14, <1>15, <1>16, <1>17, <1>18 DEF PlateConforms

\* What the schema says of a plate still holds once it is in millimetres.
LEMMA NormalizedPlateIsContract ==
    ASSUME NEW c, PlateContract(c), NEW inch \in Nat
    PROVE  PlateContract(NormalizedPlate(c, inch))
<1> DEFINE Long(n) == n * inch
           Box(b) == [k \in 1..2 |-> <<Long(b[k][1]), Long(b[k][2])>>]
           d == NormalizedPlate(c, inch)
<1> SUFFICES ASSUME c.units # "mm" PROVE PlateContract(d)
  BY DEF NormalizedPlate
<1>1. \A n \in Int : Long(n) \in Int
  OBVIOUS
<1>2. ASSUME NEW b \in Boxes PROVE Box(b) \in Boxes
  <2>1. \A k \in 1..2 : b[k] \in Int \X Int
    BY DEF Boxes
  <2>2. \A k \in 1..2 : b[k][1] \in Int /\ b[k][2] \in Int
    BY <2>1
  <2> HIDE DEF Long
  <2>3. \A k \in 1..2 : <<Long(b[k][1]), Long(b[k][2])>> \in Int \X Int
    BY <1>1, <2>2
  <2> QED  BY <2>3 DEF Boxes
<1>3. /\ DOMAIN d = DOMAIN c
      /\ d.outlineId = c.outlineId
      /\ d.outline = Box(c.outline) /\ d.minFeature = Long(c.minFeature) /\ d.minLigament = Long(c.minLigament)
      /\ d.features = [f \in DOMAIN c.features |-> [c.features[f] EXCEPT !.box = Box(@)]]
      /\ d.patterns = [p \in DOMAIN c.patterns |-> [c.patterns[p] EXCEPT !.spacing = Long(@)]]
      /\ d.dimensions = [i \in DOMAIN c.dimensions |->
                            [c.dimensions[i] EXCEPT !.target = Long(@), !.lower = Long(@), !.upper = Long(@)]]
      /\ d.constraints = [i \in DOMAIN c.constraints |->
                             [c.constraints[i] EXCEPT !.value = Long(@), !.tolerance = Long(@)]]
  <2>1. DOMAIN c = {"units", "outlineId", "outline", "features", "patterns", "dimensions", "constraints", "free",
                    "confirmed", "minFeature", "minLigament"}
    BY DEF PlateContract
  <2> DEFINE F == [f \in DOMAIN c.features |-> [c.features[f] EXCEPT !.box = Box(@)]]
             P == [p \in DOMAIN c.patterns |-> [c.patterns[p] EXCEPT !.spacing = Long(@)]]
             D == [i \in DOMAIN c.dimensions |->
                     [c.dimensions[i] EXCEPT !.target = Long(@), !.lower = Long(@), !.upper = Long(@)]]
             K == [i \in DOMAIN c.constraints |->
                     [c.constraints[i] EXCEPT !.value = Long(@), !.tolerance = Long(@)]]
  <2>2. d = [c EXCEPT !.units = "mm", !.outline = Box(@), !.features = F, !.patterns = P, !.dimensions = D,
                      !.constraints = K, !.minFeature = Long(@), !.minLigament = Long(@)]
    BY Zenon DEF NormalizedPlate
  <2> HIDE DEF d, Long, Box, F, P, D, K
  <2>3. /\ DOMAIN d = DOMAIN c /\ d.outlineId = c.outlineId
        /\ d.outline = Box(c.outline) /\ d.minFeature = Long(c.minFeature) /\ d.minLigament = Long(c.minLigament)
        /\ d.features = F /\ d.patterns = P /\ d.dimensions = D /\ d.constraints = K
    BY <2>1, <2>2
  <2> QED  BY Zenon, <2>3 DEF F, P, D, K
<1> HIDE DEF Long, Box, d
<1>4. c.outline \in Boxes /\ c.minFeature \in Int /\ c.minLigament \in Int
  BY DEF PlateContract, Numbers
<1>5. d.outline \in Boxes /\ Numbers(d, {"minFeature", "minLigament"})
  <2>1. {"minFeature", "minLigament"} \subseteq DOMAIN d
    BY Zenon, <1>3 DEF PlateContract
  <2> QED  BY Zenon, <1>1, <1>2, <1>3, <1>4, <2>1 DEF Numbers
<1>6. d.features \in [DOMAIN d.features -> [form : {"circle", "closed"}, box : Boxes]]
  <2>1. \A f \in DOMAIN c.features : c.features[f] \in [form : {"circle", "closed"}, box : Boxes]
    BY DEF PlateContract
  <2>2. \A f \in DOMAIN c.features :
          [c.features[f] EXCEPT !.box = Box(@)] \in [form : {"circle", "closed"}, box : Boxes]
    BY <1>2, <2>1
  <2>3. \A f \in DOMAIN c.features : d.features[f] \in [form : {"circle", "closed"}, box : Boxes]
    <3>1. ASSUME NEW f \in DOMAIN c.features
          PROVE  d.features[f] = [c.features[f] EXCEPT !.box = Box(@)]
      BY Zenon, <1>3
    <3> QED  BY <2>2, <3>1
  <2>4. d.features = [f \in DOMAIN d.features |-> d.features[f]] /\ DOMAIN d.features = DOMAIN c.features
    BY Zenon, <1>3
  <2> QED  BY <2>3, <2>4
<1>7. ASSUME NEW p \in DOMAIN d.patterns
      PROVE  /\ d.patterns[p].source \in DOMAIN d.features \cup DOMAIN d.patterns
             /\ d.patterns[p].count \in Nat /\ Numbers(d.patterns[p], {"spacing"})
  <2> DEFINE x == c.patterns[p]
  <2>1. x.source \in DOMAIN c.features \cup DOMAIN c.patterns /\ x.count \in Nat /\ Numbers(x, {"spacing"})
    BY Zenon, <1>3 DEF PlateContract
  <2>2. d.patterns[p] = [x EXCEPT !.spacing = Long(@)]
    BY Zenon, <1>3
  <2>3. DOMAIN d.features = DOMAIN c.features /\ DOMAIN d.patterns = DOMAIN c.patterns
    BY Zenon, <1>3
  <2> HIDE DEF x
  <2>4. "spacing" \in DOMAIN x /\ x.spacing \in Int
    BY <2>1 DEF Numbers
  <2>5. /\ d.patterns[p].source = x.source /\ d.patterns[p].count = x.count
        /\ d.patterns[p].spacing = Long(x.spacing) /\ "spacing" \in DOMAIN d.patterns[p]
    BY <2>2, <2>4
  <2> QED  BY <1>1, <2>1, <2>3, <2>4, <2>5 DEF Numbers
<1>8. ASSUME NEW i \in DOMAIN d.dimensions
      PROVE  i \in Nat /\ Numbers(d.dimensions[i], {"target", "lower", "upper"})
  <2> DEFINE x == c.dimensions[i]
  <2>1. i \in Nat /\ Numbers(x, {"target", "lower", "upper"})
    BY Zenon, <1>3 DEF PlateContract
  <2>2. d.dimensions[i] = [x EXCEPT !.target = Long(@), !.lower = Long(@), !.upper = Long(@)]
    BY Zenon, <1>3
  <2> HIDE DEF x
  <2>3. /\ {"target", "lower", "upper"} \subseteq DOMAIN x
        /\ x.target \in Int /\ x.lower \in Int /\ x.upper \in Int
    BY <2>1 DEF Numbers
  <2>4. /\ DOMAIN d.dimensions[i] = DOMAIN x /\ d.dimensions[i].target = Long(x.target)
        /\ d.dimensions[i].lower = Long(x.lower) /\ d.dimensions[i].upper = Long(x.upper)
    BY <2>2, <2>3
  <2> QED  BY <1>1, <2>1, <2>3, <2>4 DEF Numbers
<1>9. ASSUME NEW i \in DOMAIN d.constraints
      PROVE  /\ i \in Nat /\ Numbers(d.constraints[i], {"value", "tolerance"})
             /\ d.constraints[i].axis \in 1..2
  <2> DEFINE x == c.constraints[i]
  <2>1. i \in Nat /\ Numbers(x, {"value", "tolerance"}) /\ x.axis \in 1..2
    BY Zenon, <1>3 DEF PlateContract
  <2>2. d.constraints[i] = [x EXCEPT !.value = Long(@), !.tolerance = Long(@)]
    BY Zenon, <1>3
  <2> HIDE DEF x
  <2>3. {"value", "tolerance"} \subseteq DOMAIN x /\ x.value \in Int /\ x.tolerance \in Int
    BY <2>1 DEF Numbers
  <2>4. /\ DOMAIN d.constraints[i] = DOMAIN x /\ d.constraints[i].value = Long(x.value)
        /\ d.constraints[i].tolerance = Long(x.tolerance) /\ d.constraints[i].axis = x.axis
    BY <2>2, <2>3
  <2> QED  BY <1>1, <2>1, <2>3, <2>4 DEF Numbers
<1>10. /\ DOMAIN d.features = DOMAIN c.features /\ DOMAIN d.patterns = DOMAIN c.patterns
       /\ DOMAIN d.dimensions = DOMAIN c.dimensions /\ DOMAIN d.constraints = DOMAIN c.constraints
  BY Zenon, <1>3
<1>11. /\ DOMAIN d = {"units", "outlineId", "outline", "features", "patterns", "dimensions", "constraints", "free",
                       "confirmed", "minFeature", "minLigament"}
       /\ IsFiniteSet(DOMAIN d.features) /\ IsFiniteSet(DOMAIN d.patterns)
       /\ IsFiniteSet(DOMAIN d.dimensions) /\ IsFiniteSet(DOMAIN d.constraints)
       /\ d.outlineId \notin DOMAIN d.features \cup DOMAIN d.patterns
       /\ DOMAIN d.features \cap DOMAIN d.patterns = {}
  BY Zenon, <1>3, <1>10 DEF PlateContract
<1> QED  BY <1>5, <1>6, <1>7, <1>8, <1>9, <1>11 DEF PlateContract
-----------------------------------------------------------------------------
(* Pipings *)

\* The values of a function with finite domain, in order.
LEMMA ListedImage ==
    ASSUME NEW q, IsFiniteSet(DOMAIN q)
    PROVE  InOrder({q[x] : x \in DOMAIN q}) \in Seq({q[x] : x \in DOMAIN q})
<1> DEFINE S == {q[x] : x \in DOMAIN q}
<1>1. IsFiniteSet(S)
  BY FiniteImage
<1> HIDE DEF S
<1>2. InOrder(S) \in Seq(S)
  BY <1>1, InOrderLists DEF Lists
<1> QED  BY <1>2 DEF S

\* The parts of a piping contract are finitely many.
LEMMA PipingFinite ==
    ASSUME NEW c, PipingContract(c)
    PROVE  /\ IsFiniteSet(DOMAIN c.nodes) /\ IsFiniteSet(DOMAIN c.segments) /\ IsFiniteSet(DOMAIN c.items)
           /\ IsFiniteSet(DOMAIN c.zones) /\ IsFiniteSet(NoteIds(c)) /\ IsFiniteSet(NotesDrawn(c))
<1>1. IsFiniteSet(DOMAIN c.nodes) /\ IsFiniteSet(DOMAIN c.segments) /\ IsFiniteSet(DOMAIN c.items)
      /\ IsFiniteSet(DOMAIN c.zones) /\ IsFiniteSet(DOMAIN c.dimensions)
  <2>1. /\ IsFiniteSet(DOMAIN c.nodes \cup DOMAIN c.segments \cup DOMAIN c.items \cup DOMAIN c.zones)
        /\ IsFiniteSet(DOMAIN c.dimensions \cup DOMAIN c.constraints)
    BY DEF PipingContract
  <2> QED  BY <2>1, FS_Subset
<1>2. IsFiniteSet(NoteIds(c))
  <2> DEFINE q == [i \in DOMAIN c.dimensions |-> c.dimensions[i].id]
  <2>1. DOMAIN q = DOMAIN c.dimensions /\ NoteIds(c) = {q[i] : i \in DOMAIN q}
    BY DEF NoteIds
  <2> HIDE DEF q
  <2> QED  BY <1>1, <2>1, FiniteImage
<1>3. IsFiniteSet({})
  BY FS_EmptySet
<1> QED  BY <1>1, <1>2, <1>3 DEF NotesDrawn

\* A segment runs between points.
LEMMA LineIs ==
    ASSUME NEW c, PipingContract(c), NEW s \in DOMAIN c.segments
    PROVE  /\ Line(c, s)[1] \in Int \X Int /\ Line(c, s)[2] \in Int \X Int
           /\ Line(c, s) \in Seq(Int \X Int) /\ Line(c, s) # <<>>
<1>1. c.nodes[c.segments[s].from] \in Int \X Int /\ c.nodes[c.segments[s].to] \in Int \X Int
  BY DEF PipingContract
<1> QED  BY <1>1 DEF Line

\* A place along a segment is a point.
LEMMA AtOffsetIs ==
    ASSUME NEW line, line[1] \in Int \X Int, NEW offset \in Int
    PROVE  AtOffset(line, offset) \in Int \X Int
<1> DEFINE axis == LongAxis(line)
           sign == IF line[1][axis] <= line[2][axis] THEN 1 ELSE -1
<1>1. axis \in 1..2 /\ sign \in Int
  BY DEF LongAxis
<1>2. AtOffset(line, offset) = [line[1] EXCEPT ![axis] = @ + sign * offset]
  BY Zenon DEF AtOffset
<1> HIDE DEF axis, sign
<1>3. \A p \in Int \X Int, a \in 1..2, m \in Int : [p EXCEPT ![a] = @ + m] \in Int \X Int
  OBVIOUS
<1>4. sign * offset \in Int
  BY <1>1
<1> QED  BY <1>1, <1>2, <1>3, <1>4

\* An entity of a piping drawing.
PipingEntity(layer, form, id, type, points, width, refs, hash) ==
    [layer |-> layer, form |-> form, points |-> points, labelled |-> TRUE,
     id |-> id, type |-> type, refs |-> refs, hash |-> hash, width |-> width]

\* It is one, if its points and its width are.
LEMMA PipingEntityIs ==
    ASSUME NEW layer, NEW form, NEW id, NEW type, NEW points \in Seq(Int \X Int), points # <<>>,
           NEW width \in Int, NEW refs, NEW hash
    PROVE  LET e == PipingEntity(layer, form, id, type, points, width, refs, hash)
           IN  IsEntity(e) /\ e.hash = hash
BY DEF PipingEntity, IsEntity

\* A piping drawing as it is written, of whatever status: entities, all with the hash.
LEMMA PipingEntities ==
    ASSUME NEW c, PipingContract(c), NEW hash
    PROVE  /\ IsDrawing(DrawnPiping(c, hash))
           /\ \A j \in DOMAIN DrawnPiping(c, hash).entities : DrawnPiping(c, hash).entities[j].hash = hash
<1> DEFINE Good(e) == IsEntity(e) /\ e.hash = hash
           Pipe(s) == PipingEntity("P-PIPE", "open", s, "pipe_segment", Line(c, s), c.segments[s].diameter,
                                   <<c.segments[s].from, c.segments[s].to>>, hash)
           Node(n) == PipingEntity("P-NODE", "point", n, "piping_node", <<c.nodes[n]>>, 0, <<>>, hash)
           at(i) == AtOffset(Line(c, c.items[i].segment), c.items[i].offset)
           Item(i) == IF c.items[i].kind = "component"
                      THEN PipingEntity("P-COMP", c.items[i].form, i, c.items[i].type,
                             <<<<at(i)[1] - 1, at(i)[2] - 1>>, <<at(i)[1] + 1, at(i)[2] + 1>>>>, 0,
                             <<c.items[i].segment>>, hash)
                      ELSE PipingEntity("P-SUPPORT", "circle", i, c.items[i].type, <<at(i)>>, 0,
                             <<c.items[i].segment>>, hash)
           Zone(z) == PipingEntity("P-EQUIP", c.zones[z].form, z, c.zones[z].type, c.zones[z].box, 0, <<>>, hash)
           Text(layer, id, type) == PipingEntity(layer, "text", id, type, <<<<0, 0>>>>, 0, <<>>, hash)
           P == [s \in DOMAIN c.segments |-> Pipe(s)]
           N == [n \in DOMAIN c.nodes |-> Node(n)]
           I == [i \in DOMAIN c.items |-> Item(i)]
           Z == [z \in DOMAIN c.zones |-> Zone(z)]
           T == [id \in NotesDrawn(c) |-> Text("P-DIMS", id, "dimension_note")]
           m == Text("P-META", "piping-metadata", "metadata")
           Of(q) == {q[x] : x \in DOMAIN q}
           d == DrawnPiping(c, hash)
<1>1. ASSUME NEW s \in DOMAIN c.segments PROVE Good(Pipe(s))
  <2>1. Line(c, s) \in Seq(Int \X Int) /\ Line(c, s) # <<>> /\ c.segments[s].diameter \in Int
    BY LineIs DEF PipingContract, Numbers
  <2> QED  BY <2>1, PipingEntityIs
<1>2. ASSUME NEW n \in DOMAIN c.nodes PROVE Good(Node(n))
  <2> DEFINE p == <<c.nodes[n]>>
  <2>1. p \in Seq(Int \X Int) /\ p # <<>>
    BY DEF PipingContract
  <2> HIDE DEF p
  <2>2. Good(PipingEntity("P-NODE", "point", n, "piping_node", p, 0, <<>>, hash))
    BY SMTT(30), <2>1, PipingEntityIs
  <2> QED  BY <2>2 DEF p
<1>3. ASSUME NEW i \in DOMAIN c.items PROVE Good(Item(i))
  <2>1. c.items[i].segment \in DOMAIN c.segments /\ c.items[i].offset \in Int
    BY DEF PipingContract, Numbers
  <2>2. at(i) \in Int \X Int
    BY <2>1, LineIs, AtOffsetIs
  <2> DEFINE p == at(i)
             box == <<<<p[1] - 1, p[2] - 1>>, <<p[1] + 1, p[2] + 1>>>>
             one == <<p>>
  <2> HIDE DEF p
  <2>3. box \in Seq(Int \X Int) /\ box # <<>> /\ one \in Seq(Int \X Int) /\ one # <<>>
    BY <2>2 DEF p
  <2>4. Good(PipingEntity("P-COMP", c.items[i].form, i, c.items[i].type, box, 0, <<c.items[i].segment>>, hash))
    <3> HIDE DEF box
    <3> QED  BY <2>3, PipingEntityIs
  <2>5. Good(PipingEntity("P-SUPPORT", "circle", i, c.items[i].type, one, 0, <<c.items[i].segment>>, hash))
    <3> HIDE DEF one
    <3> QED  BY <2>3, PipingEntityIs
  <2> QED  BY <2>4, <2>5 DEF p
<1>4. ASSUME NEW z \in DOMAIN c.zones PROVE Good(Zone(z))
  <2>1. c.zones[z].box \in Seq(Int \X Int) /\ c.zones[z].box # <<>>
    BY BoxIsPoints DEF PipingContract
  <2>2. \A form, type : Good(PipingEntity("P-EQUIP", form, z, type, c.zones[z].box, 0, <<>>, hash))
    BY <2>1, PipingEntityIs
  <2> QED  BY <2>2
<1>5. ASSUME NEW layer, NEW id, NEW type PROVE Good(Text(layer, id, type))
  <2> DEFINE p == <<<<0, 0>>>>
  <2>1. p \in Seq(Int \X Int) /\ p # <<>>
    OBVIOUS
  <2> HIDE DEF p
  <2>2. Good(PipingEntity(layer, "text", id, type, p, 0, <<>>, hash))
    BY SMTT(30), <2>1, PipingEntityIs
  <2> QED  BY <2>2 DEF p
<1>6. /\ d.entities = InOrder({Pipe(s) : s \in DOMAIN c.segments})
             \o InOrder({Node(n) : n \in DOMAIN c.nodes}) \o InOrder({Item(i) : i \in DOMAIN c.items})
             \o InOrder({Zone(z) : z \in DOMAIN c.zones})
             \o InOrder({Text("P-DIMS", id, "dimension_note") : id \in NotesDrawn(c)}) \o <<m>>
      /\ d.beside = FALSE
      /\ DOMAIN d = {"release", "unit", "layers", "entities", "record", "beside"}
  BY Zenon DEF DrawnPiping, Drawing, PipingEntity
<1> HIDE DEF Pipe, Node, Item, Zone, Text, d, m
<1>7. /\ {Pipe(s) : s \in DOMAIN c.segments} = Of(P) /\ {Node(n) : n \in DOMAIN c.nodes} = Of(N)
      /\ {Item(i) : i \in DOMAIN c.items} = Of(I) /\ {Zone(z) : z \in DOMAIN c.zones} = Of(Z)
      /\ {Text("P-DIMS", id, "dimension_note") : id \in NotesDrawn(c)} = Of(T)
  OBVIOUS
<1>8. /\ DOMAIN P = DOMAIN c.segments /\ DOMAIN N = DOMAIN c.nodes /\ DOMAIN I = DOMAIN c.items
      /\ DOMAIN Z = DOMAIN c.zones /\ DOMAIN T = NotesDrawn(c)
  OBVIOUS
<1>9. \A e \in Of(P) \cup Of(N) \cup Of(I) \cup Of(Z) \cup Of(T) \cup {m} : Good(e)
  <2>1. /\ \A e \in Of(P) : Good(e)
        /\ \A e \in Of(N) : Good(e)
        /\ \A e \in Of(I) : Good(e)
    <3> HIDE DEF Good
    <3> QED  BY <1>1, <1>2, <1>3
  <2>2. (\A e \in Of(Z) : Good(e)) /\ (\A e \in Of(T) : Good(e)) /\ Good(m)
    <3> HIDE DEF Good
    <3> QED  BY <1>4, <1>5 DEF m
  <2> HIDE DEF Good, P, N, I, Z, T
  <2> QED  BY <2>1, <2>2
<1> DEFINE U == Of(P) \cup Of(N) \cup Of(I) \cup Of(Z) \cup Of(T) \cup {m}
<1> HIDE DEF P, N, I, Z, T, Good
<1>10. /\ InOrder(Of(P)) \in Seq(Of(P)) /\ InOrder(Of(N)) \in Seq(Of(N)) /\ InOrder(Of(I)) \in Seq(Of(I))
       /\ InOrder(Of(Z)) \in Seq(Of(Z)) /\ InOrder(Of(T)) \in Seq(Of(T))
  BY Zenon, <1>8, PipingFinite, ListedImage
<1>11. /\ InOrder(Of(P)) \in Seq(U) /\ InOrder(Of(N)) \in Seq(U) /\ InOrder(Of(I)) \in Seq(U)
       /\ InOrder(Of(Z)) \in Seq(U) /\ InOrder(Of(T)) \in Seq(U) /\ <<m>> \in Seq(U)
  <2>1. Of(P) \subseteq U /\ Of(N) \subseteq U /\ Of(I) \subseteq U /\ Of(Z) \subseteq U /\ Of(T) \subseteq U /\ m \in U
    OBVIOUS
  <2> HIDE DEF U, Of
  <2> QED  BY <1>10, <2>1, SeqMonotonic
<1> HIDE DEF Of, U
<1>12. d.entities \in Seq(U)
  <2> DEFINE a == InOrder(Of(P))
             b == InOrder(Of(N))
             e == InOrder(Of(I))
             f == InOrder(Of(Z))
             g == InOrder(Of(T))
  <2>1. d.entities = a \o b \o e \o f \o g \o <<m>>
    BY <1>6, <1>7, Zenon
  <2> HIDE DEF a, b, e, f, g
  <2>2. \A p, q \in Seq(U) : p \o q \in Seq(U)
    BY ConcatProperties
  <2>3. a \in Seq(U) /\ b \in Seq(U) /\ e \in Seq(U) /\ f \in Seq(U) /\ g \in Seq(U) /\ <<m>> \in Seq(U)
    BY <1>11 DEF a, b, e, f, g
  <2> QED  BY <2>1, <2>2, <2>3
<1>13. \A e \in U : Good(e)
  BY <1>9 DEF U
<1>14. \A j \in DOMAIN d.entities : Good(d.entities[j])
  BY <1>12, <1>13, LenProperties, ElementOfSeq
<1> QED  BY <1>6, <1>12, <1>13, <1>14 DEF IsDrawing, Good, d
\* Nothing is wrong with a piping drawing that passed.
LEMMA PipingFaultless ==
    ASSUME NEW c, NEW hash, NEW d, VerifyPiping(c, d, hash).status = "passed"
    PROVE  LET read == ReadPiping(d)
           IN  /\ PipingReadingFaults(c, d, hash) = {} /\ PipingDimensionFaults(c, read) = {}
               /\ RouteViolations(c, read) = {} /\ SpacingViolations(c, read) = {}
               /\ ClearanceViolations(c, read) = {}
               /\ \A i \in HostedItems(c, read) : Placed(c, read, i)
<1> DEFINE read == ReadPiping(d)
           Misplaced == {Violation("POSITION", {i, c.items[i].segment}, 0, FALSE) :
                           i \in {j \in HostedItems(c, read) : ~Placed(c, read, j)}}
           V == PipingReadingFaults(c, d, hash) \cup PipingDimensionFaults(c, read) \cup PipingDuplicates(read)
                  \cup RouteViolations(c, read) \cup Misplaced
                  \cup SpacingViolations(c, read) \cup ClearanceViolations(c, read)
<1>1. RaisesPiping(c, read) \in BOOLEAN
  BY DEF RaisesPiping
<1>2. Answer(RaisesPiping(c, read), V).status = "passed"
  BY DEF VerifyPiping, JudgedPiping
<1>3. V = {}
  <2> HIDE DEF V, read
  <2> QED  BY <1>1, <1>2, PassedMeansNoViolation
<1>4. Misplaced = {}
  <2> HIDE DEF Misplaced
  <2> QED  BY <1>3
<1> HIDE DEF read
<1>5. \A i \in HostedItems(c, read) : Placed(c, read, i)
  BY <1>4
<1> HIDE DEF Misplaced
<1> QED  BY <1>3, <1>5 DEF read

\* What is read of a piping drawing with no fault in its reading: every entity, under an
\* id of its own that the contract has, on the layer and of the type it expects.
LEMMA PipingRead ==
    ASSUME NEW c, NEW hash, NEW d, NEW d0, Traced(d, d0), PipingReadingFaults(c, d, hash) = {}
    PROVE  /\ Len(d.entities) \in Nat /\ DOMAIN d.entities = 1..Len(d.entities)
           /\ \A i \in DOMAIN d.entities :
                LET e == d.entities[i]
                IN /\ TracedEntity(e, d0) /\ e.labelled /\ e.hash = hash
                   /\ e.id \in DOMAIN ExpectedPiping(c) /\ ExpectedPiping(c)[e.id] = <<e.layer, e.type>>
                   /\ e.layer \notin PipingAnnotations =>
                        Legible(e) /\ e.id \in DOMAIN ReadPiping(d) /\ ReadPiping(d)[e.id] = e
           /\ \A i, j \in DOMAIN d.entities : d.entities[i].id = d.entities[j].id => i = j
           /\ \A id \in DOMAIN ExpectedPiping(c) : \E i \in DOMAIN d.entities : d.entities[i].id = id
<1> DEFINE On(i) == d.entities[i]
           All == DOMAIN d.entities
           First == FirstSeenPiping(d)
<1>1. PICK S : d.entities \in Seq(S) /\ \A e \in S : TracedEntity(e, d0)
  BY DEF Traced
<1>2. Len(d.entities) \in Nat /\ All = 1..Len(d.entities) /\ \A i \in All : TracedEntity(On(i), d0)
  BY <1>1, LenProperties, ElementOfSeq
<1>3. ASSUME NEW i \in All
      PROVE  /\ On(i).layer \in PipingLayers /\ On(i).labelled /\ On(i).hash = hash /\ i \in First
             /\ On(i).id \in DOMAIN ExpectedPiping(c) /\ ExpectedPiping(c)[On(i).id] = <<On(i).layer, On(i).type>>
             /\ On(i).layer \notin PipingAnnotations => Legible(On(i))
  <2> DEFINE e == On(i)
             Met == IF e.id \notin DOMAIN ExpectedPiping(c) THEN {"UNEXPECTED"}
                    ELSE IF ExpectedPiping(c)[e.id] # <<e.layer, e.type>> THEN {"IDENTITY_MISMATCH"} ELSE {}
             Made == IF e.layer \in PipingAnnotations
                     THEN IF e.form = "text" THEN {} ELSE {"UNSUPPORTED"}
                     ELSE IF Legible(e) THEN {} ELSE {"GEOMETRY_INVALID"}
             Once == IF i \notin FirstSeenPiping(d) THEN {"ID_DUPLICATE"} ELSE Met \cup Made
             Codes == IF e.layer \notin PipingLayers THEN {"LAYER_INVALID"}
                      ELSE IF ~e.labelled THEN {"XDATA_MISSING"}
                      ELSE (IF e.hash # hash THEN {"HASH_MISMATCH"} ELSE {}) \cup Once
  <2>1. PipingEntityFaults(c, d, hash, i) = {}
    BY Zenon DEF PipingReadingFaults
  <2>2. PipingEntityFaults(c, d, hash, i) = {Violation(code, IF e.labelled THEN {e.id} ELSE {}, 0, FALSE) : code \in Codes}
    BY Zenon DEF PipingEntityFaults
  <2>3. Codes = {}
    <3> HIDE DEF Codes
    <3> QED  BY <2>1, <2>2
  <2> HIDE DEF Met, Made
  <2>4. e.layer \in PipingLayers /\ e.labelled /\ e.hash = hash /\ i \in First /\ Met = {} /\ Made = {}
    BY <2>3
  <2>5. e.id \in DOMAIN ExpectedPiping(c) /\ ExpectedPiping(c)[e.id] = <<e.layer, e.type>>
    BY <2>4 DEF Met
  <2>6. e.layer \notin PipingAnnotations => Legible(e)
    BY <2>4 DEF Made
  <2> QED  BY <2>4, <2>5, <2>6
<1>4. ApprovedPiping(d) = All
  BY <1>3 DEF ApprovedPiping
<1>5. ASSUME NEW i \in All, NEW j \in All, j < i, On(i).id = On(j).id PROVE FALSE
  <2>1. i \in First /\ On(j).labelled
    BY <1>3
  <2> QED  BY <1>4, <1>5, <2>1 DEF FirstSeenPiping
<1>6. ASSUME NEW i \in All, NEW j \in All, On(i).id = On(j).id PROVE i = j
  <2>1. i \in Nat /\ j \in Nat
    BY <1>2
  <2> QED  BY <1>5, <1>6, <2>1
<1>7. ASSUME NEW i \in All, On(i).layer \notin PipingAnnotations
      PROVE  On(i).id \in DOMAIN ReadPiping(d) /\ ReadPiping(d)[On(i).id] = On(i)
  <2> DEFINE Read == {j \in First : Legible(On(j))}
             Ids == {On(j).id : j \in Read}
  <2>1. i \in Read
    BY <1>3, <1>7
  <2>2. Read \subseteq All
    BY <1>4 DEF FirstSeenPiping
  <2>3. ReadPiping(d) = [id \in Ids |-> On(CHOOSE j \in Read : On(j).id = id)]
    BY Zenon DEF ReadPiping
  <2>4. On(i).id \in Ids
    BY <2>1
  <2>5. ReadPiping(d)[On(i).id] = On(CHOOSE j \in Read : On(j).id = On(i).id)
    <3> HIDE DEF Read, Ids
    <3> QED  BY <2>3, <2>4
  <2>6. (CHOOSE j \in Read : On(j).id = On(i).id) = i
    <3> HIDE DEF Read
    <3> QED  BY <1>6, <2>1, <2>2
  <2>7. DOMAIN ReadPiping(d) = Ids
    <3> HIDE DEF Read, Ids
    <3> QED  BY <2>3
  <2> HIDE DEF Read, Ids
  <2> QED  BY <2>4, <2>5, <2>6, <2>7
<1>8. ASSUME NEW id \in DOMAIN ExpectedPiping(c) PROVE \E i \in All : On(i).id = id
  <2> DEFINE Missing == DOMAIN ExpectedPiping(c) \ {On(i).id : i \in First}
  <2>1. MissingViolations(c, d) = {}
    BY DEF PipingReadingFaults
  <2>2. Missing = {}
    <3> HIDE DEF Missing
    <3>1. MissingViolations(c, d) = IF Missing = {} THEN {} ELSE {Violation("ENTITY_MISSING", Missing, 0, FALSE)}
      BY Zenon DEF MissingViolations, Missing
    <3> QED  BY <2>1, <3>1
  <2>3. First \subseteq All
    BY <1>4 DEF FirstSeenPiping
  <2> QED  BY <2>2, <2>3
<1> HIDE DEF First
<1> QED  BY <1>2, <1>3, <1>6, <1>7, <1>8
\* A contract expects its features on their layers.
LEMMA PipingExpected ==
    ASSUME NEW c, PipingContract(c), MetadataApart(c)
    PROVE  /\ PipingIds(c) \cup {"piping-metadata"} \subseteq DOMAIN ExpectedPiping(c)
           /\ \A s \in DOMAIN c.segments : ExpectedPiping(c)[s][1] = "P-PIPE"
           /\ \A n \in DOMAIN c.nodes : ExpectedPiping(c)[n][1] = "P-NODE"
           /\ \A i \in DOMAIN c.items : ExpectedPiping(c)[i][1] \in {"P-COMP", "P-SUPPORT"}
           /\ \A z \in DOMAIN c.zones : ExpectedPiping(c)[z][1] = "P-EQUIP"
<1>1. DOMAIN ExpectedPiping(c) = PipingIds(c) \cup (IF c.notes THEN NoteIds(c) ELSE {}) \cup {"piping-metadata"}
  BY DEF ExpectedPiping
<1>2. /\ DOMAIN c.nodes \cap (DOMAIN c.segments \cup DOMAIN c.items \cup DOMAIN c.zones) = {}
      /\ DOMAIN c.segments \cap (DOMAIN c.items \cup DOMAIN c.zones) = {} /\ DOMAIN c.items \cap DOMAIN c.zones = {}
      /\ NoteIds(c) \cap PipingIds(c) = {} /\ "piping-metadata" \notin PipingIds(c)
  BY DEF PipingContract, NoteIds, PipingIds, MetadataApart
<1>3. \A s \in DOMAIN c.segments : ExpectedPiping(c)[s] = <<"P-PIPE", "pipe_segment">>
  BY <1>1, <1>2 DEF ExpectedPiping, PipingIds
<1>4. \A n \in DOMAIN c.nodes : ExpectedPiping(c)[n] = <<"P-NODE", "piping_node">>
  BY <1>1, <1>2 DEF ExpectedPiping, PipingIds
<1>5. \A i \in DOMAIN c.items :
        ExpectedPiping(c)[i] = <<IF c.items[i].kind = "component" THEN "P-COMP" ELSE "P-SUPPORT", c.items[i].type>>
  BY <1>1, <1>2 DEF ExpectedPiping, PipingIds
<1>6. \A z \in DOMAIN c.zones : ExpectedPiping(c)[z] = <<"P-EQUIP", c.zones[z].type>>
  BY <1>1, <1>2 DEF ExpectedPiping, PipingIds
<1> QED  BY <1>1, <1>3, <1>4, <1>5, <1>6

\* The larger and the smaller of two numbers.
LEMMA PairExtremes ==
    ASSUME NEW x \in Int, NEW y \in Int
    PROVE  /\ Max({x, y}) \in {x, y} /\ x <= Max({x, y}) /\ y <= Max({x, y})
           /\ Min({x, y}) \in {x, y} /\ Min({x, y}) <= x /\ Min({x, y}) <= y
<1> DEFINE S == {x, y}
<1>1. S \in SUBSET Int /\ x \in S /\ y \in S
  OBVIOUS
<1>2. (\E m \in S : \A z \in S : z <= m) /\ (\E m \in S : \A z \in S : m <= z)
  <2>1. x <= y \/ y <= x
    OBVIOUS
  <2> QED  BY <2>1
<1>3. Max(S) \in S /\ (\A z \in S : z <= Max(S)) /\ Min(S) \in S /\ (\A z \in S : Min(S) <= z)
  <2> HIDE DEF S
  <2> QED  BY <1>1, <1>2, MaxIs, MinIs
<1> QED  BY <1>1, <1>3

\* A number that is not below zero, and one that is not above another.
LEMMA Clamped ==
    ASSUME NEW x \in Int, NEW y \in Int
    PROVE  /\ Max({0, x}) \in {0, x} /\ 0 <= Max({0, x}) /\ x <= Max({0, x})
           /\ Min({y, x}) \in {y, x} /\ Min({y, x}) <= y
<1> DEFINE z == 0
<1>1. z \in Int
  OBVIOUS
<1> HIDE DEF z
<1>2. Max({z, x}) \in {z, x} /\ z <= Max({z, x}) /\ x <= Max({z, x})
  BY <1>1, PairExtremes
<1>3. Min({y, x}) \in {y, x} /\ Min({y, x}) <= y
  BY PairExtremes
<1> QED  BY <1>2, <1>3 DEF z

\* The middle of a shape is a point.
LEMMA MidpointIs ==
    ASSUME NEW p \in Seq(Int \X Int), p # <<>>
    PROVE  Midpoint(p) \in Int \X Int
<1>1. Centre(p, 1) \in Int /\ Centre(p, 2) \in Int
  BY CentreIs
<1> QED  BY <1>1 DEF Midpoint

\* A route has a length.
LEMMA RouteIs ==
    ASSUME NEW p \in Seq(Int \X Int), p # <<>>
    PROVE  LongAxis(p) \in 1..2 /\ RouteLength(p) \in Nat
<1>1. LongAxis(p) \in 1..2
  BY DEF LongAxis
<1> DEFINE axis == LongAxis(p)
<1> HIDE DEF axis
<1>2. Low(p, axis) \in Int /\ High(p, axis) \in Int /\ Low(p, axis) <= High(p, axis)
  BY <1>1, LowHigh DEF axis
<1> QED  BY <1>1, <1>2 DEF axis, RouteLength, Extent

\* A point of a route has an offset on it.
LEMMA ProjectedIs ==
    ASSUME NEW p \in Seq(Int \X Int), p # <<>>, NEW at \in Int \X Int
    PROVE  Projected(p, at) \in 0..RouteLength(p)
<1> DEFINE axis == LongAxis(p)
           sign == IF p[1][axis] <= p[2][axis] THEN 1 ELSE -1
           way == sign * (at[axis] - p[1][axis])
           l == RouteLength(p)
<1>1. axis \in 1..2 /\ l \in Nat
  BY RouteIs
<1>2. p[1][axis] \in Int
  <2>1. 1 \in DOMAIN p
    BY LenProperties, EmptySeq
  <2> HIDE DEF axis
  <2> QED  BY <1>1, <2>1, LowHigh
<1>3. way \in Int
  <2>1. sign \in Int
    OBVIOUS
  <2>2. at[axis] \in Int
    BY <1>1
  <2>3. \A a \in Int, x \in Int, y \in Int : a * (x - y) \in Int
    OBVIOUS
  <2> HIDE DEF sign, axis
  <2> QED  BY <1>2, <2>1, <2>2, <2>3
<1>4. Projected(p, at) = Max({0, Min({l, way})})
  BY Zenon DEF Projected
<1> HIDE DEF axis, sign, way, l
<1>5. Min({l, way}) \in {l, way} /\ Min({l, way}) <= l
  <2>1. l \in Int /\ way \in Int
    BY <1>1, <1>3
  <2> QED  BY <2>1, Clamped
<1> DEFINE m == Min({l, way})
<1> HIDE DEF m
<1>6. m \in Int /\ m <= l
  BY <1>1, <1>3, <1>5 DEF m
<1>7. Max({0, m}) \in {0, m} /\ 0 <= Max({0, m})
  BY <1>6, Clamped
<1> QED  BY <1>1, <1>4, <1>6, <1>7 DEF m, l

\* Shapes are as far apart as there is a gap between them.
LEMMA ApartIs ==
    ASSUME NEW p \in Seq(Int \X Int), p # <<>>, NEW q \in Seq(Int \X Int), q # <<>>
    PROVE  Apart(p, q) \in Nat /\ Gap(p, q) \in Int /\ Gap(p, q) <= Apart(p, q) /\ Apart(p, q) \in {0, Gap(p, q)}
<1>1. Gap(p, q) \in Int
  BY GapIs
<1> DEFINE g == Gap(p, q)
<1> HIDE DEF g
<1>2. g \in Int
  BY <1>1 DEF g
<1>3. Max({0, g}) \in {0, g} /\ 0 <= Max({0, g}) /\ g <= Max({0, g})
  BY <1>2, Clamped
<1> QED  BY <1>2, <1>3 DEF g, Apart

\* A single point has no extent.
LEMMA PointIs ==
    ASSUME NEW p \in Int \X Int
    PROVE  /\ <<p>> \in Seq(Int \X Int) /\ <<p>> # <<>>
           /\ \A axis \in 1..2 : Low(<<p>>, axis) = p[axis] /\ High(<<p>>, axis) = p[axis]
<1> DEFINE q == <<p>>
<1>1. q \in Seq(Int \X Int) /\ q # <<>> /\ DOMAIN q = {1} /\ q[1] = p
  OBVIOUS
<1> HIDE DEF q
<1>2. \A axis \in 1..2 : Low(q, axis) = q[1][axis] /\ High(q, axis) = q[1][axis]
  BY <1>1, LowHigh
<1> QED  BY <1>1, <1>2 DEF q

\* A point that is near to a shape is near along both axes.
LEMMA NearIs ==
    ASSUME NEW p \in Seq(Int \X Int), p # <<>>, NEW q \in Seq(Int \X Int), q # <<>>, NEW r \in Int,
           Apart(p, q) <= r
    PROVE  CloserThan(p, q, r + 1)
<1> SUFFICES ASSUME NEW axis \in 1..2
             PROVE  Low(p, axis) - High(q, axis) < r + 1 /\ Low(q, axis) - High(p, axis) < r + 1
  BY DEF CloserThan
<1>1. /\ Low(p, axis) - High(q, axis) <= Gap(p, q) /\ Low(q, axis) - High(p, axis) <= Gap(p, q)
      /\ Gap(p, q) \in Int
  BY GapIs
<1>2. Apart(p, q) \in Nat /\ Gap(p, q) <= Apart(p, q)
  BY ApartIs
<1>3. /\ Low(p, axis) \in Int /\ High(p, axis) \in Int /\ Low(q, axis) \in Int /\ High(q, axis) \in Int
  BY LowHigh
<1> DEFINE a == Low(p, axis) b == High(q, axis) x == Low(q, axis) y == High(p, axis) g == Gap(p, q) m == Apart(p, q)
<1> HIDE DEF a, b, x, y, g, m
<1>4. a - b <= g /\ x - y <= g /\ g \in Int /\ m \in Nat /\ g <= m /\ m <= r
      /\ a \in Int /\ b \in Int /\ x \in Int /\ y \in Int
  BY <1>1, <1>2, <1>3 DEF a, b, x, y, g, m
<1>5. a - b < r + 1 /\ x - y < r + 1
  BY <1>4
<1> QED  BY <1>5 DEF a, b, x, y

\* Two points that are near.
LEMMA NearPoints ==
    ASSUME NEW p \in Int \X Int, NEW q \in Int \X Int, NEW r \in Int, Apart(<<p>>, <<q>>) <= r
    PROVE  \A axis \in 1..2 : Abs(p[axis] - q[axis]) <= r /\ Abs(q[axis] - p[axis]) <= r
<1>1. CloserThan(<<p>>, <<q>>, r + 1)
  <2>1. <<p>> \in Seq(Int \X Int) /\ <<p>> # <<>> /\ <<q>> \in Seq(Int \X Int) /\ <<q>> # <<>>
    BY PointIs
  <2> QED  BY <2>1, NearIs
<1>2. ASSUME NEW axis \in 1..2 PROVE p[axis] - q[axis] < r + 1 /\ q[axis] - p[axis] < r + 1
  BY <1>1, PointIs DEF CloserThan
<1>3. ASSUME NEW axis \in 1..2 PROVE p[axis] \in Int /\ q[axis] \in Int
  OBVIOUS
<1> QED  BY <1>2, <1>3 DEF Abs

\* A bound is that of a constraint, or the default.
LEMMA BoundIs ==
    ASSUME NEW c, PipingContract(c), NEW type, NEW default \in Int
    PROVE  /\ Bound(c, type, default) \in Int
           /\ (\E i \in DOMAIN c.constraints : c.constraints[i].type = type) =>
                 \E i \in DOMAIN c.constraints :
                   c.constraints[i].type = type /\ Bound(c, type, default) = c.constraints[i].value
<1> DEFINE Bounding == {i \in DOMAIN c.constraints : c.constraints[i].type = type}
<1>1. Bound(c, type, default) = IF Bounding = {} THEN default ELSE c.constraints[Min(Bounding)].value
  BY Zenon DEF Bound
<1>2. \A i \in DOMAIN c.constraints : i \in Nat /\ c.constraints[i].value \in Int
  BY DEF PipingContract, Numbers
<1>3. CASE Bounding = {}
  BY <1>1, <1>3
<1>4. CASE Bounding # {}
  <2>1. Bounding \in SUBSET Nat
    BY <1>2
  <2>2. Min(Bounding) \in Bounding
    <3> HIDE DEF Bounding
    <3>1. \E x \in Bounding : \A y \in Bounding : x <= y
      BY <1>4, <2>1, LeastExists
    <3> QED  BY <2>1, <3>1, MinIs
  <2> QED  BY <1>1, <1>2, <1>4, <2>2
<1> QED  BY <1>3, <1>4
\* The entity of a drawing that has an id.
EntityOf(d, id) == d.entities[CHOOSE i \in DOMAIN d.entities : d.entities[i].id = id]

\* What was read has every feature of a contract, with points.
Whole(c, read) ==
    /\ \A id \in PipingIds(c) :
         id \in DOMAIN read /\ read[id].width \in Int /\ read[id].points \in Seq(Int \X Int) /\ read[id].points # <<>>
    /\ Pipes(c, read) = DOMAIN c.segments /\ HostedItems(c, read) = DOMAIN c.items
    /\ \A s \in DOMAIN c.segments :
         HasLine(read, s) /\ read[s].points[1] \in Int \X Int /\ read[s].points[2] \in Int \X Int
    /\ \A i \in DOMAIN c.items : read[i].layer \in {"P-COMP", "P-SUPPORT"}

\* What is measured of a drawing with no fault in its reading is the file: every feature is
\* read, and read where it is.
LEMMA PipingMeasured ==
    ASSUME NEW c, PipingContract(c), MetadataApart(c), NEW hash, NEW d, NEW d0, Traced(d, d0), PipingReadingFaults(c, d, hash) = {}
    PROVE  /\ Whole(c, ReadPiping(d)) /\ \A id \in PipingIds(c) : ReadPiping(d)[id] = EntityOf(d, id)
           /\ ~RaisesPiping(c, ReadPiping(d))
<1> DEFINE read == ReadPiping(d)
           On(i) == d.entities[i]
           All == DOMAIN d.entities
           One(id) == CHOOSE i \in All : On(i).id = id
<1>0. /\ \A i \in All :
                LET e == d.entities[i]
                IN /\ TracedEntity(e, d0) /\ e.labelled /\ e.hash = hash
                   /\ e.id \in DOMAIN ExpectedPiping(c) /\ ExpectedPiping(c)[e.id] = <<e.layer, e.type>>
                   /\ e.layer \notin PipingAnnotations =>
                        Legible(e) /\ e.id \in DOMAIN ReadPiping(d) /\ ReadPiping(d)[e.id] = e
      /\ \A id \in DOMAIN ExpectedPiping(c) : \E i \in All : On(i).id = id
  BY PipingRead
<1>1. ASSUME NEW id \in PipingIds(c)
      PROVE  /\ id \in DOMAIN read /\ read[id] = EntityOf(d, id) /\ Legible(read[id]) /\ IsEntity(read[id])
             /\ read[id].layer = ExpectedPiping(c)[id][1]
  <2>1. id \in DOMAIN ExpectedPiping(c)
    BY PipingExpected
  <2>2. \E i \in All : On(i).id = id
    BY <1>0, <2>1
  <2>3. One(id) \in All /\ On(One(id)).id = id
    BY <2>2
  <2> DEFINE k == One(id)
  <2>4. On(k) = EntityOf(d, id)
    BY DEF EntityOf
  <2> HIDE DEF k, read
  <2>5. k \in All /\ On(k).id = id
    BY <2>3 DEF k
  <2>6. ExpectedPiping(c)[id] = <<On(k).layer, On(k).type>> /\ IsEntity(On(k))
    BY <1>0, <2>5 DEF TracedEntity
  <2>7. ExpectedPiping(c)[id][1] = On(k).layer
    BY <2>6
  <2>8. ExpectedPiping(c)[id][1] \in {"P-PIPE", "P-NODE", "P-COMP", "P-SUPPORT", "P-EQUIP"}
    BY PipingExpected DEF PipingIds
  <2>9. On(k).layer \notin PipingAnnotations
    BY <2>7, <2>8 DEF PipingAnnotations
  <2>10. Legible(On(k)) /\ id \in DOMAIN read /\ read[id] = On(k)
    BY <1>0, <2>5, <2>9 DEF read
  <2> QED  BY <2>4, <2>6, <2>7, <2>10
<1>2. \A id \in PipingIds(c) :
        /\ id \in DOMAIN read /\ read[id] = EntityOf(d, id) /\ read[id].width \in Int
        /\ read[id].points \in Seq(Int \X Int) /\ read[id].points # <<>>
  BY <1>1 DEF IsEntity
<1>3. ASSUME NEW s \in DOMAIN c.segments
      PROVE  HasLine(read, s) /\ read[s].points[1] \in Int \X Int /\ read[s].points[2] \in Int \X Int
  <2>1. s \in PipingIds(c) /\ ExpectedPiping(c)[s][1] = "P-PIPE"
    BY PipingExpected DEF PipingIds
  <2>2. s \in DOMAIN read /\ read[s].layer = "P-PIPE" /\ Legible(read[s])
    BY <1>1, <2>1
  <2>3. Len(read[s].points) = 2
    BY <2>2 DEF Legible
  <2>4. read[s].points \in Seq(Int \X Int)
    BY <1>2, <2>1
  <2> DEFINE p == read[s].points
  <2> HIDE DEF p
  <2>5. p[1] \in Int \X Int /\ p[2] \in Int \X Int
    BY <2>3, <2>4, LenProperties, ElementOfSeq DEF p
  <2> QED  BY <2>2, <2>5 DEF HasLine, p
<1>4. Pipes(c, read) = DOMAIN c.segments
  <2> HIDE DEF read
  <2> QED  BY <1>3 DEF Pipes
<1>5. HostedItems(c, read) = DOMAIN c.items
  <2>1. \A i \in DOMAIN c.items : c.items[i].segment \in DOMAIN c.segments
    BY DEF PipingContract
  <2>2. \A i \in DOMAIN c.items : i \in DOMAIN read /\ HasLine(read, c.items[i].segment)
    BY <1>1, <1>3, <2>1 DEF PipingIds
  <2> HIDE DEF read
  <2> QED  BY <2>2 DEF HostedItems
<1>6. \A i \in DOMAIN c.items : read[i].layer \in {"P-COMP", "P-SUPPORT"}
  BY <1>1, PipingExpected DEF PipingIds
<1>7. /\ \A n \in DOMAIN c.nodes : read[n].layer = "P-NODE"
      /\ \A s \in DOMAIN c.segments : read[s].layer = "P-PIPE"
  BY <1>1, PipingExpected DEF PipingIds
<1> HIDE DEF read
<1>8. ~RaisesPiping(c, read)
  BY <1>6, <1>7 DEF RaisesPiping
<1> QED  BY <1>2, <1>3, <1>4, <1>5, <1>6, <1>8 DEF Whole, read

\* A drawing with no fault in its reading has what is expected, once.
LEMMA PipingComplete ==
    ASSUME NEW c, PipingContract(c), NEW hash, NEW d, NEW d0, Traced(d, d0), PipingReadingFaults(c, d, hash) = {}
    PROVE  /\ \A i \in DOMAIN d.entities : d.entities[i].labelled /\ d.entities[i].hash = hash
           /\ {<<d.entities[i].id, d.entities[i].layer, d.entities[i].type>> : i \in DOMAIN d.entities}
                = {<<id, ExpectedPiping(c)[id][1], ExpectedPiping(c)[id][2]>> : id \in DOMAIN ExpectedPiping(c)}
           /\ Len(d.entities) = Cardinality(DOMAIN ExpectedPiping(c))
<1> DEFINE On(i) == d.entities[i]
           All == DOMAIN d.entities
           Ids == DOMAIN ExpectedPiping(c)
           X(id) == ExpectedPiping(c)[id]
<1>1. /\ Len(d.entities) \in Nat /\ All = 1..Len(d.entities)
      /\ \A i \in All : /\ On(i).labelled /\ On(i).hash = hash
                        /\ On(i).id \in Ids /\ X(On(i).id) = <<On(i).layer, On(i).type>>
      /\ \A i, j \in All : On(i).id = On(j).id => i = j
      /\ \A id \in Ids : \E i \in All : On(i).id = id
  BY PipingRead
<1> HIDE DEF Ids, X
<1>2. {<<On(i).id, On(i).layer, On(i).type>> : i \in All} = {<<id, X(id)[1], X(id)[2]>> : id \in Ids}
  <2>1. \A i \in All : On(i).layer = X(On(i).id)[1] /\ On(i).type = X(On(i).id)[2] /\ On(i).id \in Ids
    BY <1>1
  <2>2. \A id \in Ids : \E i \in All : On(i).id = id
    BY <1>1
  <2> QED  BY <2>1, <2>2
<1>3. Len(d.entities) = Cardinality(Ids)
  <2> DEFINE n == Len(d.entities)
             f == [i \in 1..n |-> On(i).id]
  <2> HIDE DEF n
  <2>1. n \in Nat /\ All = 1..n
    BY <1>1 DEF n
  <2>2. f \in Bijection(1..n, Ids)
    <3>1. f \in [1..n -> Ids]
      BY <1>1, <2>1
    <3>2. \A i, j \in 1..n : f[i] = f[j] => i = j
      BY <1>1, <2>1
    <3>3. \A id \in Ids : \E i \in 1..n : f[i] = id
      BY <1>1, <2>1
    <3> HIDE DEF f
    <3> QED  BY <3>1, <3>2, <3>3 DEF Bijection, Injection, Surjection, IsInjective
  <2>3. IsFiniteSet(1..n) /\ Cardinality(1..n) = n
    BY <2>1, CountTo
  <2> HIDE DEF f
  <2>4. Cardinality(Ids) = n
    <3>1. ExistsBijection(1..n, Ids)
      BY <2>2 DEF ExistsBijection
    <3> QED  BY <2>3, <3>1, FS_Bijection
  <2> QED  BY <2>4 DEF n
<1> QED  BY <1>1, <1>2, <1>3 DEF Ids, X
\* The steps between neighbours.
Steps(Stops) == {p[2] - p[1] : p \in {q \in Stops \X Stops :
                   q[1] < q[2] /\ ~\E z \in Stops : q[1] < z /\ z < q[2]}}

\* Where no step is wide, the next stop is near from everywhere.
LEMMA NextIsNear ==
    ASSUME NEW l \in Nat, NEW Stops \in SUBSET (0..l), 0 \in Stops, l \in Stops, NEW b \in Int, 0 <= b,
           ~(Max(Steps(Stops)) > b), NEW o \in 0..l
    PROVE  \E stop \in Stops : o <= stop /\ stop - o <= b
<1> DEFINE Later == {x \in Stops : o <= x}
           Before == {x \in Stops : x < o}
<1>1. Later \in SUBSET Nat /\ l \in Later /\ o \in Nat
  <2>1. \A x \in Stops : x \in Nat
    OBVIOUS
  <2>2. o \in Nat /\ o <= l
    OBVIOUS
  <2> QED  BY <2>1, <2>2
<1>2. PICK t \in Later : \A x \in Later : t <= x
  <2> HIDE DEF Later
  <2> QED  BY <1>1, LeastExists
<1>3. CASE t = o
  BY <1>2, <1>3
<1>4. CASE t # o
  <2>1. t \in Stops /\ o < t /\ t \in Nat /\ o <= t
    BY <1>1, <1>2, <1>4
  <2>2. 0 \in Before
    BY <1>1, <1>2, <1>4
  <2>3. Before \in SUBSET (0..l)
    OBVIOUS
  <2>4. PICK u \in Before : \A x \in Before : x <= u
    <3> HIDE DEF Before
    <3> QED  BY <2>2, <2>3, LargestExists
  <2>5. u \in Stops /\ u < o /\ u \in Nat
    BY <2>3, <2>4
  <2>6. ~\E z \in Stops : u < z /\ z < t
    <3> SUFFICES ASSUME NEW z \in Stops, u < z, z < t PROVE FALSE
      OBVIOUS
    <3>1. z \in Nat
      OBVIOUS
    <3>2. z \notin Later
      BY <1>2, <2>1, <3>1
    <3>3. z \in Before
      BY <1>1, <3>1, <3>2
    <3> QED  BY <2>4, <2>5, <3>1, <3>3
  <2>7. t - u \in Steps(Stops)
    <3>1. <<u, t>> \in {q \in Stops \X Stops : q[1] < q[2] /\ ~\E z \in Stops : q[1] < z /\ z < q[2]}
      BY <1>1, <2>1, <2>5, <2>6
    <3> QED  BY <3>1 DEF Steps
  <2>8. Steps(Stops) \in SUBSET (0..l)
    <3> SUFFICES ASSUME NEW p \in Stops \X Stops, p[1] < p[2] PROVE p[2] - p[1] \in 0..l
      BY DEF Steps
    <3>1. p[1] \in 0..l /\ p[2] \in 0..l
      OBVIOUS
    <3> QED  BY <3>1
  <2>9. Max(Steps(Stops)) \in Int /\ \A y \in Steps(Stops) : y <= Max(Steps(Stops))
    <3> DEFINE D == Steps(Stops)
    <3> HIDE DEF D
    <3>1. D \in SUBSET (0..l) /\ D # {}
      BY <2>7, <2>8 DEF D
    <3>2. \E x \in D : \A y \in D : y <= x
      BY <3>1, LargestExists
    <3>3. D \in SUBSET Int
      BY <3>1
    <3>4. Max(D) \in D /\ \A y \in D : y <= Max(D)
      BY <3>2, <3>3, MaxIs
    <3> QED  BY <3>3, <3>4 DEF D
  <2>10. t - u <= b
    <3>1. t - u <= Max(Steps(Stops)) /\ Max(Steps(Stops)) \in Int
      BY <2>7, <2>9
    <3>2. t - u \in Int
      BY <2>1, <2>5
    <3> QED  BY <3>1, <3>2
  <2> QED  BY <1>1, <2>1, <2>5, <2>10
<1> QED  BY <1>3, <1>4
\* Points are together as far as the alignment of ends is bounded.
Meet(c, p, q) == \A axis \in 1..2 : Abs(p[axis] - q[axis]) <= Bound(c, "endpoint_alignment", Epsilon) + Epsilon

\* Routes without fault end at their nodes, run along an axis, and are one network.
LEMMA RoutesHold ==
    ASSUME NEW c, PipingContract(c), NEW read, Whole(c, read), RouteViolations(c, read) = {}
    PROVE  /\ \A s \in DOMAIN c.segments :
                /\ Meet(c, read[s].points[1], Midpoint(read[c.segments[s].from].points))
                /\ Meet(c, read[s].points[2], Midpoint(read[c.segments[s].to].points))
                /\ \E axis \in 1..2 : Extent(read[s].points, axis) <= Bound(c, "orthogonal", Epsilon) + Epsilon
           /\ \A S \in SUBSET DOMAIN c.segments : S # {} /\ S # DOMAIN c.segments =>
                \E s \in S, t \in DOMAIN c.segments \ S, j, k \in 1..2 :
                  Meet(c, read[s].points[j], read[t].points[k])
<1> DEFINE Reach == Bound(c, "endpoint_alignment", Epsilon) + Epsilon
           Skew == Bound(c, "orthogonal", Epsilon) + Epsilon
           Touch(p, q) == Apart(<<p>>, <<q>>) <= Reach
           At(n, p) == n \in DOMAIN read /\ Touch(Midpoint(read[n].points), p)
           Tips(s) == {read[s].points[1], read[s].points[2]}
           Misaligned(s) ==
               \/ read[s].refs # <<c.segments[s].from, c.segments[s].to>>
               \/ ~At(c.segments[s].from, read[s].points[1])
               \/ ~At(c.segments[s].to, read[s].points[2])
           Joined(s, t) == \E p \in Tips(s), q \in Tips(t) : Touch(p, q)
           Isolated == {n \in DOMAIN c.nodes \cap DOMAIN read :
                          ~\E s \in Pipes(c, read) : \E p \in Tips(s) : At(n, p)}
           Parts == {S \in SUBSET Pipes(c, read) :
                       S # {} /\ S # Pipes(c, read) /\ ~\E s \in S, t \in Pipes(c, read) \ S : Joined(s, t)}
           Least(s) == Min({Extent(read[s].points, axis) : axis \in 1..2})
           Loose == {Violation("ENDPOINT_MISALIGNED", {s}, 0, FALSE) : s \in {x \in Pipes(c, read) : Misaligned(x)}}
           Slanted == {Violation("NON_ORTHOGONAL", {s}, 0, FALSE) : s \in {x \in Pipes(c, read) : Least(x) > Skew}}
           Split == IF Parts = {} /\ Isolated = {} THEN {}
                    ELSE {Violation("DISCONNECTED", Pipes(c, read) \cup Isolated, 0, FALSE)}
<1>1. Loose = {} /\ Slanted = {} /\ Split = {}
  <2>1. RouteViolations(c, read) = Loose \cup Slanted \cup Split
    BY Zenon DEF RouteViolations
  <2> HIDE DEF Loose, Slanted, Split
  <2> QED  BY <2>1
<1>2. \A s \in DOMAIN c.segments : ~Misaligned(s)
  <2> HIDE DEF Misaligned
  <2>1. ASSUME NEW s \in Pipes(c, read), Misaligned(s) PROVE FALSE
    <3>1. Violation("ENDPOINT_MISALIGNED", {s}, 0, FALSE) \in Loose
      BY <2>1
    <3> QED  BY <1>1, <3>1
  <2> QED  BY <2>1 DEF Whole
<1>3. \A s \in DOMAIN c.segments : ~(Least(s) > Skew)
  <2> HIDE DEF Least, Skew
  <2>1. ASSUME NEW s \in Pipes(c, read), Least(s) > Skew PROVE FALSE
    <3>1. Violation("NON_ORTHOGONAL", {s}, 0, FALSE) \in Slanted
      BY <2>1
    <3> QED  BY <1>1, <3>1
  <2> QED  BY <2>1 DEF Whole
<1>4. Parts = {}
  <2> HIDE DEF Parts, Isolated
  <2> QED  BY <1>1
<1> HIDE DEF Loose, Slanted, Split, Parts, Isolated
<1>5. Reach \in Int /\ Skew \in Int
  <2>1. Epsilon \in Int
    BY DEF Epsilon
  <2>2. Bound(c, "endpoint_alignment", Epsilon) \in Int /\ Bound(c, "orthogonal", Epsilon) \in Int
    BY <2>1, BoundIs
  <2> QED  BY <2>1, <2>2
<1>6. ASSUME NEW p \in Int \X Int, NEW q \in Int \X Int, Touch(p, q) PROVE Meet(c, p, q) /\ Meet(c, q, p)
  <2> HIDE DEF Reach
  <2>1. \A axis \in 1..2 : Abs(p[axis] - q[axis]) <= Reach /\ Abs(q[axis] - p[axis]) <= Reach
    BY <1>5, <1>6, NearPoints
  <2> QED  BY <2>1 DEF Meet, Reach
<1> HIDE DEF Touch
<1>7. ASSUME NEW s \in DOMAIN c.segments
      PROVE  /\ Meet(c, read[s].points[1], Midpoint(read[c.segments[s].from].points))
             /\ Meet(c, read[s].points[2], Midpoint(read[c.segments[s].to].points))
             /\ \E axis \in 1..2 : Extent(read[s].points, axis) <= Skew
  <2> DEFINE from == c.segments[s].from
             to == c.segments[s].to
  <2>1. from \in PipingIds(c) /\ to \in PipingIds(c) /\ s \in PipingIds(c)
    BY DEF PipingContract, PipingIds
  <2> HIDE DEF from, to
  <2>2. /\ Touch(Midpoint(read[from].points), read[s].points[1])
        /\ Touch(Midpoint(read[to].points), read[s].points[2])
    BY <1>2 DEF from, to
  <2>3. Midpoint(read[from].points) \in Int \X Int /\ Midpoint(read[to].points) \in Int \X Int
    BY <2>1, MidpointIs DEF Whole
  <2>4. read[s].points[1] \in Int \X Int /\ read[s].points[2] \in Int \X Int
    BY DEF Whole
  <2>5. \E axis \in 1..2 : Extent(read[s].points, axis) <= Skew
    <3> DEFINE p == read[s].points
               e(axis) == Extent(p, axis)
    <3>1. p \in Seq(Int \X Int) /\ p # <<>>
      BY <2>1 DEF Whole
    <3>2. e(1) \in Int /\ e(2) \in Int
      <4> HIDE DEF p
      <4>1. \A axis \in 1..2 : Low(p, axis) \in Int /\ High(p, axis) \in Int
        BY <3>1, LowHigh
      <4>2. \A a \in Int, b \in Int : a - b \in Int
        OBVIOUS
      <4> QED  BY <4>1, <4>2 DEF Extent
    <3>3. Least(s) = Min({e(1), e(2)})
      <4>1. {e(axis) : axis \in 1..2} = {e(1), e(2)}
        <5> HIDE DEF e
        <5> QED  OBVIOUS
      <4> QED  BY <4>1
    <3> HIDE DEF e, Least
    <3>4. Min({e(1), e(2)}) \in {e(1), e(2)}
      BY <3>2, PairExtremes
    <3>5. Least(s) <= Skew
      <4>1. Least(s) \in Int
        BY <3>2, <3>3, <3>4
      <4> HIDE DEF Skew
      <4> QED  BY <1>3, <1>5, <4>1
    <3>6. e(1) <= Skew \/ e(2) <= Skew
      BY <3>3, <3>4, <3>5
    <3> QED  BY <3>6 DEF e
  <2> QED  BY <1>6, <2>2, <2>3, <2>4, <2>5 DEF from, to
<1>8. ASSUME NEW S \in SUBSET DOMAIN c.segments, S # {}, S # DOMAIN c.segments
      PROVE  \E s \in S, t \in DOMAIN c.segments \ S, j, k \in 1..2 : Meet(c, read[s].points[j], read[t].points[k])
  <2>1. Pipes(c, read) = DOMAIN c.segments
    BY DEF Whole
  <2>2. S \notin Parts
    BY <1>4
  <2>3. PICK s \in S, t \in DOMAIN c.segments \ S : Joined(s, t)
    <3> HIDE DEF Joined
    <3> QED  BY <1>8, <2>1, <2>2 DEF Parts
  <2>4. PICK j \in 1..2, k \in 1..2 : Touch(read[s].points[j], read[t].points[k])
    BY <2>3
  <2>5. s \in DOMAIN c.segments /\ t \in DOMAIN c.segments
    OBVIOUS
  <2>6. read[s].points[j] \in Int \X Int /\ read[t].points[k] \in Int \X Int
    BY <2>5 DEF Whole
  <2> QED  BY <1>6, <2>4, <2>6
<1> QED  BY <1>7, <1>8
\* Equipment without fault has its clearance.
LEMMA ClearanceHolds ==
    ASSUME NEW c, PipingContract(c), NEW read, Whole(c, read), ClearanceViolations(c, read) = {},
           NEW s \in DOMAIN c.segments, NEW z \in DOMAIN c.zones, NEW m \in Int,
           m = Max({Bound(c, "minimum_obstacle_clearance", 0), c.zones[z].clearance}) + read[s].width \div 2 - Epsilon,
           m > 0
    PROVE  ~CloserThan(read[s].points, read[z].points, m)
<1> DEFINE p == read[s].points
           q == read[z].points
           Asked(x) == Max({Bound(c, "minimum_obstacle_clearance", 0), c.zones[x].clearance})
           Clearance(t, x) == Apart(read[t].points, read[x].points) - read[t].width \div 2
           Tight(t, x) == Clearance(t, x) + Epsilon < Asked(x)
<1>1. s \in PipingIds(c) /\ z \in PipingIds(c)
  BY DEF PipingIds
<1>2. /\ p \in Seq(Int \X Int) /\ p # <<>> /\ q \in Seq(Int \X Int) /\ q # <<>>
      /\ read[s].width \in Int /\ z \in DOMAIN read /\ s \in Pipes(c, read)
  BY <1>1 DEF Whole
<1>3. ~Tight(s, z)
  <2> SUFFICES ASSUME Tight(s, z) PROVE FALSE
    OBVIOUS
  <2> DEFINE Hit == {x \in Pipes(c, read) \X (DOMAIN c.zones \cap DOMAIN read) : Tight(x[1], x[2])}
  <2>1. ClearanceViolations(c, read) = {Violation("CLEARANCE", {x[1], x[2]}, 0, FALSE) : x \in Hit}
    BY Zenon DEF ClearanceViolations
  <2>2. <<s, z>> \in Hit
    <3> HIDE DEF Tight
    <3> QED  BY <1>2
  <2> HIDE DEF Hit
  <2> QED  BY <2>1, <2>2
<1> DEFINE asked == Asked(z)
           half == read[s].width \div 2
           far == Apart(p, q)
           g == Gap(p, q)
<1>4. asked \in Int /\ half \in Int /\ far \in Nat /\ g \in Int /\ far \in {0, g}
  <2>1. asked \in Int
    <3>1. Bound(c, "minimum_obstacle_clearance", 0) \in Int
      BY BoundIs
    <3>2. c.zones[z].clearance \in Int
      BY DEF PipingContract, Numbers
    <3> DEFINE x == Bound(c, "minimum_obstacle_clearance", 0)
               y == c.zones[z].clearance
    <3>3. x \in Int /\ y \in Int
      BY <3>1, <3>2
    <3> HIDE DEF x, y
    <3>4. Max({x, y}) \in Int
      BY <3>3, PairExtremes
    <3> QED  BY <3>4 DEF x, y
  <2>2. half \in Int
    <3>1. \A w \in Int : w \div 2 \in Int
      OBVIOUS
    <3> QED  BY <1>2, <3>1
  <2>3. far \in Nat /\ g \in Int /\ far \in {0, g}
    <3> HIDE DEF p, q
    <3> QED  BY <1>2, ApartIs
  <2> QED  BY <2>1, <2>2, <2>3
<1>5. ~(far - half + Epsilon < asked) /\ m = asked + half - Epsilon
  BY <1>3
<1> HIDE DEF asked, half, far, g
<1>6. g >= m
  BY <1>4, <1>5 DEF Epsilon
<1> HIDE DEF p, q
<1>7. PICK axis \in 1..2 : g \in {Low(p, axis) - High(q, axis), Low(q, axis) - High(p, axis)}
  BY <1>2, GapIs DEF g
<1>8. ~CloserThan(p, q, m)
  <2> SUFFICES ASSUME CloserThan(p, q, m) PROVE FALSE
    OBVIOUS
  <2>1. Low(p, axis) - High(q, axis) < m /\ Low(q, axis) - High(p, axis) < m
    BY DEF CloserThan
  <2>2. g < m
    BY <1>7, <2>1
  <2> QED  BY <1>4, <1>6, <2>2
<1> QED  BY <1>8 DEF p, q

\* How far an item may be from where it is said to be.
Allowance(c, i) ==
    Bound(c, IF c.items[i].kind = "component" THEN "inline_component_position" ELSE "endpoint_alignment", Epsilon) + Epsilon

\* An item in place is on its segment where the contract says.
LEMMA ItemHolds ==
    ASSUME NEW c, PipingContract(c), NEW read, Whole(c, read), NEW i \in DOMAIN c.items, Placed(c, read, i)
    PROVE  /\ read[i].refs = <<c.items[i].segment>>
           /\ CloserThan(read[c.items[i].segment].points, <<Midpoint(read[i].points)>>, Allowance(c, i) + 1)
           /\ Abs(Projected(read[c.items[i].segment].points, Midpoint(read[i].points)) - c.items[i].offset) <= Allowance(c, i)
<1> DEFINE line == read[c.items[i].segment].points
           at == Midpoint(read[i].points)
           r == Allowance(c, i)
<1>1. /\ read[i].refs = <<c.items[i].segment>> /\ Apart(line, <<at>>) <= r
      /\ Abs(Projected(line, at) - c.items[i].offset) <= r
  BY DEF Placed, Allowance
<1>2. c.items[i].segment \in PipingIds(c) /\ i \in PipingIds(c)
  BY DEF PipingContract, PipingIds
<1>3. line \in Seq(Int \X Int) /\ line # <<>> /\ at \in Int \X Int
  BY <1>2, MidpointIs DEF Whole
<1>4. r \in Int
  <2> DEFINE type == IF c.items[i].kind = "component" THEN "inline_component_position" ELSE "endpoint_alignment"
  <2>1. Epsilon \in Int
    BY DEF Epsilon
  <2> HIDE DEF type
  <2>2. Bound(c, type, Epsilon) \in Int
    BY <2>1, BoundIs
  <2> QED  BY <2>1, <2>2 DEF Allowance, type
<1> DEFINE one == <<at>>
<1>5. one \in Seq(Int \X Int) /\ one # <<>>
  <2> HIDE DEF at
  <2> QED  BY <1>3, PointIs
<1> HIDE DEF line, at, r
<1>6. CloserThan(line, one, r + 1)
  <2>1. Apart(line, one) <= r
    BY <1>1
  <2> HIDE DEF one
  <2> QED  BY <1>3, <1>4, <1>5, <2>1, NearIs
<1> QED  BY <1>1, <1>6 DEF line, at, r

\* From everywhere on a segment without fault the next stop is near.
LEMMA SpacingHolds ==
    ASSUME NEW c, PipingContract(c), NEW read, Whole(c, read), SpacingViolations(c, read) = {},
           \A i \in DOMAIN c.items : Placed(c, read, i),
           \E i \in DOMAIN c.constraints : c.constraints[i].type = "maximum_support_spacing",
           Bound(c, "maximum_support_spacing", 0) >= 0,
           NEW s \in DOMAIN c.segments, NEW o \in 0..RouteLength(read[s].points)
    PROVE  \E stop \in {0, RouteLength(read[s].points)} \cup
                       {Projected(read[s].points, Midpoint(read[h].points)) :
                          h \in {i \in DOMAIN c.items : c.items[i].kind = "support" /\ c.items[i].segment = s}} :
              o <= stop /\ stop - o <= Bound(c, "maximum_support_spacing", 0) + Epsilon
<1> DEFINE line == read[s].points
           l == RouteLength(line)
           On == {i \in DOMAIN c.items : c.items[i].kind = "support" /\ c.items[i].segment = s}
           In == {j \in HostedItems(c, read) : /\ c.items[j].kind = "support"
                                               /\ c.items[j].segment = s /\ Placed(c, read, j)}
           Stops(T) == {0, l} \cup {Projected(line, Midpoint(read[h].points)) : h \in T}
           b == Bound(c, "maximum_support_spacing", 0) + Epsilon
<1>1. line \in Seq(Int \X Int) /\ line # <<>> /\ s \in Pipes(c, read)
  BY DEF Whole, PipingIds
<1>2. In = On
  BY DEF Whole
<1>3. l \in Nat
  <2> HIDE DEF line
  <2> QED  BY <1>1, RouteIs
<1>4. b \in Int /\ 0 <= b
  <2>1. Bound(c, "maximum_support_spacing", 0) \in Int
    BY BoundIs
  <2> QED  BY <2>1 DEF Epsilon
<1>5. Stops(On) \in SUBSET (0..l) /\ 0 \in Stops(On) /\ l \in Stops(On)
  <2>1. ASSUME NEW h \in On PROVE Projected(line, Midpoint(read[h].points)) \in 0..l
    <3>1. Midpoint(read[h].points) \in Int \X Int
      BY MidpointIs DEF Whole, PipingIds
    <3> HIDE DEF line
    <3> QED  BY <1>1, <3>1, ProjectedIs
  <2>2. 0 \in 0..l /\ l \in 0..l
    <3> HIDE DEF l
    <3> QED  BY <1>3
  <2> HIDE DEF On, l
  <2> QED  BY <2>1, <2>2
<1>6. ~(WidestGap(c, read, s) > b)
  <2> SUFFICES ASSUME WidestGap(c, read, s) > b PROVE FALSE
    OBVIOUS
  <2>1. Violation("SPACING", {s}, 0, FALSE) \in SpacingViolations(c, read)
    BY <1>1 DEF SpacingViolations
  <2> QED  BY <2>1
<1>7. WidestGap(c, read, s) = Max(Steps(Stops(In)))
  BY Zenon DEF WidestGap, Steps
<1> HIDE DEF l, b, In, On, Stops
<1>8. ~(Max(Steps(Stops(On))) > b)
  BY <1>2, <1>6, <1>7
<1> DEFINE T == Stops(On)
<1> HIDE DEF T
<1>9. \E stop \in T : o <= stop /\ stop - o <= b
  <2>1. T \in SUBSET (0..l) /\ 0 \in T /\ l \in T /\ ~(Max(Steps(T)) > b) /\ o \in 0..l
    BY SMTT(30), <1>5, <1>8 DEF T, l
  <2> QED  BY <1>3, <1>4, <2>1, NextIsNear
<1> QED  BY <1>9 DEF T, Stops, On, l, b
\* What a dimension of a contract that is ready names is there to be measured, and it holds.
LEMMA DimensionHolds ==
    ASSUME NEW c, PipingContract(c), NEW read, Whole(c, read), PipingDimensionFaults(c, read) = {},
           NEW n \in DOMAIN c.dimensions, NEW path, path = c.dimensions[n].path, DeclaredPiping(c, path) # {}
    PROVE  /\ path.key \in {"length", "diameter", "offset"}
           /\ path.key = "length" => /\ path.name \in DOMAIN c.segments
                                     /\ WithinTolerance(c.dimensions[n], RouteLength(read[path.name].points))
           /\ path.key = "diameter" => /\ path.name \in DOMAIN c.segments
                                       /\ WithinTolerance(c.dimensions[n], read[path.name].width)
           /\ path.key = "offset" => /\ path.name \in DOMAIN c.items
                                     /\ WithinTolerance(c.dimensions[n],
                                          Projected(read[c.items[path.name].segment].points, Midpoint(read[path.name].points)))
<1> DEFINE d == c.dimensions[n]
           Found == MeasuredPiping(c, read, path)
           F(i) == LET e == c.dimensions[i]
                       Met == MeasuredPiping(c, read, e.path)
                   IN IF Met = {} THEN {Violation("UNMEASURABLE", {}, i, FALSE)}
                      ELSE {Violation("TOLERANCE", {e.path.name}, i, ~e.locked /\ e.path \in c.free) :
                              x \in {y \in Met : ~WithinTolerance(e, y)}}
<1>1. \/ path.key = "length" /\ path.name \in DOMAIN c.segments
      \/ path.key = "diameter" /\ path.name \in DOMAIN c.segments
      \/ path.key = "offset" /\ path.name \in DOMAIN c.items
  BY DEF DeclaredPiping
<1>2. F(n) = {}
  <2>1. PipingDimensionFaults(c, read) = UNION {F(i) : i \in DOMAIN c.dimensions}
    BY Zenon DEF PipingDimensionFaults
  <2> HIDE DEF F
  <2> QED  BY <2>1
<1>3. \A x \in Found : WithinTolerance(d, x)
  <2> HIDE DEF Found
  <2>1. Found # {}
    BY <1>2 DEF Found
  <2> QED  BY <1>2, <2>1 DEF Found
<1>4. path.name \in DOMAIN read
  BY <1>1 DEF Whole, PipingIds
<1>5. CASE path.key = "length"
  <2>1. path.name \in DOMAIN c.segments /\ HasLine(read, path.name)
    BY <1>1, <1>5 DEF Whole
  <2>2. RouteLength(read[path.name].points) \in Found
    BY <1>4, <1>5, <2>1 DEF MeasuredPiping
  <2> HIDE DEF Found
  <2> QED  BY <1>3, <1>5, <2>1, <2>2
<1>6. CASE path.key = "diameter"
  <2>1. path.name \in DOMAIN c.segments /\ HasLine(read, path.name)
    BY <1>1, <1>6 DEF Whole
  <2>2. read[path.name].width \in Found
    BY SMTT(30), <1>4, <1>6, <2>1 DEF MeasuredPiping
  <2> HIDE DEF Found
  <2> QED  BY <1>3, <1>6, <2>1, <2>2
<1>7. CASE path.key = "offset"
  <2>1. /\ path.name \in DOMAIN c.items /\ HasLine(read, c.items[path.name].segment)
        /\ read[path.name].layer \in {"P-COMP", "P-SUPPORT", "P-NODE"}
    BY <1>1, <1>7 DEF Whole, PipingContract
  <2>2. Projected(read[c.items[path.name].segment].points, Midpoint(read[path.name].points)) \in Found
    BY <1>4, <1>7, <2>1 DEF MeasuredPiping
  <2> HIDE DEF Found
  <2> QED  BY Zenon, <1>3, <1>7, <2>1, <2>2
<1> QED  BY Zenon, <1>1, <1>5, <1>6, <1>7

\* A contract that is ready bounds the spacing of supports, by more than nothing.
LEMMA ReadyBoundsSpacing ==
    ASSUME NEW c, PipingContract(c), NEW claim, NEW hash, PipingStatus(c, claim, hash) = "ready"
    PROVE  /\ \E i \in DOMAIN c.constraints : c.constraints[i].type = "maximum_support_spacing"
           /\ Bound(c, "maximum_support_spacing", 0) >= 0
           /\ \A n \in DOMAIN c.dimensions : DeclaredPiping(c, c.dimensions[n].path) # {}
<1> DEFINE Unusable(k) == \/ ~(k.on \subseteq PipingIds(c))
                          \/ k.type # "route_connected" /\ k.value < 0
                          \/ k.type = "maximum_support_spacing" /\ k.value = 0
<1>1. /\ \A i \in DOMAIN c.constraints : ~Unusable(c.constraints[i])
      /\ \A n \in DOMAIN c.dimensions : DeclaredPiping(c, c.dimensions[n].path) # {}
      /\ "maximum_support_spacing" \in ConstraintTypes(c)
  BY DEF PipingStatus
<1>2. PICK i \in DOMAIN c.constraints : c.constraints[i].type = "maximum_support_spacing"
  BY <1>1 DEF ConstraintTypes
<1>3. PICK k \in DOMAIN c.constraints :
        /\ c.constraints[k].type = "maximum_support_spacing"
        /\ Bound(c, "maximum_support_spacing", 0) = c.constraints[k].value
  BY <1>2, BoundIs
<1>4. c.constraints[k].value \in Int
  BY DEF PipingContract, Numbers
<1>5. ~(c.constraints[k].value < 0)
  BY <1>1, <1>3
<1> QED  BY <1>1, <1>2, <1>3, <1>4, <1>5

\* A piping drawing that passed against a contract that is ready conforms to it, whatever
\* was done to it.
LEMMA PassedPiping ==
    ASSUME NEW c, PipingContract(c), MetadataApart(c), NEW claim, NEW seal, PipingStatus(c, claim, seal) = "ready",
           NEW hash, NEW d, NEW d0, Traced(d, d0), VerifyPiping(c, d, hash).status = "passed"
    PROVE  PipingConforms(c, hash, d)
<1> DEFINE read == ReadPiping(d)
           On(i) == d.entities[i]
           One(id) == CHOOSE i \in DOMAIN d.entities : On(i).id = id
           Points(id) == On(One(id)).points
           Middle(id) == Midpoint(Points(id))
           Together(p, q) == \A axis \in 1..2 : Abs(p[axis] - q[axis]) <= Bound(c, "endpoint_alignment", Epsilon) + Epsilon
           Stops(s) == {0, RouteLength(Points(s))} \cup
                       {Projected(Points(s), Middle(h)) :
                          h \in {i \in DOMAIN c.items : c.items[i].kind = "support" /\ c.items[i].segment = s}}
           Margin(s, z) == Max({Bound(c, "minimum_obstacle_clearance", 0), c.zones[z].clearance})
                             + On(One(s)).width \div 2 - Epsilon
           Within(i) == Bound(c, IF c.items[i].kind = "component" THEN "inline_component_position"
                                 ELSE "endpoint_alignment", Epsilon) + Epsilon
           OnFile(path) == CASE path.key = "length" -> RouteLength(Points(path.name))
                             [] path.key = "diameter" -> On(One(path.name)).width
                             [] path.key = "offset" -> Projected(Points(c.items[path.name].segment), Middle(path.name))
<1>1. /\ PipingReadingFaults(c, d, hash) = {} /\ PipingDimensionFaults(c, read) = {}
      /\ RouteViolations(c, read) = {} /\ SpacingViolations(c, read) = {} /\ ClearanceViolations(c, read) = {}
      /\ \A i \in HostedItems(c, read) : Placed(c, read, i)
  BY PipingFaultless
<1>2. Whole(c, read) /\ \A id \in PipingIds(c) : read[id] = On(One(id))
  BY <1>1, PipingMeasured DEF EntityOf
<1>3. /\ \A i \in DOMAIN d.entities : On(i).labelled /\ On(i).hash = hash
      /\ {<<On(i).id, On(i).layer, On(i).type>> : i \in DOMAIN d.entities}
           = {<<id, ExpectedPiping(c)[id][1], ExpectedPiping(c)[id][2]>> : id \in DOMAIN ExpectedPiping(c)}
      /\ Len(d.entities) = Cardinality(DOMAIN ExpectedPiping(c))
  BY <1>1, PipingComplete
<1> HIDE DEF read, One
<1>4. ASSUME NEW id \in PipingIds(c)
      PROVE  Points(id) = read[id].points /\ Middle(id) = Midpoint(read[id].points) /\ On(One(id)) = read[id]
  BY <1>2
<1> HIDE DEF Points, Middle, On
<1>5. ASSUME NEW s \in DOMAIN c.segments
      PROVE  /\ s \in PipingIds(c) /\ c.segments[s].from \in PipingIds(c) /\ c.segments[s].to \in PipingIds(c)
             /\ Points(s) = read[s].points
  <2>1. s \in PipingIds(c) /\ c.segments[s].from \in PipingIds(c) /\ c.segments[s].to \in PipingIds(c)
    BY DEF PipingContract, PipingIds
  <2> QED  BY <1>4, <2>1
<1>6. ASSUME NEW i \in DOMAIN c.items
      PROVE  /\ i \in PipingIds(c) /\ c.items[i].segment \in DOMAIN c.segments /\ Placed(c, read, i)
             /\ Points(c.items[i].segment) = read[c.items[i].segment].points /\ Middle(i) = Midpoint(read[i].points)
             /\ On(One(i)).refs = read[i].refs
  <2>1. i \in PipingIds(c) /\ c.items[i].segment \in DOMAIN c.segments
    BY DEF PipingContract, PipingIds
  <2>2. i \in HostedItems(c, read)
    BY <1>2 DEF Whole
  <2> QED  BY <1>1, <1>4, <1>5, <2>1, <2>2
<1>7. /\ \E i \in DOMAIN c.constraints : c.constraints[i].type = "maximum_support_spacing"
      /\ Bound(c, "maximum_support_spacing", 0) >= 0
      /\ \A n \in DOMAIN c.dimensions : DeclaredPiping(c, c.dimensions[n].path) # {}
  BY ReadyBoundsSpacing
<1>8. ASSUME NEW s \in DOMAIN c.segments
      PROVE  /\ Together(Points(s)[1], Middle(c.segments[s].from))
             /\ Together(Points(s)[2], Middle(c.segments[s].to))
             /\ \E axis \in 1..2 : Extent(Points(s), axis) <= Bound(c, "orthogonal", Epsilon) + Epsilon
  <2>1. /\ Meet(c, read[s].points[1], Midpoint(read[c.segments[s].from].points))
        /\ Meet(c, read[s].points[2], Midpoint(read[c.segments[s].to].points))
        /\ \E axis \in 1..2 : Extent(read[s].points, axis) <= Bound(c, "orthogonal", Epsilon) + Epsilon
    BY <1>1, <1>2, RoutesHold
  <2>2. /\ Points(s) = read[s].points
        /\ Middle(c.segments[s].from) = Midpoint(read[c.segments[s].from].points)
        /\ Middle(c.segments[s].to) = Midpoint(read[c.segments[s].to].points)
    BY <1>4, <1>5
  <2> QED  BY <2>1, <2>2, Zenon DEF Meet
<1>9. ASSUME NEW s \in DOMAIN c.segments, NEW o \in 0..RouteLength(Points(s))
      PROVE  \E stop \in Stops(s) : o <= stop /\ stop - o <= Bound(c, "maximum_support_spacing", 0) + Epsilon
  <2> DEFINE T == {0, RouteLength(read[s].points)} \cup
                  {Projected(read[s].points, Midpoint(read[h].points)) :
                     h \in {i \in DOMAIN c.items : c.items[i].kind = "support" /\ c.items[i].segment = s}}
  <2>1. o \in 0..RouteLength(read[s].points)
    BY <1>5
  <2>2. \A i \in DOMAIN c.items : Placed(c, read, i)
    BY <1>6
  <2>3. \E stop \in T : o <= stop /\ stop - o <= Bound(c, "maximum_support_spacing", 0) + Epsilon
    BY <1>1, <1>2, <1>7, <2>1, <2>2, SpacingHolds
  <2>4. Stops(s) = T
    <3>1. \A h \in DOMAIN c.items : Middle(h) = Midpoint(read[h].points)
      BY <1>6
    <3>2. Points(s) = read[s].points
      BY <1>5
    <3> QED  BY <3>1, <3>2
  <2> HIDE DEF T, Stops
  <2> QED  BY <2>3, <2>4
<1>10. ASSUME NEW s \in DOMAIN c.segments, NEW z \in DOMAIN c.zones, Margin(s, z) > 0
       PROVE  ~CloserThan(Points(s), Points(z), Margin(s, z))
  <2>1. s \in PipingIds(c) /\ z \in PipingIds(c)
    BY DEF PipingIds
  <2>2. On(One(s)) = read[s] /\ Points(s) = read[s].points /\ Points(z) = read[z].points
    BY <1>4, <2>1
  <2> DEFINE m == Max({Bound(c, "minimum_obstacle_clearance", 0), c.zones[z].clearance})
                    + read[s].width \div 2 - Epsilon
  <2>3. m = Margin(s, z)
    BY <2>2
  <2>4. m \in Int
    <3> DEFINE x == Bound(c, "minimum_obstacle_clearance", 0)
               y == c.zones[z].clearance
               w == read[s].width
    <3>1. x \in Int /\ y \in Int /\ w \in Int
      <4>1. x \in Int
        BY BoundIs
      <4>2. y \in Int
        BY DEF PipingContract, Numbers
      <4>3. w \in Int
        BY <1>2, <2>1 DEF Whole
      <4> QED  BY <4>1, <4>2, <4>3
    <3> HIDE DEF x, y, w
    <3>2. Max({x, y}) \in Int
      BY <3>1, PairExtremes
    <3>3. \A a \in Int, b \in Int : a + b \div 2 - Epsilon \in Int
      BY DEF Epsilon
    <3>4. Max({x, y}) + w \div 2 - Epsilon \in Int
      BY <3>1, <3>2, <3>3
    <3> QED  BY <3>4 DEF x, y, w
  <2>5. ~CloserThan(read[s].points, read[z].points, m)
    <3>1. PICK k \in Int : k = m
      BY <2>4
    <3> HIDE DEF Margin
    <3>2. k > 0
      BY <1>10, <2>3, <3>1
    <3>3. ~CloserThan(read[s].points, read[z].points, k)
      BY <1>1, <1>2, <3>1, <3>2, ClearanceHolds
    <3> QED  BY <3>1, <3>3
  <2> HIDE DEF m, Margin
  <2> QED  BY <2>2, <2>3, <2>5
<1>11. ASSUME NEW S \in SUBSET DOMAIN c.segments, S # {}, S # DOMAIN c.segments
       PROVE  \E s \in S, t \in DOMAIN c.segments \ S, j, k \in 1..2 : Together(Points(s)[j], Points(t)[k])
  <2>1. PICK s \in S, t \in DOMAIN c.segments \ S, j \in 1..2, k \in 1..2 :
          Meet(c, read[s].points[j], read[t].points[k])
    BY <1>1, <1>2, <1>11, RoutesHold
  <2>2. Points(s) = read[s].points /\ Points(t) = read[t].points
    BY <1>5
  <2> QED  BY <2>1, <2>2, Zenon DEF Meet
<1>12. ASSUME NEW i \in DOMAIN c.items
       PROVE  /\ On(One(i)).refs = <<c.items[i].segment>>
              /\ CloserThan(Points(c.items[i].segment), <<Middle(i)>>, Within(i) + 1)
              /\ Abs(Projected(Points(c.items[i].segment), Middle(i)) - c.items[i].offset) <= Within(i)
  <2>1. Within(i) = Allowance(c, i)
    BY DEF Allowance
  <2>2. /\ Placed(c, read, i) /\ Points(c.items[i].segment) = read[c.items[i].segment].points
        /\ Middle(i) = Midpoint(read[i].points) /\ On(One(i)).refs = read[i].refs
    BY <1>6
  <2>3. /\ read[i].refs = <<c.items[i].segment>>
        /\ CloserThan(read[c.items[i].segment].points, <<Midpoint(read[i].points)>>, Allowance(c, i) + 1)
        /\ Abs(Projected(read[c.items[i].segment].points, Midpoint(read[i].points)) - c.items[i].offset) <= Allowance(c, i)
    BY <1>2, <2>2, ItemHolds
  <2> HIDE DEF Within
  <2> QED  BY <2>1, <2>2, <2>3
<1>13. ASSUME NEW n \in DOMAIN c.dimensions PROVE WithinTolerance(c.dimensions[n], OnFile(c.dimensions[n].path))
  <2> DEFINE path == c.dimensions[n].path
  <2>0. PICK p : p = path
    OBVIOUS
  <2>1. /\ p.key \in {"length", "diameter", "offset"}
        /\ p.key = "length" => /\ p.name \in DOMAIN c.segments
                               /\ WithinTolerance(c.dimensions[n], RouteLength(read[p.name].points))
        /\ p.key = "diameter" => /\ p.name \in DOMAIN c.segments
                                 /\ WithinTolerance(c.dimensions[n], read[p.name].width)
        /\ p.key = "offset" => /\ p.name \in DOMAIN c.items
                               /\ WithinTolerance(c.dimensions[n],
                                    Projected(read[c.items[p.name].segment].points, Midpoint(read[p.name].points)))
    BY <1>1, <1>2, <1>7, <2>0, DimensionHolds
  <2>2. CASE p.key = "length"
    <3>1. Points(p.name) = read[p.name].points
      BY <1>5, <2>1, <2>2
    <3>2. OnFile(p) = RouteLength(read[p.name].points)
      BY <2>2, <3>1
    <3> QED  BY <2>0, <2>1, <2>2, <3>2
  <2>3. CASE p.key = "diameter"
    <3>1. On(One(p.name)) = read[p.name]
      BY <1>4, <1>5, <2>1, <2>3
    <3>2. OnFile(p) = read[p.name].width
      BY SMTT(30), <2>3, <3>1
    <3> QED  BY <2>0, <2>1, <2>3, <3>2
  <2>4. CASE p.key = "offset"
    <3>1. Points(c.items[p.name].segment) = read[c.items[p.name].segment].points /\ Middle(p.name) = Midpoint(read[p.name].points)
      BY <1>6, <2>1, <2>4
    <3>2. OnFile(p) = Projected(read[c.items[p.name].segment].points, Midpoint(read[p.name].points))
      BY <2>4, <3>1
    <3> QED  BY Zenon, <2>0, <2>1, <2>4, <3>2
  <2> QED  BY <2>1, <2>2, <2>3, <2>4
<1> QED  BY <1>3, <1>8, <1>9, <1>10, <1>11, <1>12, <1>13, Zenon DEF PipingConforms, On, One, Points, Middle
\* A contract in inches is one in millimetres, too.
LEMMA NormalizedPipingIsContract ==
    ASSUME NEW c, PipingContract(c), NEW inch \in Nat \ {0}
    PROVE  PipingContract(NormalizedPiping(c, inch))
<1> DEFINE Long(n) == n * inch
           Point(p) == <<Long(p[1]), Long(p[2])>>
           Box(b) == <<Point(b[1]), Point(b[2])>>
           d == NormalizedPiping(c, inch)
<1> SUFFICES ASSUME c.units # "mm" PROVE PipingContract(d)
  BY DEF NormalizedPiping
<1>1. \A n \in Int : Long(n) \in Int
  OBVIOUS
<1>2. ASSUME NEW p \in Int \X Int PROVE Point(p) \in Int \X Int
  <2>1. p[1] \in Int /\ p[2] \in Int
    OBVIOUS
  <2> HIDE DEF Long
  <2> QED  BY <1>1, <2>1
<1>3. ASSUME NEW b \in Boxes PROVE Box(b) \in Boxes
  <2>1. b[1] \in Int \X Int /\ b[2] \in Int \X Int
    BY DEF Boxes
  <2>2. Point(b[1]) \in Int \X Int /\ Point(b[2]) \in Int \X Int
    BY <1>2, <2>1
  <2> HIDE DEF Point
  <2> QED  BY <2>2 DEF Boxes
<1>4. /\ DOMAIN d = DOMAIN c
      /\ d.nodes = [n \in DOMAIN c.nodes |-> Point(c.nodes[n])]
      /\ d.segments = [s \in DOMAIN c.segments |-> [c.segments[s] EXCEPT !.diameter = Long(@)]]
      /\ d.items = [i \in DOMAIN c.items |-> [c.items[i] EXCEPT !.offset = Long(@)]]
      /\ d.zones = [z \in DOMAIN c.zones |-> [c.zones[z] EXCEPT !.clearance = Long(@), !.box = Box(@)]]
      /\ d.dimensions = [i \in DOMAIN c.dimensions |->
                            [c.dimensions[i] EXCEPT !.target = Long(@), !.lower = Long(@), !.upper = Long(@)]]
      /\ d.constraints = [i \in DOMAIN c.constraints |-> [c.constraints[i] EXCEPT !.value = Long(@)]]
  <2>1. DOMAIN c = {"units", "nodes", "segments", "items", "zones", "dimensions", "constraints", "free", "notes"}
    BY DEF PipingContract
  <2> DEFINE N == [n \in DOMAIN c.nodes |-> Point(c.nodes[n])]
             P == [s \in DOMAIN c.segments |-> [c.segments[s] EXCEPT !.diameter = Long(@)]]
             I == [i \in DOMAIN c.items |-> [c.items[i] EXCEPT !.offset = Long(@)]]
             Z == [z \in DOMAIN c.zones |-> [c.zones[z] EXCEPT !.clearance = Long(@), !.box = Box(@)]]
             D == [i \in DOMAIN c.dimensions |->
                     [c.dimensions[i] EXCEPT !.target = Long(@), !.lower = Long(@), !.upper = Long(@)]]
             K == [i \in DOMAIN c.constraints |-> [c.constraints[i] EXCEPT !.value = Long(@)]]
  <2>2. d = [c EXCEPT !.units = "mm", !.nodes = N, !.segments = P, !.items = I, !.zones = Z,
                      !.dimensions = D, !.constraints = K]
    BY Zenon DEF NormalizedPiping
  <2> HIDE DEF d, N, P, I, Z, D, K
  <2>3. /\ DOMAIN d = DOMAIN c
        /\ d.nodes = N /\ d.segments = P /\ d.items = I /\ d.zones = Z
        /\ d.dimensions = D /\ d.constraints = K
    BY <2>1, <2>2
  <2> QED  BY Zenon, <2>3 DEF N, P, I, Z, D, K
<1> HIDE DEF Long, Box, Point, d
<1>5. /\ DOMAIN d.nodes = DOMAIN c.nodes /\ DOMAIN d.segments = DOMAIN c.segments /\ DOMAIN d.items = DOMAIN c.items
      /\ DOMAIN d.zones = DOMAIN c.zones /\ DOMAIN d.dimensions = DOMAIN c.dimensions
      /\ DOMAIN d.constraints = DOMAIN c.constraints
  BY Zenon, <1>4
<1>6. d.nodes \in [DOMAIN d.nodes -> Int \X Int]
  <2>1. ASSUME NEW n \in DOMAIN c.nodes PROVE d.nodes[n] \in Int \X Int
    <3>1. c.nodes[n] \in Int \X Int
      BY DEF PipingContract
    <3>2. d.nodes[n] = Point(c.nodes[n])
      BY Zenon, <1>4
    <3> QED  BY <1>2, <3>1, <3>2
  <2>2. d.nodes = [n \in DOMAIN d.nodes |-> d.nodes[n]]
    BY Zenon, <1>4
  <2> QED  BY <1>5, <2>1, <2>2
<1>7. ASSUME NEW s \in DOMAIN d.segments
      PROVE  /\ {d.segments[s].from, d.segments[s].to} \subseteq DOMAIN d.nodes
             /\ Numbers(d.segments[s], {"diameter"}) /\ d.segments[s].diameter > 0
  <2> DEFINE x == c.segments[s]
  <2>1. {x.from, x.to} \subseteq DOMAIN c.nodes /\ Numbers(x, {"diameter"}) /\ x.diameter > 0
    BY <1>5 DEF PipingContract
  <2>2. d.segments[s] = [x EXCEPT !.diameter = Long(@)]
    BY Zenon, <1>4
  <2> HIDE DEF x
  <2>3. "diameter" \in DOMAIN x /\ x.diameter \in Int
    BY <2>1 DEF Numbers
  <2>4. /\ d.segments[s].from = x.from /\ d.segments[s].to = x.to
        /\ d.segments[s].diameter = Long(x.diameter) /\ "diameter" \in DOMAIN d.segments[s]
    BY <2>2, <2>3
  <2>5. \A n, k \in Nat \ {0} : n * k > 0
    OBVIOUS
  <2>6. Long(x.diameter) > 0
    BY <2>1, <2>3, <2>5 DEF Long
  <2> QED  BY <1>1, <1>5, <2>1, <2>3, <2>4, <2>6 DEF Numbers
<1>8. ASSUME NEW i \in DOMAIN d.items
      PROVE  /\ d.items[i].segment \in DOMAIN d.segments /\ Numbers(d.items[i], {"offset"})
             /\ d.items[i].kind \in {"component", "support"}
             /\ d.items[i].kind = "component" => d.items[i].form \in {"circle", "closed", "open"}
  <2> DEFINE x == c.items[i]
  <2>1. /\ x.segment \in DOMAIN c.segments /\ Numbers(x, {"offset"}) /\ x.kind \in {"component", "support"}
        /\ x.kind = "component" => x.form \in {"circle", "closed", "open"}
    BY <1>5 DEF PipingContract
  <2>2. d.items[i] = [x EXCEPT !.offset = Long(@)]
    BY Zenon, <1>4
  <2> HIDE DEF x
  <2>3. "offset" \in DOMAIN x /\ x.offset \in Int
    BY <2>1 DEF Numbers
  <2>4. /\ d.items[i].segment = x.segment /\ d.items[i].kind = x.kind /\ d.items[i].form = x.form
        /\ d.items[i].offset = Long(x.offset) /\ "offset" \in DOMAIN d.items[i]
    BY <2>2, <2>3
  <2> QED  BY <1>1, <1>5, <2>1, <2>3, <2>4 DEF Numbers
<1>9. ASSUME NEW z \in DOMAIN d.zones
      PROVE  /\ d.zones[z].box \in Boxes /\ Numbers(d.zones[z], {"clearance"})
             /\ d.zones[z].form \in {"circle", "closed"}
  <2> DEFINE x == c.zones[z]
  <2>1. x.box \in Boxes /\ Numbers(x, {"clearance"}) /\ x.form \in {"circle", "closed"}
    BY <1>5 DEF PipingContract
  <2>2. d.zones[z] = [x EXCEPT !.clearance = Long(@), !.box = Box(@)]
    BY Zenon, <1>4
  <2> HIDE DEF x
  <2>3. "clearance" \in DOMAIN x /\ x.clearance \in Int
    BY <2>1 DEF Numbers
  <2>4. d.zones[z].clearance = Long(x.clearance) /\ "clearance" \in DOMAIN d.zones[z] /\ d.zones[z].form = x.form
    BY <2>2, <2>3
  <2>5. d.zones[z].box = Box(x.box) \/ d.zones[z].box = x.box
    BY <2>2
  <2> QED  BY <1>1, <1>3, <2>1, <2>3, <2>4, <2>5 DEF Numbers
<1>10. ASSUME NEW i \in DOMAIN d.dimensions
       PROVE  /\ Numbers(d.dimensions[i], {"target", "lower", "upper"})
              /\ d.dimensions[i].id \notin DOMAIN d.nodes \cup DOMAIN d.segments \cup DOMAIN d.items \cup DOMAIN d.zones
  <2> DEFINE x == c.dimensions[i]
  <2>1. /\ Numbers(x, {"target", "lower", "upper"})
        /\ x.id \notin DOMAIN c.nodes \cup DOMAIN c.segments \cup DOMAIN c.items \cup DOMAIN c.zones
    BY <1>5 DEF PipingContract
  <2>2. d.dimensions[i] = [x EXCEPT !.target = Long(@), !.lower = Long(@), !.upper = Long(@)]
    BY Zenon, <1>4
  <2> HIDE DEF x
  <2>3. /\ {"target", "lower", "upper"} \subseteq DOMAIN x
        /\ x.target \in Int /\ x.lower \in Int /\ x.upper \in Int
    BY <2>1 DEF Numbers
  <2>4. /\ DOMAIN d.dimensions[i] = DOMAIN x /\ d.dimensions[i].target = Long(x.target)
        /\ d.dimensions[i].lower = Long(x.lower) /\ d.dimensions[i].upper = Long(x.upper)
        /\ d.dimensions[i].id = x.id
    BY <2>2, <2>3
  <2> QED  BY <1>1, <1>5, <2>1, <2>3, <2>4 DEF Numbers
<1>11. ASSUME NEW i \in DOMAIN d.constraints
       PROVE  i \in Nat /\ Numbers(d.constraints[i], {"value"})
  <2> DEFINE x == c.constraints[i]
  <2>1. i \in Nat /\ Numbers(x, {"value"})
    BY <1>5 DEF PipingContract
  <2>2. d.constraints[i] = [x EXCEPT !.value = Long(@)]
    BY Zenon, <1>4
  <2> HIDE DEF x
  <2>3. "value" \in DOMAIN x /\ x.value \in Int
    BY <2>1 DEF Numbers
  <2>4. "value" \in DOMAIN d.constraints[i] /\ d.constraints[i].value = Long(x.value)
    BY <2>2, <2>3
  <2> QED  BY <1>1, <2>1, <2>3, <2>4 DEF Numbers
<1>12. /\ DOMAIN d = {"units", "nodes", "segments", "items", "zones", "dimensions", "constraints", "free", "notes"}
       /\ IsFiniteSet(DOMAIN d.nodes \cup DOMAIN d.segments \cup DOMAIN d.items \cup DOMAIN d.zones)
       /\ IsFiniteSet(DOMAIN d.dimensions \cup DOMAIN d.constraints)
       /\ DOMAIN d.nodes \cap (DOMAIN d.segments \cup DOMAIN d.items \cup DOMAIN d.zones) = {}
       /\ DOMAIN d.segments \cap (DOMAIN d.items \cup DOMAIN d.zones) = {} /\ DOMAIN d.items \cap DOMAIN d.zones = {}
  BY Zenon, <1>4, <1>5 DEF PipingContract
<1> QED  BY <1>6, <1>7, <1>8, <1>9, <1>10, <1>11, <1>12 DEF PipingContract
-----------------------------------------------------------------------------
(* Plans *)

\* The parts of a plan are finitely many.
LEMMA PlanFinite ==
    ASSUME NEW c, PlanContract(c)
    PROVE  /\ IsFiniteSet(DOMAIN c.grids) /\ IsFiniteSet(DOMAIN c.walls) /\ IsFiniteSet(DOMAIN c.openings)
           /\ IsFiniteSet(DOMAIN c.columns) /\ IsFiniteSet(DOMAIN c.rooms) /\ IsFiniteSet(DimensionIds(c))
<1>1. /\ IsFiniteSet(DOMAIN c.grids) /\ IsFiniteSet(DOMAIN c.walls) /\ IsFiniteSet(DOMAIN c.openings)
      /\ IsFiniteSet(DOMAIN c.columns) /\ IsFiniteSet(DOMAIN c.rooms) /\ IsFiniteSet(DOMAIN c.dimensions)
  <2>1. IsFiniteSet(PlanIds(c)) /\ IsFiniteSet(DOMAIN c.dimensions \cup DOMAIN c.constraints)
    BY DEF PlanContract
  <2>2. /\ DOMAIN c.grids \subseteq PlanIds(c) /\ DOMAIN c.walls \subseteq PlanIds(c)
        /\ DOMAIN c.openings \subseteq PlanIds(c) /\ DOMAIN c.columns \subseteq PlanIds(c)
        /\ DOMAIN c.rooms \subseteq PlanIds(c)
    BY DEF PlanIds
  <2> QED  BY <2>1, <2>2, FS_Subset
<1>2. IsFiniteSet(DimensionIds(c))
  <2> DEFINE q == [i \in DOMAIN c.dimensions |-> c.dimensions[i].id]
  <2>1. DOMAIN q = DOMAIN c.dimensions /\ DimensionIds(c) = {q[i] : i \in DOMAIN q}
    BY DEF DimensionIds
  <2> HIDE DEF q
  <2> QED  BY <1>1, <2>1, FiniteImage
<1> QED  BY <1>1, <1>2

\* A line that goes somewhere runs along one axis at least.
LEMMA LineRuns ==
    ASSUME NEW line \in Boxes, line[1] # line[2]
    PROVE  /\ line \in Seq(Int \X Int) /\ line # <<>> /\ Len(line) = 2 /\ DOMAIN line = 1..2
           /\ Axis(line) \in 1..2 /\ LineLength(line) > 0 /\ Sense(line) \in {1, -1}
<1>1. line \in Seq(Int \X Int) /\ line # <<>> /\ Len(line) = 2 /\ DOMAIN line = 1..2
  BY BoxIsPoints
<1>2. Axis(line) \in 1..2 /\ Sense(line) \in {1, -1}
  BY DEF Axis, Sense
<1>3. line[1] \in Int \X Int /\ line[2] \in Int \X Int
  BY DEF Boxes
<1>4. PICK axis \in 1..2 : line[1][axis] # line[2][axis]
  BY <1>3
<1>5. \A k \in 1..2 : /\ Low(line, k) \in Int /\ High(line, k) \in Int
                      /\ Low(line, k) <= line[1][k] /\ line[1][k] <= High(line, k) /\ line[1][k] \in Int
                      /\ Low(line, k) <= line[2][k] /\ line[2][k] <= High(line, k) /\ line[2][k] \in Int
  <2>1. 1 \in DOMAIN line /\ 2 \in DOMAIN line
    BY <1>1
  <2> QED  BY <1>1, <2>1, LowHigh
<1>6. \A k \in 1..2 : Extent(line, k) \in Int
  BY <1>5 DEF Extent
<1>7. Extent(line, axis) > 0
  <2>1. \A l, h, a, b \in Int : l <= a /\ a <= h /\ l <= b /\ b <= h /\ a # b => h - l > 0
    OBVIOUS
  <2> QED  BY <1>4, <1>5, <2>1, Zenon DEF Extent
<1>8. LineLength(line) > 0
  <2>1. Extent(line, Axis(line)) >= Extent(line, axis)
    BY <1>4, <1>6 DEF Axis
  <2>2. Extent(line, Axis(line)) \in Int /\ Extent(line, axis) \in Int
    BY <1>2, <1>6
  <2> QED  BY <1>7, <2>1, <2>2 DEF LineLength
<1> QED  BY <1>1, <1>2, <1>8

\* A strip along a line is a box.
LEMMA StripIs ==
    ASSUME NEW line \in Boxes, NEW from \in Int, NEW to \in Int, NEW depth \in Int
    PROVE  Strip(line, from, to, depth) \in Boxes
<1> DEFINE axis == Axis(line)
           At(d) == line[1][axis] + Sense(line) * d
           Corner(d, side) == [k \in 1..2 |-> IF k = axis THEN At(d) ELSE line[1][k] + side * depth]
<1>1. axis \in 1..2 /\ Sense(line) \in {1, -1}
  BY DEF Axis, Sense
<1>2. line[1] \in Int \X Int
  BY DEF Boxes
<1>3. \A d \in Int : At(d) \in Int
  BY <1>1, <1>2
<1>4. \A side \in {1, -1}, k \in 1..2 : line[1][k] + side * depth \in Int
  BY <1>2
<1> HIDE DEF At, axis
<1>5. ASSUME NEW d \in Int, NEW side \in {1, -1} PROVE Corner(d, side) \in Int \X Int
  <2>1. \A k \in 1..2 : Corner(d, side)[k] \in Int
    BY <1>3, <1>4
  <2>2. Corner(d, side) = <<Corner(d, side)[1], Corner(d, side)[2]>>
    OBVIOUS
  <2> HIDE DEF Corner
  <2> QED  BY <2>1, <2>2
<1>6. Strip(line, from, to, depth) =
        IF Sense(line) = 1 THEN <<Corner(from, -1), Corner(to, 1)>> ELSE <<Corner(to, -1), Corner(from, 1)>>
  BY Zenon DEF Strip, Corner, At, axis
<1> HIDE DEF Corner
<1>7. \A p, q \in Int \X Int : <<p, q>> \in Boxes
  BY DEF Boxes
<1> QED  BY <1>5, <1>6, <1>7

\* What is drawn of a plan are boxes and points.
LEMMA PlanShapes ==
    ASSUME NEW c, PlanContract(c)
    PROVE  /\ \A g \in DOMAIN c.grids : c.grids[g] \in Boxes
           /\ \A w \in DOMAIN c.walls : WallBox(c, w) \in Boxes /\ c.walls[w].line \in Boxes
           /\ \A o \in DOMAIN c.openings : OpeningBox(c, o) \in Boxes
           /\ \A k \in DOMAIN c.columns : ColumnBox(c, k) \in Boxes
           /\ \A r \in DOMAIN c.rooms : c.rooms[r] \in Int \X Int
<1>1. ASSUME NEW w \in DOMAIN c.walls
      PROVE  WallBox(c, w) \in Boxes /\ c.walls[w].line \in Boxes /\ c.walls[w].half \in Int
  <2>1. c.walls[w].line \in Boxes /\ c.walls[w].half \in Int /\ c.walls[w].line[1] # c.walls[w].line[2]
    BY DEF PlanContract, Numbers
  <2>2. LineLength(c.walls[w].line) \in Int
    <3> DEFINE l == c.walls[w].line
    <3> HIDE DEF l
    <3>1. l \in Seq(Int \X Int) /\ l # <<>> /\ Axis(l) \in 1..2
      BY <2>1, LineRuns DEF l
    <3>2. Low(l, Axis(l)) \in Int /\ High(l, Axis(l)) \in Int
      BY <3>1, LowHigh
    <3> QED  BY <3>2 DEF LineLength, Extent, l
  <2>3. WallBox(c, w) \in Boxes
    <3>1. 0 \in Int
      OBVIOUS
    <3> QED  BY <2>1, <2>2, <3>1, StripIs DEF WallBox
  <2> QED  BY <2>1, <2>3
<1>2. ASSUME NEW o \in DOMAIN c.openings PROVE OpeningBox(c, o) \in Boxes
  <2>1. c.openings[o].wall \in DOMAIN c.walls /\ c.openings[o].offset \in Int /\ c.openings[o].width \in Int
    BY DEF PlanContract, Numbers
  <2> DEFINE wall == c.walls[c.openings[o].wall]
             from == c.openings[o].offset
             to == c.openings[o].offset + c.openings[o].width
             depth == wall.half + 1
  <2>2. wall.line \in Boxes /\ from \in Int /\ to \in Int /\ depth \in Int
    BY <1>1, <2>1
  <2>3. OpeningBox(c, o) = Strip(wall.line, from, to, depth)
    BY Zenon DEF OpeningBox
  <2> HIDE DEF wall, from, to, depth
  <2> QED  BY <2>2, <2>3, StripIs
<1>3. ASSUME NEW k \in DOMAIN c.columns PROVE ColumnBox(c, k) \in Boxes
  <2>1. c.columns[k].centre \in Int \X Int /\ c.columns[k].half \in Int
    BY DEF PlanContract, Numbers
  <2> DEFINE at == c.columns[k].centre
             half == c.columns[k].half
  <2>2. /\ at[1] - half \in Int /\ at[2] - half \in Int /\ at[1] + half \in Int /\ at[2] + half \in Int
    BY <2>1
  <2> HIDE DEF at, half
  <2>3. <<<<at[1] - half, at[2] - half>>, <<at[1] + half, at[2] + half>>>> \in Boxes
    BY <2>2 DEF Boxes
  <2> QED  BY <2>3 DEF ColumnBox, at, half
<1>4. \A g \in DOMAIN c.grids : c.grids[g] \in Boxes
  BY DEF PlanContract
<1>5. \A r \in DOMAIN c.rooms : c.rooms[r] \in Int \X Int
  BY DEF PlanContract
<1> QED  BY <1>1, <1>2, <1>3, <1>4, <1>5

\* A sequence lists the entities of a finite set, which are on some layers.
Listed(q, S, L) == IsFiniteSet(S) /\ Lists(q, S) /\ \A e \in S : e.layer \in L

\* The elements of a family are listed in order.
LEMMA ListedFamily ==
    ASSUME NEW q, IsFiniteSet(DOMAIN q), NEW L, \A x \in DOMAIN q : q[x].layer \in L
    PROVE  Listed(InOrder({q[x] : x \in DOMAIN q}), {q[x] : x \in DOMAIN q}, L)
<1> DEFINE S == {q[x] : x \in DOMAIN q}
<1>1. IsFiniteSet(S) /\ \A e \in S : e.layer \in L
  BY FiniteImage
<1> HIDE DEF S
<1>2. Lists(InOrder(S), S)
  BY <1>1, InOrderLists
<1> QED  BY <1>1, <1>2 DEF S, Listed

\* One entity is a list.
LEMMA ListedSingle ==
    ASSUME NEW e, NEW L, e.layer \in L
    PROVE  Listed(<<e>>, {e}, L)
<1>1. IsFiniteSet({e}) /\ Cardinality({e}) = 1
  BY FS_Singleton
<1>2. <<e>> \in Seq({e}) /\ Len(<<e>>) = 1 /\ \A x \in {e} : \E k \in 1..1 : <<e>>[k] = x
  OBVIOUS
<1> QED  BY <1>1, <1>2 DEF Listed, Lists

\* Lists of what is different, one after the other.
LEMMA ListsConcat ==
    ASSUME NEW q, NEW S, IsFiniteSet(S), Lists(q, S), NEW r, NEW T, IsFiniteSet(T), Lists(r, T), S \cap T = {}
    PROVE  IsFiniteSet(S \cup T) /\ Lists(q \o r, S \cup T)
<1>1. /\ q \in Seq(S) /\ r \in Seq(T)
      /\ Len(q) = Cardinality(S) /\ Len(r) = Cardinality(T)
      /\ (\A x \in S : \E k \in 1..Len(q) : q[k] = x) /\ (\A x \in T : \E k \in 1..Len(r) : r[k] = x)
  BY DEF Lists
<1>2. IsFiniteSet(S \cup T) /\ Cardinality(S \cup T) = Cardinality(S) + Cardinality(T)
  BY DisjointUnion
<1>3. q \in Seq(S \cup T) /\ r \in Seq(S \cup T)
  <2>1. S \subseteq S \cup T /\ T \subseteq S \cup T
    OBVIOUS
  <2> QED  BY <1>1, <2>1, SeqMonotonic
<1> DEFINE U == S \cup T
           p == q \o r
<1>4. U = S \cup T
  OBVIOUS
<1> HIDE DEF U
<1>5. /\ p \in Seq(U) /\ Len(p) = Len(q) + Len(r) /\ Len(q) \in Nat /\ Len(r) \in Nat
      /\ \A i \in 1..(Len(q) + Len(r)) : p[i] = IF i <= Len(q) THEN q[i] ELSE r[i - Len(q)]
  <2>1. q \in Seq(U) /\ r \in Seq(U)
    BY <1>3 DEF U
  <2> QED  BY <2>1, ConcatProperties, LenProperties
<1> HIDE DEF p
<1>6. ASSUME NEW x \in U PROVE \E k \in 1..Len(p) : p[k] = x
  <2>1. CASE x \in S
    <3>1. PICK k \in 1..Len(q) : q[k] = x
      BY <1>1, <2>1
    <3>2. k \in 1..Len(p) /\ p[k] = q[k]
      BY <1>5
    <3> QED  BY <3>1, <3>2
  <2>2. CASE x \in T
    <3>1. PICK k \in 1..Len(r) : r[k] = x
      BY <1>1, <2>2
    <3>2. Len(q) + k \in 1..(Len(q) + Len(r)) /\ ~(Len(q) + k <= Len(q)) /\ (Len(q) + k) - Len(q) = k
      BY <1>5
    <3> QED  BY <1>5, <3>1, <3>2
  <2> QED  BY <1>4, <2>1, <2>2
<1>7. Len(p) = Cardinality(U)
  BY <1>1, <1>2, <1>4, <1>5
<1> QED  BY <1>2, <1>4, <1>5, <1>6, <1>7 DEF Lists, p

\* Lists of what is on different layers, one after the other.
LEMMA ListedConcat ==
    ASSUME NEW q, NEW S, NEW L, Listed(q, S, L), NEW r, NEW T, NEW M, Listed(r, T, M), L \cap M = {}
    PROVE  Listed(q \o r, S \cup T, L \cup M)
<1>1. /\ IsFiniteSet(S) /\ IsFiniteSet(T) /\ Lists(q, S) /\ Lists(r, T)
      /\ (\A e \in S : e.layer \in L) /\ (\A e \in T : e.layer \in M)
  BY DEF Listed
<1>2. S \cap T = {} /\ \A e \in S \cup T : e.layer \in L \cup M
  BY <1>1
<1>3. IsFiniteSet(S \cup T) /\ Lists(q \o r, S \cup T)
  BY <1>1, <1>2, ListsConcat
<1> QED  BY <1>2, <1>3 DEF Listed

\* What is listed is at one place each.
LEMMA ListedOnce ==
    ASSUME NEW q, NEW S, IsFiniteSet(S), Lists(q, S)
    PROVE  /\ Len(q) \in Nat /\ DOMAIN q = 1..Len(q)
           /\ \A i \in DOMAIN q : q[i] \in S
           /\ \A e \in S : \E i \in DOMAIN q : q[i] = e
           /\ \A i, j \in DOMAIN q : q[i] = q[j] => i = j
<1>1. /\ q \in Seq(S) /\ Len(q) = Cardinality(S) /\ \A x \in S : \E k \in 1..Len(q) : q[k] = x
  BY DEF Lists
<1>2. Len(q) \in Nat /\ DOMAIN q = 1..Len(q) /\ q \in [1..Len(q) -> S]
  BY <1>1, LenProperties
<1> DEFINE n == Len(q)
<1> HIDE DEF n
<1>3. n \in Nat /\ q \in [1..n -> S] /\ n = Cardinality(S) /\ \A x \in S : \E k \in 1..n : q[k] = x
  BY <1>1, <1>2 DEF n
<1>4. IsFiniteSet(1..n) /\ Cardinality(1..n) = n
  BY <1>3, CountTo
<1>5. q \in Surjection(1..n, S)
  BY <1>3 DEF Surjection
<1>6. q \in Injection(1..n, S)
  BY <1>3, <1>4, <1>5, FS_SurjSameCardinalityImpliesInj
<1>7. \A i, j \in 1..n : q[i] = q[j] => i = j
  BY <1>6 DEF Injection, IsInjective
<1> QED  BY <1>1, <1>2, <1>3, <1>7 DEF n

\* An entity of a plan, and the parts of what is drawn of one.
PlanEntity(layer, form, id, type, points, hash) ==
    [layer |-> layer, form |-> form, points |-> points, labelled |-> TRUE,
     id |-> id, type |-> type, refs |-> <<>>, hash |-> hash, width |-> 0]
GridOf(c, hash, g) == PlanEntity("A-GRID", "line", g, "grid", c.grids[g], hash)
WallOf(c, hash, w) == PlanEntity("A-WALL", "closed", w, "wall", WallBox(c, w), hash)
CentreOf(c, hash, w) == PlanEntity("A-WALL-CENTER", "line", w, "wall_centerline", c.walls[w].line, hash)
OpeningOf(c, hash, o) ==
    PlanEntity(OpeningLayer(c, o), "closed", o, c.openings[o].type, OpeningBox(c, o), hash)
ColumnOf(c, hash, k) ==
    PlanEntity("A-COLS", IF c.columns[k].type = "circular_column" THEN "circle" ELSE "closed",
               k, c.columns[k].type, ColumnBox(c, k), hash)
RoomOf(c, hash, r) == PlanEntity("A-ROOM", "point", r, "room_seed", <<c.rooms[r]>>, hash)
TextOf(layer, id, type, hash) == PlanEntity(layer, "text", id, type, <<<<0, 0>>>>, hash)
Noted(c) == IF c.notes THEN DimensionIds(c) ELSE {}
Labelled(c) == IF c.labels THEN DOMAIN c.rooms ELSE {}

WrittenPlan(c, hash) ==
    {GridOf(c, hash, g) : g \in DOMAIN c.grids} \cup {WallOf(c, hash, w) : w \in DOMAIN c.walls}
      \cup {CentreOf(c, hash, w) : w \in DOMAIN c.walls} \cup {OpeningOf(c, hash, o) : o \in DOMAIN c.openings}
      \cup {ColumnOf(c, hash, k) : k \in DOMAIN c.columns} \cup {RoomOf(c, hash, r) : r \in DOMAIN c.rooms}
      \cup {TextOf("A-DIMS", d, "dimension", hash) : d \in Noted(c)}
      \cup {TextOf("A-ANNO", r, "room_annotation", hash) : r \in Labelled(c)}
      \cup {TextOf("DG-META", "architectural-metadata", "metadata", hash)}

\* A drawing of a plan lists these.
LEMMA PlanListed ==
    ASSUME NEW c, PlanContract(c), NEW hash
    PROVE  Listed(DrawnPlan(c, hash).entities, WrittenPlan(c, hash), PlanLayers)
<1> DEFINE G == [g \in DOMAIN c.grids |-> GridOf(c, hash, g)]
           W == [w \in DOMAIN c.walls |-> WallOf(c, hash, w)]
           M == [w \in DOMAIN c.walls |-> CentreOf(c, hash, w)]
           O == [o \in DOMAIN c.openings |-> OpeningOf(c, hash, o)]
           K == [k \in DOMAIN c.columns |-> ColumnOf(c, hash, k)]
           R == [r \in DOMAIN c.rooms |-> RoomOf(c, hash, r)]
           N == [d \in Noted(c) |-> TextOf("A-DIMS", d, "dimension", hash)]
           A == [r \in Labelled(c) |-> TextOf("A-ANNO", r, "room_annotation", hash)]
           m == TextOf("DG-META", "architectural-metadata", "metadata", hash)
           Of(q) == {q[x] : x \in DOMAIN q}
<1>1. DrawnPlan(c, hash).entities =
        InOrder({GridOf(c, hash, g) : g \in DOMAIN c.grids})
        \o InOrder({WallOf(c, hash, w) : w \in DOMAIN c.walls})
        \o InOrder({CentreOf(c, hash, w) : w \in DOMAIN c.walls})
        \o InOrder({OpeningOf(c, hash, o) : o \in DOMAIN c.openings})
        \o InOrder({ColumnOf(c, hash, k) : k \in DOMAIN c.columns})
        \o InOrder({RoomOf(c, hash, r) : r \in DOMAIN c.rooms})
        \o InOrder({TextOf("A-DIMS", d, "dimension", hash) : d \in Noted(c)})
        \o InOrder({TextOf("A-ANNO", r, "room_annotation", hash) : r \in Labelled(c)})
        \o <<m>>
  BY Zenon DEF DrawnPlan, Drawing, PlanEntity, GridOf, WallOf, CentreOf, OpeningOf, ColumnOf, RoomOf, TextOf, Noted, Labelled
<1>2. /\ {GridOf(c, hash, g) : g \in DOMAIN c.grids} = Of(G)
      /\ {WallOf(c, hash, w) : w \in DOMAIN c.walls} = Of(W)
      /\ {CentreOf(c, hash, w) : w \in DOMAIN c.walls} = Of(M)
      /\ {OpeningOf(c, hash, o) : o \in DOMAIN c.openings} = Of(O)
      /\ {ColumnOf(c, hash, k) : k \in DOMAIN c.columns} = Of(K)
      /\ {RoomOf(c, hash, r) : r \in DOMAIN c.rooms} = Of(R)
      /\ {TextOf("A-DIMS", d, "dimension", hash) : d \in Noted(c)} = Of(N)
      /\ {TextOf("A-ANNO", r, "room_annotation", hash) : r \in Labelled(c)} = Of(A)
  OBVIOUS
<1>3. /\ DOMAIN G = DOMAIN c.grids /\ DOMAIN W = DOMAIN c.walls /\ DOMAIN M = DOMAIN c.walls
      /\ DOMAIN O = DOMAIN c.openings /\ DOMAIN K = DOMAIN c.columns /\ DOMAIN R = DOMAIN c.rooms
      /\ DOMAIN N = Noted(c) /\ DOMAIN A = Labelled(c)
  OBVIOUS
<1>4. IsFiniteSet(Noted(c)) /\ IsFiniteSet(Labelled(c))
  <2>1. IsFiniteSet({})
    BY FS_EmptySet
  <2> QED  BY <2>1, PlanFinite DEF Noted, Labelled
<1>5. /\ \A x \in DOMAIN G : G[x].layer \in {"A-GRID"}
      /\ \A x \in DOMAIN W : W[x].layer \in {"A-WALL"}
      /\ \A x \in DOMAIN M : M[x].layer \in {"A-WALL-CENTER"}
      /\ \A x \in DOMAIN O : O[x].layer \in {"A-DOOR", "A-WIND"}
      /\ \A x \in DOMAIN K : K[x].layer \in {"A-COLS"}
      /\ \A x \in DOMAIN R : R[x].layer \in {"A-ROOM"}
      /\ \A x \in DOMAIN N : N[x].layer \in {"A-DIMS"}
      /\ \A x \in DOMAIN A : A[x].layer \in {"A-ANNO"}
      /\ m.layer \in {"DG-META"}
  BY DEF PlanEntity, GridOf, WallOf, CentreOf, OpeningOf, ColumnOf, RoomOf, TextOf, OpeningLayer
<1> HIDE DEF G, W, M, O, K, R, N, A, m
<1>6. /\ Listed(InOrder(Of(G)), Of(G), {"A-GRID"}) /\ Listed(InOrder(Of(W)), Of(W), {"A-WALL"})
      /\ Listed(InOrder(Of(M)), Of(M), {"A-WALL-CENTER"}) /\ Listed(InOrder(Of(O)), Of(O), {"A-DOOR", "A-WIND"})
      /\ Listed(InOrder(Of(K)), Of(K), {"A-COLS"}) /\ Listed(InOrder(Of(R)), Of(R), {"A-ROOM"})
      /\ Listed(InOrder(Of(N)), Of(N), {"A-DIMS"}) /\ Listed(InOrder(Of(A)), Of(A), {"A-ANNO"})
  <2>1. /\ IsFiniteSet(DOMAIN G) /\ IsFiniteSet(DOMAIN W) /\ IsFiniteSet(DOMAIN M) /\ IsFiniteSet(DOMAIN O)
        /\ IsFiniteSet(DOMAIN K) /\ IsFiniteSet(DOMAIN R) /\ IsFiniteSet(DOMAIN N) /\ IsFiniteSet(DOMAIN A)
    BY <1>3, <1>4, PlanFinite
  <2> QED  BY <1>5, <2>1, ListedFamily
<1>7. Listed(<<m>>, {m}, {"DG-META"})
  BY <1>5, ListedSingle
<1> DEFINE a == InOrder(Of(G))
           b == InOrder(Of(W))
           e == InOrder(Of(M))
           f == InOrder(Of(O))
           g1 == InOrder(Of(K))
           h == InOrder(Of(R))
           i == InOrder(Of(N))
           j == InOrder(Of(A))
<1>8. DrawnPlan(c, hash).entities = a \o b \o e \o f \o g1 \o h \o i \o j \o <<m>>
  BY <1>1, <1>2, Zenon
<1> HIDE DEF Of
<1>9. /\ Listed(a, Of(G), {"A-GRID"}) /\ Listed(b, Of(W), {"A-WALL"}) /\ Listed(e, Of(M), {"A-WALL-CENTER"})
      /\ Listed(f, Of(O), {"A-DOOR", "A-WIND"}) /\ Listed(g1, Of(K), {"A-COLS"}) /\ Listed(h, Of(R), {"A-ROOM"})
      /\ Listed(i, Of(N), {"A-DIMS"}) /\ Listed(j, Of(A), {"A-ANNO"})
  BY <1>6
<1> HIDE DEF a, b, e, f, g1, h, i, j
<1>10. Listed(a \o b, Of(G) \cup Of(W), {"A-GRID"} \cup {"A-WALL"})
  BY <1>9, ListedConcat
<1>11. Listed(a \o b \o e, Of(G) \cup Of(W) \cup Of(M), {"A-GRID"} \cup {"A-WALL"} \cup {"A-WALL-CENTER"})
  BY <1>9, <1>10, ListedConcat
<1>12. Listed(a \o b \o e \o f, Of(G) \cup Of(W) \cup Of(M) \cup Of(O),
              {"A-GRID"} \cup {"A-WALL"} \cup {"A-WALL-CENTER"} \cup {"A-DOOR", "A-WIND"})
  BY <1>9, <1>11, ListedConcat
<1>13. Listed(a \o b \o e \o f \o g1, Of(G) \cup Of(W) \cup Of(M) \cup Of(O) \cup Of(K),
              {"A-GRID"} \cup {"A-WALL"} \cup {"A-WALL-CENTER"} \cup {"A-DOOR", "A-WIND"} \cup {"A-COLS"})
  BY <1>9, <1>12, ListedConcat
<1>14. Listed(a \o b \o e \o f \o g1 \o h, Of(G) \cup Of(W) \cup Of(M) \cup Of(O) \cup Of(K) \cup Of(R),
              {"A-GRID"} \cup {"A-WALL"} \cup {"A-WALL-CENTER"} \cup {"A-DOOR", "A-WIND"} \cup {"A-COLS"}
                \cup {"A-ROOM"})
  BY <1>9, <1>13, ListedConcat
<1>15. Listed(a \o b \o e \o f \o g1 \o h \o i,
              Of(G) \cup Of(W) \cup Of(M) \cup Of(O) \cup Of(K) \cup Of(R) \cup Of(N),
              {"A-GRID"} \cup {"A-WALL"} \cup {"A-WALL-CENTER"} \cup {"A-DOOR", "A-WIND"} \cup {"A-COLS"}
                \cup {"A-ROOM"} \cup {"A-DIMS"})
  BY <1>9, <1>14, ListedConcat
<1>16. Listed(a \o b \o e \o f \o g1 \o h \o i \o j,
              Of(G) \cup Of(W) \cup Of(M) \cup Of(O) \cup Of(K) \cup Of(R) \cup Of(N) \cup Of(A),
              {"A-GRID"} \cup {"A-WALL"} \cup {"A-WALL-CENTER"} \cup {"A-DOOR", "A-WIND"} \cup {"A-COLS"}
                \cup {"A-ROOM"} \cup {"A-DIMS"} \cup {"A-ANNO"})
  BY <1>9, <1>15, ListedConcat
<1>17. Listed(a \o b \o e \o f \o g1 \o h \o i \o j \o <<m>>,
              Of(G) \cup Of(W) \cup Of(M) \cup Of(O) \cup Of(K) \cup Of(R) \cup Of(N) \cup Of(A) \cup {m},
              {"A-GRID"} \cup {"A-WALL"} \cup {"A-WALL-CENTER"} \cup {"A-DOOR", "A-WIND"} \cup {"A-COLS"}
                \cup {"A-ROOM"} \cup {"A-DIMS"} \cup {"A-ANNO"} \cup {"DG-META"})
  BY <1>7, <1>16, ListedConcat
<1>18. WrittenPlan(c, hash) =
         Of(G) \cup Of(W) \cup Of(M) \cup Of(O) \cup Of(K) \cup Of(R) \cup Of(N) \cup Of(A) \cup {m}
  BY <1>2, Zenon DEF WrittenPlan, Of, m
<1>19. PlanLayers = {"A-GRID"} \cup {"A-WALL"} \cup {"A-WALL-CENTER"} \cup {"A-DOOR", "A-WIND"} \cup {"A-COLS"}
                      \cup {"A-ROOM"} \cup {"A-DIMS"} \cup {"A-ANNO"} \cup {"DG-META"}
  BY DEF PlanLayers, PlanAnnotations, PrimaryLayers
<1> QED  BY SMTT(30), <1>8, <1>17, <1>18, <1>19

\* They are entities, all with the hash, and boxes but for points and texts.
LEMMA PlanWritten ==
    ASSUME NEW c, PlanContract(c), NEW hash, NEW e \in WrittenPlan(c, hash)
    PROVE  /\ IsEntity(e) /\ e.hash = hash /\ e.labelled
           /\ e.type \notin {"room_seed", "dimension", "room_annotation", "metadata"} => Len(e.points) = 2
<1> DEFINE Good(x) == IsEntity(x) /\ x.hash = hash /\ x.labelled
           Boxed(x) == Good(x) /\ Len(x.points) = 2
<1>1. ASSUME NEW layer, NEW form, NEW id, NEW type, NEW points \in Boxes
      PROVE  Boxed(PlanEntity(layer, form, id, type, points, hash))
  <2>1. points \in Seq(Int \X Int) /\ points # <<>> /\ Len(points) = 2
    BY BoxIsPoints
  <2> QED  BY <2>1 DEF PlanEntity, IsEntity
<1>2. ASSUME NEW layer, NEW form, NEW id, NEW type, NEW p \in Int \X Int
      PROVE  Good(PlanEntity(layer, form, id, type, <<p>>, hash))
  <2> DEFINE points == <<p>>
  <2>1. points \in Seq(Int \X Int) /\ points # <<>>
    OBVIOUS
  <2> HIDE DEF points
  <2>2. Good(PlanEntity(layer, form, id, type, points, hash))
    BY <2>1 DEF PlanEntity, IsEntity
  <2> QED  BY <2>2 DEF points
<1> HIDE DEF Good
<1>3. \A g \in DOMAIN c.grids : Boxed(GridOf(c, hash, g))
  BY <1>1, PlanShapes DEF GridOf
<1>4. \A w \in DOMAIN c.walls : Boxed(WallOf(c, hash, w)) /\ Boxed(CentreOf(c, hash, w))
  BY <1>1, PlanShapes DEF WallOf, CentreOf
<1>5. \A o \in DOMAIN c.openings : Boxed(OpeningOf(c, hash, o))
  BY <1>1, PlanShapes DEF OpeningOf
<1>6. \A k \in DOMAIN c.columns : Boxed(ColumnOf(c, hash, k))
  BY <1>1, PlanShapes DEF ColumnOf
<1>7. \A r \in DOMAIN c.rooms : Good(RoomOf(c, hash, r)) /\ RoomOf(c, hash, r).type = "room_seed"
  <2>1. \A r \in DOMAIN c.rooms : Good(RoomOf(c, hash, r))
    BY <1>2, PlanShapes DEF RoomOf
  <2> QED  BY <2>1 DEF RoomOf, PlanEntity
<1>8. \A layer, id, type : Good(TextOf(layer, id, type, hash)) /\ TextOf(layer, id, type, hash).type = type
  <2>1. <<0, 0>> \in Int \X Int
    OBVIOUS
  <2>2. \A layer, id, type : Good(TextOf(layer, id, type, hash))
    BY <1>2, <2>1 DEF TextOf
  <2> QED  BY <2>2 DEF TextOf, PlanEntity
<1>9. Boxed(e) \/ (Good(e) /\ e.type \in {"room_seed", "dimension", "room_annotation", "metadata"})
  <2> DEFINE Pointed(x) == Good(x) /\ x.type \in {"room_seed", "dimension", "room_annotation", "metadata"}
  <2>1. /\ \A r \in DOMAIN c.rooms : Pointed(RoomOf(c, hash, r))
        /\ \A d \in Noted(c) : Pointed(TextOf("A-DIMS", d, "dimension", hash))
        /\ \A r \in Labelled(c) : Pointed(TextOf("A-ANNO", r, "room_annotation", hash))
        /\ Pointed(TextOf("DG-META", "architectural-metadata", "metadata", hash))
    BY <1>7, <1>8
  <2> HIDE DEF Boxed, Pointed
  <2>2. Boxed(e) \/ Pointed(e)
    BY <1>3, <1>4, <1>5, <1>6, <2>1 DEF WrittenPlan
  <2> QED  BY <2>2 DEF Pointed
<1> QED  BY <1>9 DEF Good

\* A plan as it is drawn.
LEMMA PlanEntities ==
    ASSUME NEW c, PlanContract(c), NEW hash
    PROVE  /\ IsDrawing(DrawnPlan(c, hash))
           /\ \A j \in DOMAIN DrawnPlan(c, hash).entities :
                LET e == DrawnPlan(c, hash).entities[j]
                IN  /\ e.hash = hash
                    /\ e.type \notin {"room_seed", "dimension", "room_annotation", "metadata"} => Len(e.points) = 2
<1> DEFINE d == DrawnPlan(c, hash)
           S == WrittenPlan(c, hash)
           Good(e) == /\ IsEntity(e) /\ e.hash = hash
                      /\ e.type \notin {"room_seed", "dimension", "room_annotation", "metadata"} => Len(e.points) = 2
<1>1. /\ DOMAIN d = {"release", "unit", "layers", "entities", "record", "beside"}
      /\ d.beside \in BOOLEAN
  BY DEF DrawnPlan, Drawing
<1>2. IsFiniteSet(S) /\ Lists(d.entities, S)
  BY PlanListed DEF Listed
<1>3. \A e \in S : Good(e)
  BY PlanWritten
<1> HIDE DEF d, S
<1>4. d.entities \in Seq(S) /\ \A j \in DOMAIN d.entities : d.entities[j] \in S
  BY <1>2, ListedOnce DEF Lists
<1>5. \A e \in S : IsEntity(e)
  BY <1>3
<1> HIDE DEF Good
<1>6. \A j \in DOMAIN d.entities : Good(d.entities[j])
  BY <1>3, <1>4
<1>7. IsDrawing(d)
  BY <1>1, <1>4, <1>5, Zenon DEF IsDrawing
<1> QED  BY <1>6, <1>7 DEF d, Good

\* A plan in inches is one in millimetres, too.
LEMMA NormalizedPlanIsContract ==
    ASSUME NEW c, PlanContract(c), NEW inch \in Nat \ {0}
    PROVE  PlanContract(NormalizedPlan(c, inch))
<1> DEFINE Long(n) == n * inch
           Point(p) == <<Long(p[1]), Long(p[2])>>
           Run(b) == <<Point(b[1]), Point(b[2])>>
           d == NormalizedPlan(c, inch)
<1> SUFFICES ASSUME c.units # "mm" PROVE PlanContract(d)
  BY DEF NormalizedPlan
<1>1. \A n \in Int : Long(n) \in Int
  OBVIOUS
<1>2. \A m, n \in Int : Long(m) = Long(n) => m = n
  <2> SUFFICES ASSUME NEW m \in Int, NEW n \in Int, m * inch = n * inch PROVE m = n
    OBVIOUS
  <2>1. (m - n) * inch = 0
    OBVIOUS
  <2>2. \A a \in Int : a * inch = 0 => a = 0
    OBVIOUS
  <2> QED  BY <2>1, <2>2
<1>3. ASSUME NEW p \in Int \X Int PROVE Point(p) \in Int \X Int
  <2>1. p[1] \in Int /\ p[2] \in Int
    OBVIOUS
  <2> HIDE DEF Long
  <2> QED  BY <1>1, <2>1
<1>4. ASSUME NEW b \in Boxes, b[1] # b[2] PROVE Run(b) \in Boxes /\ Run(b)[1] # Run(b)[2]
  <2>1. b[1] \in Int \X Int /\ b[2] \in Int \X Int
    BY DEF Boxes
  <2>2. Point(b[1]) \in Int \X Int /\ Point(b[2]) \in Int \X Int
    BY <1>3, <2>1
  <2>3. Run(b) \in Boxes
    <3> HIDE DEF Point
    <3> QED  BY <2>2 DEF Boxes
  <2>4. Point(b[1]) # Point(b[2])
    <3> SUFFICES ASSUME Point(b[1]) = Point(b[2]) PROVE FALSE
      OBVIOUS
    <3> HIDE DEF Long
    <3>1. b[1][1] = b[2][1] /\ b[1][2] = b[2][2]
      BY SMTT(30), <1>2, <2>1
    <3> QED  BY <1>4, <2>1, <3>1
  <2> HIDE DEF Point
  <2> QED  BY <2>3, <2>4
<1>5. /\ DOMAIN d = DOMAIN c
      /\ d.grids = [g \in DOMAIN c.grids |-> Run(c.grids[g])]
      /\ d.walls = [w \in DOMAIN c.walls |-> [c.walls[w] EXCEPT !.line = Run(@), !.half = Long(@)]]
      /\ d.openings = [o \in DOMAIN c.openings |-> [c.openings[o] EXCEPT !.offset = Long(@), !.width = Long(@)]]
      /\ d.columns = [k \in DOMAIN c.columns |-> [c.columns[k] EXCEPT !.centre = Point(@), !.half = Long(@)]]
      /\ d.rooms = [r \in DOMAIN c.rooms |-> Point(c.rooms[r])]
      /\ d.dimensions = [i \in DOMAIN c.dimensions |->
                            [c.dimensions[i] EXCEPT !.target = Long(@), !.lower = Long(@), !.upper = Long(@)]]
      /\ d.constraints = [i \in DOMAIN c.constraints |-> [c.constraints[i] EXCEPT !.value = Long(@)]]
  <2>1. DOMAIN c = {"units", "grids", "walls", "openings", "columns", "rooms", "dimensions", "constraints",
                    "free", "notes", "labels"}
    BY DEF PlanContract
  <2> DEFINE G == [g \in DOMAIN c.grids |-> Run(c.grids[g])]
             W == [w \in DOMAIN c.walls |-> [c.walls[w] EXCEPT !.line = Run(@), !.half = Long(@)]]
             O == [o \in DOMAIN c.openings |-> [c.openings[o] EXCEPT !.offset = Long(@), !.width = Long(@)]]
             C == [k \in DOMAIN c.columns |-> [c.columns[k] EXCEPT !.centre = Point(@), !.half = Long(@)]]
             R == [r \in DOMAIN c.rooms |-> Point(c.rooms[r])]
             D == [i \in DOMAIN c.dimensions |->
                     [c.dimensions[i] EXCEPT !.target = Long(@), !.lower = Long(@), !.upper = Long(@)]]
             K == [i \in DOMAIN c.constraints |-> [c.constraints[i] EXCEPT !.value = Long(@)]]
  <2>2. d = [c EXCEPT !.units = "mm", !.grids = G, !.walls = W, !.openings = O, !.columns = C, !.rooms = R,
                      !.dimensions = D, !.constraints = K]
    BY Zenon DEF NormalizedPlan
  <2> HIDE DEF d, G, W, O, C, R, D, K
  <2>3. /\ DOMAIN d = DOMAIN c
        /\ d.grids = G /\ d.walls = W /\ d.openings = O /\ d.columns = C /\ d.rooms = R
        /\ d.dimensions = D /\ d.constraints = K
    BY <2>1, <2>2
  <2> QED  BY Zenon, <2>3 DEF G, W, O, C, R, D, K
<1> HIDE DEF Long, Run, Point, d
<1>6. /\ DOMAIN d.grids = DOMAIN c.grids /\ DOMAIN d.walls = DOMAIN c.walls
      /\ DOMAIN d.openings = DOMAIN c.openings /\ DOMAIN d.columns = DOMAIN c.columns
      /\ DOMAIN d.rooms = DOMAIN c.rooms /\ DOMAIN d.dimensions = DOMAIN c.dimensions
      /\ DOMAIN d.constraints = DOMAIN c.constraints
  BY Zenon, <1>5
<1>7. ASSUME NEW g \in DOMAIN d.grids PROVE d.grids[g] \in Boxes /\ d.grids[g][1] # d.grids[g][2]
  <2>1. c.grids[g] \in Boxes /\ c.grids[g][1] # c.grids[g][2]
    BY <1>6 DEF PlanContract
  <2>2. d.grids[g] = Run(c.grids[g])
    BY Zenon, <1>5
  <2> QED  BY <1>4, <2>1, <2>2
<1>8. ASSUME NEW w \in DOMAIN d.walls
      PROVE  /\ d.walls[w].line \in Boxes /\ d.walls[w].line[1] # d.walls[w].line[2]
             /\ Numbers(d.walls[w], {"half"})
  <2> DEFINE x == c.walls[w]
  <2>1. x.line \in Boxes /\ x.line[1] # x.line[2] /\ Numbers(x, {"half"})
    BY <1>6 DEF PlanContract
  <2>2. d.walls[w] = [x EXCEPT !.line = Run(@), !.half = Long(@)]
    BY Zenon, <1>5
  <2> HIDE DEF x
  <2>3. "half" \in DOMAIN x /\ x.half \in Int
    BY <2>1 DEF Numbers
  <2>4. d.walls[w].half = Long(x.half) /\ "half" \in DOMAIN d.walls[w]
    BY <2>2, <2>3
  <2>5. d.walls[w].line = Run(x.line) \/ d.walls[w].line = x.line
    BY <2>2
  <2>6. Run(x.line) \in Boxes /\ Run(x.line)[1] # Run(x.line)[2]
    BY <1>4, <2>1
  <2>7. d.walls[w].line \in Boxes /\ d.walls[w].line[1] # d.walls[w].line[2]
    BY <2>1, <2>5, <2>6, Zenon
  <2> QED  BY <1>1, <2>3, <2>4, <2>7 DEF Numbers
<1>9. ASSUME NEW o \in DOMAIN d.openings
      PROVE  /\ d.openings[o].wall \in DOMAIN d.walls /\ d.openings[o].type \in {"door", "window", "opening"}
             /\ Numbers(d.openings[o], {"offset", "width"})
  <2> DEFINE x == c.openings[o]
  <2>1. /\ x.wall \in DOMAIN c.walls /\ x.type \in {"door", "window", "opening"}
        /\ Numbers(x, {"offset", "width"})
    BY <1>6 DEF PlanContract
  <2>2. d.openings[o] = [x EXCEPT !.offset = Long(@), !.width = Long(@)]
    BY Zenon, <1>5
  <2> HIDE DEF x
  <2>3. {"offset", "width"} \subseteq DOMAIN x /\ x.offset \in Int /\ x.width \in Int
    BY <2>1 DEF Numbers
  <2>4. /\ DOMAIN d.openings[o] = DOMAIN x /\ d.openings[o].wall = x.wall /\ d.openings[o].type = x.type
        /\ d.openings[o].offset = Long(x.offset) /\ d.openings[o].width = Long(x.width)
    BY <2>2, <2>3
  <2> QED  BY <1>1, <1>6, <2>1, <2>3, <2>4 DEF Numbers
<1>10. ASSUME NEW k \in DOMAIN d.columns
       PROVE  /\ d.columns[k].centre \in Int \X Int /\ Numbers(d.columns[k], {"half"})
              /\ d.columns[k].type \in {"rectangular_column", "circular_column"}
  <2> DEFINE x == c.columns[k]
  <2>1. /\ x.centre \in Int \X Int /\ Numbers(x, {"half"})
        /\ x.type \in {"rectangular_column", "circular_column"}
    BY <1>6 DEF PlanContract
  <2>2. d.columns[k] = [x EXCEPT !.centre = Point(@), !.half = Long(@)]
    BY Zenon, <1>5
  <2> HIDE DEF x
  <2>3. "half" \in DOMAIN x /\ x.half \in Int
    BY <2>1 DEF Numbers
  <2>4. d.columns[k].half = Long(x.half) /\ "half" \in DOMAIN d.columns[k] /\ d.columns[k].type = x.type
    BY <2>2, <2>3
  <2>5. d.columns[k].centre = Point(x.centre) \/ d.columns[k].centre = x.centre
    BY <2>2
  <2>6. d.columns[k].centre \in Int \X Int
    BY <1>3, <2>1, <2>5
  <2> QED  BY <1>1, <2>1, <2>3, <2>4, <2>6 DEF Numbers
<1>11. d.rooms \in [DOMAIN d.rooms -> Int \X Int]
  <2>1. ASSUME NEW r \in DOMAIN c.rooms PROVE d.rooms[r] \in Int \X Int
    <3>1. c.rooms[r] \in Int \X Int
      BY DEF PlanContract
    <3>2. d.rooms[r] = Point(c.rooms[r])
      BY Zenon, <1>5
    <3> QED  BY <1>3, <3>1, <3>2
  <2>2. d.rooms = [r \in DOMAIN d.rooms |-> d.rooms[r]]
    BY Zenon, <1>5
  <2> QED  BY <1>6, <2>1, <2>2
<1>12. ASSUME NEW i \in DOMAIN d.dimensions
       PROVE  /\ Numbers(d.dimensions[i], {"target", "lower", "upper"})
              /\ d.dimensions[i].id = c.dimensions[i].id
  <2> DEFINE x == c.dimensions[i]
  <2>1. Numbers(x, {"target", "lower", "upper"})
    BY <1>6 DEF PlanContract
  <2>2. d.dimensions[i] = [x EXCEPT !.target = Long(@), !.lower = Long(@), !.upper = Long(@)]
    BY Zenon, <1>5
  <2> HIDE DEF x
  <2>3. /\ {"target", "lower", "upper"} \subseteq DOMAIN x
        /\ x.target \in Int /\ x.lower \in Int /\ x.upper \in Int
    BY <2>1 DEF Numbers
  <2>4. /\ DOMAIN d.dimensions[i] = DOMAIN x /\ d.dimensions[i].target = Long(x.target)
        /\ d.dimensions[i].lower = Long(x.lower) /\ d.dimensions[i].upper = Long(x.upper)
        /\ d.dimensions[i].id = x.id
    BY <2>2, <2>3
  <2>5. Numbers(d.dimensions[i], {"target", "lower", "upper"})
    BY <1>1, <2>3, <2>4 DEF Numbers
  <2> QED  BY <2>4, <2>5 DEF x
<1>13. ASSUME NEW i \in DOMAIN d.constraints PROVE Numbers(d.constraints[i], {"value"})
  <2> DEFINE x == c.constraints[i]
  <2>1. Numbers(x, {"value"})
    BY <1>6 DEF PlanContract
  <2>2. d.constraints[i] = [x EXCEPT !.value = Long(@)]
    BY Zenon, <1>5
  <2> HIDE DEF x
  <2>3. "value" \in DOMAIN x /\ x.value \in Int
    BY <2>1 DEF Numbers
  <2>4. "value" \in DOMAIN d.constraints[i] /\ d.constraints[i].value = Long(x.value)
    BY <2>2, <2>3
  <2> QED  BY <1>1, <2>3, <2>4 DEF Numbers
<1>14. PlanIds(d) = PlanIds(c) /\ DimensionIds(d) = DimensionIds(c)
  BY <1>6, <1>12 DEF PlanIds, DimensionIds
<1>15. /\ DOMAIN d = {"units", "grids", "walls", "openings", "columns", "rooms", "dimensions", "constraints",
                      "free", "notes", "labels"}
       /\ IsFiniteSet(PlanIds(d)) /\ IsFiniteSet(DOMAIN d.dimensions \cup DOMAIN d.constraints)
       /\ DimensionIds(d) \cap PlanIds(d) = {}
  BY Zenon, <1>5, <1>6, <1>14 DEF PlanContract
<1>16. \A x, y \in {"grids", "walls", "openings", "columns", "rooms"} : x # y => DOMAIN d[x] \cap DOMAIN d[y] = {}
  <2>1. \A x, y \in {"grids", "walls", "openings", "columns", "rooms"} : x # y => DOMAIN c[x] \cap DOMAIN c[y] = {}
    BY DEF PlanContract
  <2>2. \A x \in {"grids", "walls", "openings", "columns", "rooms"} : DOMAIN d[x] = DOMAIN c[x]
    BY <1>6
  <2> QED  BY <2>1, <2>2
<1> QED  BY <1>7, <1>8, <1>9, <1>10, <1>11, <1>12, <1>13, <1>15, <1>16 DEF PlanContract

\* What is read of a plan: under every id its first entity, and the last centreline.
PrimaryOf(d) == ReadOn(d, PrimaryLayers, Min)
LinesOf(d) == ReadOn(d, {"A-WALL-CENTER"}, Max)

LEMMA PlanReadings ==
    ASSUME NEW c, NEW d, NEW hash
    PROVE  /\ VerifyPlan(c, d, hash) = JudgedPlan(c, PrimaryOf(d), LinesOf(d), PlanReadingFaults(c, d, hash))
           /\ LET M == Measured(d, PrimaryLayers)
              IN  PrimaryOf(d) = [id \in {d.entities[i].id : i \in M} |->
                                    d.entities[Min({i \in M : d.entities[i].id = id})]]
           /\ LET M == Measured(d, {"A-WALL-CENTER"})
              IN  LinesOf(d) = [id \in {d.entities[i].id : i \in M} |->
                                  d.entities[Max({i \in M : d.entities[i].id = id})]]
<1>1. VerifyPlan(c, d, hash) = JudgedPlan(c, PrimaryOf(d), LinesOf(d), PlanReadingFaults(c, d, hash))
  BY Zenon DEF VerifyPlan, PrimaryOf, LinesOf, ReadOn
<1>2. LET M == Measured(d, PrimaryLayers)
      IN  PrimaryOf(d) = [id \in {d.entities[i].id : i \in M} |->
                                    d.entities[Min({i \in M : d.entities[i].id = id})]]
  BY Zenon DEF PrimaryOf, ReadOn
<1>3. LET M == Measured(d, {"A-WALL-CENTER"})
      IN  LinesOf(d) = [id \in {d.entities[i].id : i \in M} |->
                                    d.entities[Max({i \in M : d.entities[i].id = id})]]
  BY Zenon DEF LinesOf, ReadOn
<1> QED  BY <1>1, <1>2, <1>3

\* Nothing is wrong with a plan that passed.
LEMMA PlanFaultless ==
    ASSUME NEW c, NEW hash, NEW d, VerifyPlan(c, d, hash).status = "passed"
    PROVE  /\ PlanReadingFaults(c, d, hash) = {}
           /\ OpeningViolations(c, PrimaryOf(d)) = {} /\ WallViolations(c, PrimaryOf(d), LinesOf(d)) = {}
           /\ \A i \in DOMAIN c.constraints : ConstraintViolations(c, PrimaryOf(d), i) = {}
<1> DEFINE read == PrimaryOf(d)
           lines == LinesOf(d)
           Unread == PlanIds(c) \ DOMAIN read
           E == {ConstraintViolations(c, read, i) : i \in DOMAIN c.constraints}
           V == PlanReadingFaults(c, d, hash) \cup PlanDimensionFaults(c, read)
                  \cup (IF Unread = {} THEN {} ELSE {Violation("ENTITY_MISSING", Unread, 0, FALSE)})
                  \cup PlanDuplicates(read) \cup OpeningViolations(c, read) \cup WallViolations(c, read, lines)
                  \cup UNION E
<1>1. Unprojectable(c, read) \in BOOLEAN
  BY DEF Unprojectable
<1>2. Answer(Unprojectable(c, read), V).status = "passed"
  <2>1. JudgedPlan(c, read, lines, PlanReadingFaults(c, d, hash)) = Answer(Unprojectable(c, read), V)
    BY Zenon DEF JudgedPlan
  <2> QED  BY <2>1, PlanReadings
<1>3. V = {}
  <2> HIDE DEF V, read
  <2> QED  BY <1>1, <1>2, PassedMeansNoViolation
<1>4. UNION E = {} /\ PlanReadingFaults(c, d, hash) = {} /\ OpeningViolations(c, read) = {}
      /\ WallViolations(c, read, lines) = {}
  <2> HIDE DEF E, read, lines, Unread
  <2> QED  BY <1>3
<1> HIDE DEF read, lines
<1>5. \A i \in DOMAIN c.constraints : ConstraintViolations(c, read, i) = {}
  BY <1>4
<1> HIDE DEF E
<1> QED  BY <1>4, <1>5 DEF read, lines

\* What a plan is expected to show.
LEMMA PlanExpected ==
    ASSUME NEW c, PlanContract(c)
    PROVE  /\ \A r \in ExpectedPlan(c) :
                /\ r = <<r[1], r[2], r[3]>>
                /\ r[3] = "A-WALL-CENTER" <=> r[2] = "wall_centerline"
                /\ r[3] \in PrimaryLayers => r[1] \in PlanIds(c)
           /\ \A g \in DOMAIN c.grids : <<g, "grid", "A-GRID">> \in ExpectedPlan(c)
           /\ \A w \in DOMAIN c.walls : /\ <<w, "wall", "A-WALL">> \in ExpectedPlan(c)
                                        /\ <<w, "wall_centerline", "A-WALL-CENTER">> \in ExpectedPlan(c)
           /\ \A o \in DOMAIN c.openings : <<o, c.openings[o].type, OpeningLayer(c, o)>> \in ExpectedPlan(c)
           /\ \A k \in DOMAIN c.columns : <<k, c.columns[k].type, "A-COLS">> \in ExpectedPlan(c)
           /\ \A r \in DOMAIN c.rooms : <<r, "room_seed", "A-ROOM">> \in ExpectedPlan(c)
<1>1. /\ \A o \in DOMAIN c.openings : /\ c.openings[o].type \in {"door", "window", "opening"}
                                      /\ OpeningLayer(c, o) \in {"A-WIND", "A-DOOR"}
      /\ \A k \in DOMAIN c.columns : c.columns[k].type \in {"rectangular_column", "circular_column"}
  BY DEF PlanContract, OpeningLayer
<1>2. ASSUME NEW r \in ExpectedPlan(c)
      PROVE  /\ r = <<r[1], r[2], r[3]>>
             /\ r[3] = "A-WALL-CENTER" <=> r[2] = "wall_centerline"
             /\ r[3] \in PrimaryLayers => r[1] \in PlanIds(c)
  <2>1. \/ \E g \in DOMAIN c.grids : r = <<g, "grid", "A-GRID">>
        \/ \E w \in DOMAIN c.walls : r = <<w, "wall", "A-WALL">>
        \/ \E w \in DOMAIN c.walls : r = <<w, "wall_centerline", "A-WALL-CENTER">>
        \/ \E o \in DOMAIN c.openings : r = <<o, c.openings[o].type, OpeningLayer(c, o)>>
        \/ \E k \in DOMAIN c.columns : r = <<k, c.columns[k].type, "A-COLS">>
        \/ \E x \in DOMAIN c.rooms : r = <<x, "room_seed", "A-ROOM">>
        \/ \E x \in DimensionIds(c) : r = <<x, "dimension", "A-DIMS">>
        \/ \E x \in DOMAIN c.rooms : r = <<x, "room_annotation", "A-ANNO">>
        \/ r = <<"architectural-metadata", "metadata", "DG-META">>
    BY Zenon DEF ExpectedPlan
  <2> USE DEF PlanIds, PrimaryLayers
  <2>2. CASE \E g \in DOMAIN c.grids : r = <<g, "grid", "A-GRID">>
    BY <2>2
  <2>3. CASE \E w \in DOMAIN c.walls : r = <<w, "wall", "A-WALL">>
    BY <2>3
  <2>4. CASE \E w \in DOMAIN c.walls : r = <<w, "wall_centerline", "A-WALL-CENTER">>
    BY <2>4
  <2>5. CASE \E o \in DOMAIN c.openings : r = <<o, c.openings[o].type, OpeningLayer(c, o)>>
    BY <1>1, <2>5
  <2>6. CASE \E k \in DOMAIN c.columns : r = <<k, c.columns[k].type, "A-COLS">>
    BY <1>1, <2>6
  <2>7. CASE \E x \in DOMAIN c.rooms : r = <<x, "room_seed", "A-ROOM">>
    BY <2>7
  <2>8. CASE \E x \in DimensionIds(c) : r = <<x, "dimension", "A-DIMS">>
    BY <2>8
  <2>9. CASE \E x \in DOMAIN c.rooms : r = <<x, "room_annotation", "A-ANNO">>
    BY <2>9
  <2>10. CASE r = <<"architectural-metadata", "metadata", "DG-META">>
    BY <2>10
  <2> QED  BY <2>1, <2>2, <2>3, <2>4, <2>5, <2>6, <2>7, <2>8, <2>9, <2>10
<1>3. /\ \A g \in DOMAIN c.grids : <<g, "grid", "A-GRID">> \in ExpectedPlan(c)
      /\ \A w \in DOMAIN c.walls : /\ <<w, "wall", "A-WALL">> \in ExpectedPlan(c)
                                   /\ <<w, "wall_centerline", "A-WALL-CENTER">> \in ExpectedPlan(c)
      /\ \A o \in DOMAIN c.openings : <<o, c.openings[o].type, OpeningLayer(c, o)>> \in ExpectedPlan(c)
      /\ \A k \in DOMAIN c.columns : <<k, c.columns[k].type, "A-COLS">> \in ExpectedPlan(c)
      /\ \A r \in DOMAIN c.rooms : <<r, "room_seed", "A-ROOM">> \in ExpectedPlan(c)
  BY DEF ExpectedPlan
<1> QED  BY <1>2, <1>3

\* What is read of a plan with no fault in its reading: every entity, in a representation
\* of its own that the contract has, and one of an id on the layers that are measured.
LEMMA PlanRead ==
    ASSUME NEW c, PlanContract(c), NEW hash, NEW d, NEW d0, Traced(d, d0), PlanReadingFaults(c, d, hash) = {}
    PROVE  /\ Len(d.entities) \in Nat /\ DOMAIN d.entities = 1..Len(d.entities)
           /\ \A i \in DOMAIN d.entities :
                LET e == d.entities[i]
                IN /\ TracedEntity(e, d0) /\ e.labelled /\ e.hash = hash
                   /\ Representation(e) \in ExpectedPlan(c) /\ MeasurableOnPlan(e)
                   /\ e.layer \in PrimaryLayers => e.id \in DOMAIN PrimaryOf(d) /\ PrimaryOf(d)[e.id] = e
                   /\ e.layer = "A-WALL-CENTER" => e.id \in DOMAIN LinesOf(d) /\ LinesOf(d)[e.id] = e
           /\ \A i, j \in DOMAIN d.entities : Representation(d.entities[i]) = Representation(d.entities[j]) => i = j
           /\ \A i, j \in DOMAIN d.entities :
                d.entities[i].layer \in PrimaryLayers /\ d.entities[j].layer \in PrimaryLayers
                  /\ d.entities[i].id = d.entities[j].id => i = j
           /\ \A r \in ExpectedPlan(c) : \E i \in DOMAIN d.entities : Representation(d.entities[i]) = r
<1> DEFINE On(i) == d.entities[i]
           All == DOMAIN d.entities
           First == FirstSeenPlan(d)
<1>1. PICK S : d.entities \in Seq(S) /\ \A e \in S : TracedEntity(e, d0)
  BY DEF Traced
<1>2. Len(d.entities) \in Nat /\ All = 1..Len(d.entities) /\ \A i \in All : TracedEntity(On(i), d0)
  BY <1>1, LenProperties, ElementOfSeq
<1>3. ASSUME NEW i \in All
      PROVE  /\ On(i).layer \in PlanLayers /\ On(i).labelled /\ On(i).hash = hash /\ i \in First
             /\ Representation(On(i)) \in ExpectedPlan(c) /\ MeasurableOnPlan(On(i))
             /\ On(i).layer \in PrimaryLayers =>
                  ~\E j \in Measured(d, PrimaryLayers) : j < i /\ On(j).id = On(i).id
  <2> DEFINE e == On(i)
             Repeated == \E j \in Measured(d, PrimaryLayers) : j < i /\ On(j).id = On(i).id
             Met == IF Representation(e) \notin ExpectedPlan(c) THEN {"IDENTITY_MISMATCH"} ELSE {}
             Made == IF ~Typed(e) THEN {"UNSUPPORTED"}
                     ELSE IF ~MeasurableOnPlan(e) THEN {"GEOMETRY_INVALID"}
                     ELSE IF e.layer \in PrimaryLayers /\ Repeated THEN {"ID_DUPLICATE"}
                     ELSE {}
             Once == IF i \notin FirstSeenPlan(d) THEN {"ID_DUPLICATE"} ELSE Met \cup Made
             Codes == IF e.layer \notin PlanLayers THEN {"LAYER_INVALID"}
                      ELSE IF ~e.labelled THEN {"XDATA_MISSING"}
                      ELSE (IF e.hash # hash THEN {"HASH_MISMATCH"} ELSE {}) \cup Once
  <2>1. PlanEntityFaults(c, d, hash, i) = {}
    BY Zenon DEF PlanReadingFaults
  <2>2. PlanEntityFaults(c, d, hash, i) = {Violation(code, IF e.labelled THEN {e.id} ELSE {}, 0, FALSE) : code \in Codes}
    BY Zenon DEF PlanEntityFaults
  <2>3. Codes = {}
    <3> HIDE DEF Codes
    <3> QED  BY <2>1, <2>2
  <2> HIDE DEF Met, Made
  <2>4. e.layer \in PlanLayers /\ e.labelled /\ e.hash = hash /\ i \in First /\ Met = {} /\ Made = {}
    BY <2>3
  <2>5. Representation(e) \in ExpectedPlan(c)
    BY <2>4 DEF Met
  <2> HIDE DEF Repeated
  <2>6. MeasurableOnPlan(e) /\ ~(e.layer \in PrimaryLayers /\ Repeated)
    BY <2>4 DEF Made
  <2> QED  BY <2>4, <2>5, <2>6 DEF Repeated
<1>4. ApprovedPlan(d) = All
  BY <1>3 DEF ApprovedPlan
<1>5. ASSUME NEW i \in All, NEW j \in All, j < i, Representation(On(i)) = Representation(On(j)) PROVE FALSE
  <2>1. i \in First /\ On(j).labelled
    BY <1>3
  <2> HIDE DEF On
  <2>2. Representation(On(j)) # Representation(On(i))
    BY <1>4, <1>5, <2>1 DEF FirstSeenPlan, On
  <2> QED  BY <1>5, <2>2
<1>6. ASSUME NEW i \in All, NEW j \in All, Representation(On(i)) = Representation(On(j)) PROVE i = j
  <2>1. i \in Nat /\ j \in Nat
    BY <1>2
  <2> QED  BY <1>5, <1>6, <2>1
<1>7. ASSUME NEW L PROVE Measured(d, L) = {i \in All : On(i).layer \in L}
  <2>1. First = All
    BY <1>3, <1>4 DEF FirstSeenPlan
  <2> QED  BY <1>3, <2>1 DEF Measured
<1>8. ASSUME NEW i \in All, NEW j \in All, j < i, On(i).layer \in PrimaryLayers, On(j).layer \in PrimaryLayers,
             On(i).id = On(j).id
      PROVE  FALSE
  <2>1. j \in Measured(d, PrimaryLayers)
    BY <1>7, <1>8
  <2> QED  BY <1>3, <1>8, <2>1
<1>9. ASSUME NEW i \in All, NEW j \in All, On(i).layer \in PrimaryLayers, On(j).layer \in PrimaryLayers,
             On(i).id = On(j).id
      PROVE  i = j
  <2>1. i \in Nat /\ j \in Nat
    BY <1>2
  <2> QED  BY <1>8, <1>9, <2>1
<1>10. ASSUME NEW i \in All, NEW j \in All, On(i).layer = "A-WALL-CENTER", On(j).layer = "A-WALL-CENTER",
              On(i).id = On(j).id
       PROVE  i = j
  <2>1. Representation(On(i)) \in ExpectedPlan(c) /\ Representation(On(j)) \in ExpectedPlan(c)
    BY <1>3
  <2>2. On(i).type = "wall_centerline" /\ On(j).type = "wall_centerline"
    BY <1>10, <2>1, PlanExpected DEF Representation
  <2>3. Representation(On(i)) = Representation(On(j))
    BY <1>10, <2>2 DEF Representation
  <2> QED  BY <1>6, <2>3
<1>11. ASSUME NEW i \in All, On(i).layer \in PrimaryLayers
       PROVE  On(i).id \in DOMAIN PrimaryOf(d) /\ PrimaryOf(d)[On(i).id] = On(i)
  <2> DEFINE M == Measured(d, PrimaryLayers)
             Ids == {d.entities[j].id : j \in M}
             Own(id) == {j \in M : d.entities[j].id = id}
  <2>1. PrimaryOf(d) = [id \in Ids |-> d.entities[Min(Own(id))]]
    BY PlanReadings
  <2>2. i \in M /\ M \subseteq All /\ \A j \in M : On(j).layer \in PrimaryLayers
    BY <1>7, <1>11
  <2> HIDE DEF M
  <2>3. Own(On(i).id) = {i}
    BY <1>9, <1>11, <2>2
  <2>4. Min({i}) = i
    <3>1. i \in Int
      BY <1>2
    <3> QED  BY <3>1 DEF Min
  <2>5. On(i).id \in Ids
    BY <2>2
  <2> HIDE DEF Ids, Own
  <2> QED  BY <2>1, <2>3, <2>4, <2>5
<1>12. ASSUME NEW i \in All, On(i).layer = "A-WALL-CENTER"
       PROVE  On(i).id \in DOMAIN LinesOf(d) /\ LinesOf(d)[On(i).id] = On(i)
  <2> DEFINE M == Measured(d, {"A-WALL-CENTER"})
             Ids == {d.entities[j].id : j \in M}
             Own(id) == {j \in M : d.entities[j].id = id}
  <2>1. LinesOf(d) = [id \in Ids |-> d.entities[Max(Own(id))]]
    BY PlanReadings
  <2>2. i \in M /\ M \subseteq All /\ \A j \in M : On(j).layer = "A-WALL-CENTER"
    BY <1>7, <1>12
  <2> HIDE DEF M
  <2>3. Own(On(i).id) = {i}
    BY <1>10, <1>12, <2>2
  <2>4. Max({i}) = i
    <3>1. i \in Int
      BY <1>2
    <3> QED  BY <3>1 DEF Max
  <2>5. On(i).id \in Ids
    BY <2>2
  <2> HIDE DEF Ids, Own
  <2> QED  BY <2>1, <2>3, <2>4, <2>5
<1>13. ASSUME NEW r \in ExpectedPlan(c) PROVE \E i \in All : Representation(On(i)) = r
  <2> DEFINE Missing == ExpectedPlan(c) \ {Representation(d.entities[i]) : i \in FirstSeenPlan(d)}
             Named == {m[1] : m \in Missing}
  <2>1. MissingRepresentations(c, d) = {}
    BY DEF PlanReadingFaults
  <2>2. MissingRepresentations(c, d) = IF Missing = {} THEN {} ELSE {Violation("ENTITY_MISSING", Named, 0, FALSE)}
    BY Zenon DEF MissingRepresentations
  <2>3. Missing = {}
    <3> HIDE DEF Missing, Named
    <3> QED  BY <2>1, <2>2
  <2>4. First \subseteq All
    BY <1>4 DEF FirstSeenPlan
  <2> QED  BY <2>3, <2>4
<1> HIDE DEF First
<1> QED  BY <1>2, <1>3, <1>6, <1>9, <1>11, <1>12, <1>13

\* The entity of a drawing that has an id on some layers.
PlacedOf(d, id, layers) ==
    d.entities[CHOOSE i \in DOMAIN d.entities : d.entities[i].id = id /\ d.entities[i].layer \in layers]

\* All but points and texts of a drawing have two corners.
Cornered(d) ==
    \A j \in DOMAIN d.entities :
      d.entities[j].type \notin {"room_seed", "dimension", "room_annotation", "metadata"} =>
        Len(d.entities[j].points) = 2

\* What was read has every feature of a plan, with points, and every centreline.
WholePlan(c, read, lines) ==
    /\ \A id \in PlanIds(c) : id \in DOMAIN read /\ read[id].points \in Seq(Int \X Int) /\ read[id].points # <<>>
    /\ \A w \in DOMAIN c.walls :
         /\ w \in DOMAIN lines /\ lines[w].points \in Seq(Int \X Int) /\ lines[w].points # <<>>
         /\ DOMAIN lines[w].points = 1..2
    /\ \A o \in DOMAIN c.openings : DOMAIN read[o].points = 1..2 /\ read[o].layer \in {"A-DOOR", "A-WIND"}
    /\ \A k \in DOMAIN c.columns : read[k].layer = "A-COLS"

\* What is measured of a plan with no fault in its reading is the file.
LEMMA PlanMeasured ==
    ASSUME NEW c, PlanContract(c), NEW hash, NEW d, NEW d0, Traced(d, d0), Cornered(d0),
           PlanReadingFaults(c, d, hash) = {}
    PROVE  /\ WholePlan(c, PrimaryOf(d), LinesOf(d))
           /\ \A id \in PlanIds(c) : PrimaryOf(d)[id] = PlacedOf(d, id, PrimaryLayers)
           /\ \A w \in DOMAIN c.walls : LinesOf(d)[w] = PlacedOf(d, w, {"A-WALL-CENTER"})
<1> DEFINE read == PrimaryOf(d)
           lines == LinesOf(d)
           On(i) == d.entities[i]
           All == DOMAIN d.entities
           Fits(i, id, type, layer) ==
               /\ On(i).id = id /\ On(i).type = type /\ On(i).layer = layer
               /\ On(i).points \in Seq(Int \X Int) /\ On(i).points # <<>>
               /\ type \notin {"room_seed", "dimension", "room_annotation", "metadata"} => DOMAIN On(i).points = 1..2
<1>1. /\ \A i \in DOMAIN d.entities :
                LET e == d.entities[i]
                IN /\ TracedEntity(e, d0) /\ e.labelled /\ e.hash = hash
                   /\ Representation(e) \in ExpectedPlan(c) /\ MeasurableOnPlan(e)
                   /\ e.layer \in PrimaryLayers => e.id \in DOMAIN PrimaryOf(d) /\ PrimaryOf(d)[e.id] = e
                   /\ e.layer = "A-WALL-CENTER" => e.id \in DOMAIN LinesOf(d) /\ LinesOf(d)[e.id] = e
      /\ \A i, j \in DOMAIN d.entities : Representation(d.entities[i]) = Representation(d.entities[j]) => i = j
      /\ \A i, j \in DOMAIN d.entities :
                d.entities[i].layer \in PrimaryLayers /\ d.entities[j].layer \in PrimaryLayers
                  /\ d.entities[i].id = d.entities[j].id => i = j
      /\ \A r \in ExpectedPlan(c) : \E i \in DOMAIN d.entities : Representation(d.entities[i]) = r
  BY PlanRead
\* A representation that is expected is on file, and is what is read.
<1>2. ASSUME NEW id, NEW type, NEW layer, <<id, type, layer>> \in ExpectedPlan(c)
      PROVE  \E i \in All : Fits(i, id, type, layer)
  <2>1. PICK i \in All : Representation(On(i)) = <<id, type, layer>>
    BY <1>1, <1>2
  <2>2. On(i).id = id /\ On(i).type = type /\ On(i).layer = layer
    BY <2>1 DEF Representation
  <2>3. TracedEntity(On(i), d0)
    BY <1>1
  <2>4. IsEntity(On(i)) /\ \E j \in DOMAIN d0.entities : On(i).type = d0.entities[j].type
                                                         /\ Len(On(i).points) = Len(d0.entities[j].points)
    BY <2>3 DEF TracedEntity
  <2> DEFINE p == On(i).points
  <2>5. p \in Seq(Int \X Int) /\ p # <<>>
    BY <2>4 DEF IsEntity
  <2>6. type \notin {"room_seed", "dimension", "room_annotation", "metadata"} => Len(p) = 2
    BY <2>2, <2>4 DEF Cornered
  <2> HIDE DEF p
  <2>7. type \notin {"room_seed", "dimension", "room_annotation", "metadata"} => DOMAIN p = 1..2
    BY <2>5, <2>6, LenProperties
  <2> QED  BY <2>2, <2>5, <2>7 DEF p
<1> HIDE DEF Fits
<1>3. ASSUME NEW id, NEW type, NEW layer, <<id, type, layer>> \in ExpectedPlan(c), layer \in PrimaryLayers
      PROVE  /\ id \in DOMAIN read /\ read[id] = PlacedOf(d, id, PrimaryLayers)
             /\ read[id].layer = layer /\ read[id].points \in Seq(Int \X Int) /\ read[id].points # <<>>
             /\ type \notin {"room_seed", "dimension", "room_annotation", "metadata"} =>
                  DOMAIN read[id].points = 1..2
  <2>0. PICK i \in All : Fits(i, id, type, layer)
    BY <1>2, <1>3
  <2>1. /\ On(i).id = id /\ On(i).type = type /\ On(i).layer = layer
        /\ On(i).points \in Seq(Int \X Int) /\ On(i).points # <<>>
        /\ type \notin {"room_seed", "dimension", "room_annotation", "metadata"} => DOMAIN On(i).points = 1..2
    BY <2>0, Zenon DEF Fits
  <2>2. (CHOOSE j \in All : On(j).id = id /\ On(j).layer \in PrimaryLayers) = i
    BY <1>1, <1>3, <2>1
  <2>3. PlacedOf(d, id, PrimaryLayers) = On(i)
    BY <2>2, Zenon DEF PlacedOf
  <2>4. id \in DOMAIN read /\ read[id] = On(i)
    BY <1>1, <1>3, <2>1
  <2> HIDE DEF read, On
  <2> QED  BY <2>1, <2>3, <2>4
<1>4. ASSUME NEW w \in DOMAIN c.walls
      PROVE  /\ w \in DOMAIN lines /\ lines[w] = PlacedOf(d, w, {"A-WALL-CENTER"})
             /\ lines[w].points \in Seq(Int \X Int) /\ lines[w].points # <<>> /\ DOMAIN lines[w].points = 1..2
  <2>1. <<w, "wall_centerline", "A-WALL-CENTER">> \in ExpectedPlan(c)
    BY PlanExpected
  <2>0. PICK i \in All : Fits(i, w, "wall_centerline", "A-WALL-CENTER")
    BY <1>2, <2>1
  <2>2. /\ On(i).id = w /\ On(i).layer = "A-WALL-CENTER"
        /\ On(i).points \in Seq(Int \X Int) /\ On(i).points # <<>> /\ DOMAIN On(i).points = 1..2
    BY <2>0 DEF Fits
  <2>3. ASSUME NEW j \in All, On(j).id = w, On(j).layer = "A-WALL-CENTER" PROVE j = i
    <3>1. lines[w] = On(j) /\ lines[w] = On(i)
      BY <1>1, <2>2, <2>3
    <3>2. Representation(On(j)) = Representation(On(i))
      BY <3>1
    <3> QED  BY <1>1, <3>2
  <2>4. (CHOOSE j \in All : On(j).id = w /\ On(j).layer \in {"A-WALL-CENTER"}) = i
    BY <2>2, <2>3
  <2>5. PlacedOf(d, w, {"A-WALL-CENTER"}) = On(i)
    BY <2>4, Zenon DEF PlacedOf
  <2>6. w \in DOMAIN lines /\ lines[w] = On(i)
    BY <1>1, <2>2
  <2> HIDE DEF lines, On
  <2> QED  BY <2>2, <2>5, <2>6
<1>5. \A o \in DOMAIN c.openings : /\ c.openings[o].type \in {"door", "window", "opening"}
                                   /\ OpeningLayer(c, o) \in {"A-WIND", "A-DOOR"}
  BY DEF PlanContract, OpeningLayer
<1> DEFINE Seen(id) == /\ id \in DOMAIN read /\ read[id] = PlacedOf(d, id, PrimaryLayers)
                       /\ read[id].points \in Seq(Int \X Int) /\ read[id].points # <<>>
<1>6. \A g \in DOMAIN c.grids : Seen(g)
  BY <1>3, PlanExpected DEF PrimaryLayers
<1>7. \A w \in DOMAIN c.walls : Seen(w)
  BY <1>3, PlanExpected DEF PrimaryLayers
<1>8. \A o \in DOMAIN c.openings : Seen(o) /\ DOMAIN read[o].points = 1..2 /\ read[o].layer \in {"A-DOOR", "A-WIND"}
  <2> SUFFICES ASSUME NEW o \in DOMAIN c.openings
               PROVE  Seen(o) /\ DOMAIN read[o].points = 1..2 /\ read[o].layer \in {"A-DOOR", "A-WIND"}
    OBVIOUS
  <2>1. <<o, c.openings[o].type, OpeningLayer(c, o)>> \in ExpectedPlan(c) /\ OpeningLayer(c, o) \in PrimaryLayers
    BY <1>5, PlanExpected DEF PrimaryLayers
  <2> QED  BY <1>3, <1>5, <2>1
<1>9. \A k \in DOMAIN c.columns : Seen(k) /\ read[k].layer = "A-COLS"
  <2> SUFFICES ASSUME NEW k \in DOMAIN c.columns PROVE Seen(k) /\ read[k].layer = "A-COLS"
    OBVIOUS
  <2>1. <<k, c.columns[k].type, "A-COLS">> \in ExpectedPlan(c) /\ "A-COLS" \in PrimaryLayers
    BY PlanExpected DEF PrimaryLayers
  <2> QED  BY <1>3, <2>1
<1>10. \A r \in DOMAIN c.rooms : Seen(r)
  BY <1>3, PlanExpected DEF PrimaryLayers
<1>11. \A id \in PlanIds(c) : Seen(id)
  BY <1>6, <1>7, <1>8, <1>9, <1>10 DEF PlanIds
<1>12. WholePlan(c, read, lines)
  <2> HIDE DEF read, lines
  <2> QED  BY <1>4, <1>8, <1>9, <1>11 DEF WholePlan
<1> HIDE DEF read, lines
<1> QED  BY <1>4, <1>11, <1>12 DEF read, lines

\* A plan with no fault in its reading has what is expected, once.
LEMMA PlanComplete ==
    ASSUME NEW c, PlanContract(c), NEW hash, NEW d, NEW d0, Traced(d, d0), PlanReadingFaults(c, d, hash) = {}
    PROVE  /\ \A i \in DOMAIN d.entities : d.entities[i].labelled /\ d.entities[i].hash = hash
           /\ {<<d.entities[i].id, d.entities[i].type, d.entities[i].layer>> : i \in DOMAIN d.entities}
                = ExpectedPlan(c)
           /\ Len(d.entities) = Cardinality(ExpectedPlan(c))
<1> DEFINE On(i) == d.entities[i]
           All == DOMAIN d.entities
           X == ExpectedPlan(c)
           n == Len(d.entities)
           f == [i \in 1..n |-> Representation(On(i))]
<1>1. /\ n \in Nat /\ All = 1..n
      /\ \A i \in All : On(i).labelled /\ On(i).hash = hash /\ Representation(On(i)) \in X
      /\ \A i, j \in All : Representation(On(i)) = Representation(On(j)) => i = j
      /\ \A r \in X : \E i \in All : Representation(On(i)) = r
  BY PlanRead
<1> HIDE DEF X, n
<1>2. {Representation(On(i)) : i \in All} = X
  BY <1>1
<1>3. f \in Bijection(1..n, X)
  <2>1. f \in [1..n -> X] /\ (\A i, j \in 1..n : f[i] = f[j] => i = j) /\ (\A r \in X : \E i \in 1..n : f[i] = r)
    BY <1>1
  <2> HIDE DEF f
  <2> QED  BY <2>1 DEF Bijection, Injection, Surjection, IsInjective
<1>4. Cardinality(X) = n
  <2>1. IsFiniteSet(1..n) /\ Cardinality(1..n) = n
    BY <1>1, CountTo
  <2>2. ExistsBijection(1..n, X)
    BY <1>3 DEF ExistsBijection
  <2> HIDE DEF f
  <2> QED  BY <2>1, <2>2, FS_Bijection
<1> QED  BY <1>1, <1>2, <1>4 DEF X, n, Representation

\* A centreline runs along the middle of its wall, from one end of it to the other.
LEMMA CentrelineHolds ==
    ASSUME NEW c, PlanContract(c), NEW read, NEW lines, WholePlan(c, read, lines),
           WallViolations(c, read, lines) = {}, NEW w \in DOMAIN c.walls, NEW k \in 1..2, NEW axis \in 1..2
    PROVE  LET at == lines[w].points[k][axis]
           IN IF axis = Axis(c.walls[w].line)
              THEN \E edge \in {Low(read[w].points, axis), High(read[w].points, axis)} : Abs(at - edge) <= Epsilon
              ELSE Abs(at - Centre(read[w].points, axis)) <= Epsilon
<1>1. w \in PlanIds(c)
  BY DEF PlanIds
<1>2. w \in Centred(c, read, lines) /\ DOMAIN lines[w].points = 1..2
  BY <1>1 DEF WholePlan, Centred
<1>3. Close(lines[w].points, OutlineLine(c, read, w))
  <2> SUFFICES ASSUME ~Close(lines[w].points, OutlineLine(c, read, w)) PROVE FALSE
    OBVIOUS
  <2> DEFINE Off == {x \in Centred(c, read, lines) : ~Close(lines[x].points, OutlineLine(c, read, x))}
  <2>1. {Violation("CENTERLINE_MISMATCH", {x}, 0, FALSE) : x \in Off} \subseteq WallViolations(c, read, lines)
    BY Zenon DEF WallViolations
  <2>2. w \in Off
    BY <1>2
  <2> HIDE DEF Off
  <2> QED  BY <2>1, <2>2
<1> DEFINE long == Axis(c.walls[w].line)
           p == lines[w].points
           q == read[w].points
           At(far) == [j \in 1..2 |->
               IF j # long THEN Centre(q, j)
               ELSE IF far = (Sense(c.walls[w].line) = 1) THEN High(q, j) ELSE Low(q, j)]
           near == At(FALSE)
           end == At(TRUE)
           outline == <<near, end>>
<1>4. OutlineLine(c, read, w) = outline
  BY Zenon DEF OutlineLine
<1>5. Abs(p[k][axis] - outline[k][axis]) <= Epsilon
  <2> HIDE DEF outline, p
  <2>1. Close(p, outline) /\ DOMAIN p = 1..2
    BY <1>2, <1>3, <1>4 DEF p
  <2> QED  BY <2>1 DEF Close
<1>6. outline[k] = near \/ outline[k] = end
  <2> HIDE DEF near, end
  <2> QED  OBVIOUS
<1> HIDE DEF outline, p, q, long
<1>7. axis # long => outline[k][axis] = Centre(q, axis)
  BY <1>6
<1>8. axis = long => outline[k][axis] \in {Low(q, axis), High(q, axis)}
  BY <1>6
<1> HIDE DEF At
<1>9. axis # long => Abs(p[k][axis] - Centre(q, axis)) <= Epsilon
  BY <1>5, <1>7
<1>10. axis = long => \E edge \in {Low(q, axis), High(q, axis)} : Abs(p[k][axis] - edge) <= Epsilon
  BY <1>5, <1>8
<1> QED  BY <1>9, <1>10 DEF p, q, long

\* Where an opening lies in its wall, measured along it.
Lies(c, read, o, w, long) ==
    /\ long \in 1..2 /\ w \in DOMAIN c.walls /\ o \in HostedOpenings(c, read)
    /\ Low(read[o].points, long) \in Int /\ High(read[o].points, long) \in Int
    /\ Low(read[w].points, long) \in Int /\ High(read[w].points, long) \in Int
    /\ \A k \in 1..2 : /\ read[o].points[k][long] \in Int
                       /\ Low(read[o].points, long) <= read[o].points[k][long]
                       /\ read[o].points[k][long] <= High(read[o].points, long)
    /\ OpeningWidth(c, read, o) = High(read[o].points, long) - Low(read[o].points, long)
    /\ WallLength(c, read, w) = High(read[w].points, long) - Low(read[w].points, long)
    /\ Offset(c, read, o) = IF Sense(c.walls[w].line) = 1
                            THEN Low(read[o].points, long) - Low(read[w].points, long)
                            ELSE -High(read[o].points, long) - -High(read[w].points, long)

LEMMA OffsetIs ==
    ASSUME NEW c, PlanContract(c), NEW read, NEW lines, WholePlan(c, read, lines), NEW o \in DOMAIN c.openings,
           NEW w, w = c.openings[o].wall, NEW long, long = Axis(c.walls[w].line)
    PROVE  Lies(c, read, o, w, long)
<1>1. long \in 1..2
  BY DEF Axis
<1>2. w \in DOMAIN c.walls
  BY DEF PlanContract
<1>3. o \in PlanIds(c) /\ w \in PlanIds(c)
  BY <1>2 DEF PlanIds
<1> DEFINE p == read[o].points
           q == read[w].points
<1>4. /\ o \in DOMAIN read /\ w \in DOMAIN read /\ p \in Seq(Int \X Int) /\ p # <<>> /\ q \in Seq(Int \X Int) /\ q # <<>>
      /\ DOMAIN p = 1..2
  BY <1>3 DEF WholePlan
<1>5. o \in HostedOpenings(c, read)
  BY <1>4 DEF HostedOpenings
<1>6. /\ OpeningWidth(c, read, o) = High(p, long) - Low(p, long)
      /\ WallLength(c, read, w) = High(q, long) - Low(q, long)
  BY DEF OpeningWidth, WallLength, Extent
<1>7. Offset(c, read, o) = IF Sense(c.walls[w].line) = 1 THEN Low(p, long) - Low(q, long)
                           ELSE -High(p, long) - -High(q, long)
  BY Zenon DEF Offset, Start
<1> HIDE DEF p, q
<1>8. /\ Low(p, long) \in Int /\ High(p, long) \in Int /\ Low(q, long) \in Int /\ High(q, long) \in Int
      /\ \A k \in 1..2 : p[k][long] \in Int /\ Low(p, long) <= p[k][long] /\ p[k][long] <= High(p, long)
  BY Zenon, <1>1, <1>4, LowHigh
<1> QED  BY <1>1, <1>2, <1>5, <1>6, <1>7, <1>8, Zenon DEF p, q, Lies

\* Openings lie within their wall.
LEMMA OpeningWithin ==
    ASSUME NEW c, PlanContract(c), NEW read, NEW lines, WholePlan(c, read, lines), OpeningViolations(c, read) = {},
           NEW o \in DOMAIN c.openings, NEW k \in 1..2, NEW w, w = c.openings[o].wall,
           NEW long, long = Axis(c.walls[w].line)
    PROVE  read[o].points[k][long]
             \in (Low(read[w].points, long) - Epsilon) .. (High(read[w].points, long) + Epsilon)
<1> DEFINE a == Low(read[o].points, long)
           b == High(read[o].points, long)
           x == Low(read[w].points, long)
           y == High(read[w].points, long)
           at == read[o].points[k][long]
           off == Offset(c, read, o)
<1>1. /\ a \in Int /\ b \in Int /\ x \in Int /\ y \in Int /\ at \in Int /\ a <= at /\ at <= b
      /\ o \in HostedOpenings(c, read) /\ OpeningWidth(c, read, o) = b - a /\ WallLength(c, read, w) = y - x
      /\ off = IF Sense(c.walls[w].line) = 1 THEN a - x ELSE -b - -y
  <2>1. Lies(c, read, o, w, long)
    BY SMTT(30), OffsetIs
  <2> QED  BY Zenon, <2>1 DEF Lies
<1>2. ~OutsideHost(off, b - a, y - x)
  <2> SUFFICES ASSUME OutsideHost(off, b - a, y - x) PROVE FALSE
    OBVIOUS
  <2> DEFINE Out == {z \in HostedOpenings(c, read) :
                       OutsideHost(Offset(c, read, z), OpeningWidth(c, read, z),
                                   WallLength(c, read, c.openings[z].wall))}
  <2>1. {Violation("OPENING_OUTSIDE_HOST", {z, c.openings[z].wall}, 0, FreeOffset(c, {z})) : z \in Out}
          \subseteq OpeningViolations(c, read)
    BY Zenon DEF OpeningViolations
  <2> HIDE DEF off
  <2>2. o \in Out
    BY Zenon, <1>1 DEF off
  <2> HIDE DEF Out
  <2> QED  BY <2>1, <2>2
<1> HIDE DEF a, b, x, y, at, off
<1>3. at \in (x - Epsilon) .. (y + Epsilon)
  BY <1>1, <1>2 DEF OutsideHost, Epsilon
<1> QED  BY Zenon, <1>3 DEF at, x, y

\* Two openings of one wall that are wide are beside each other.
LEMMA OpeningsApart ==
    ASSUME NEW c, PlanContract(c), NEW read, NEW lines, WholePlan(c, read, lines), OpeningViolations(c, read) = {},
           NEW o \in DOMAIN c.openings, NEW p \in DOMAIN c.openings, o # p,
           NEW w, w = c.openings[o].wall, w = c.openings[p].wall, NEW long, long = Axis(c.walls[w].line),
           Extent(read[o].points, long) > Epsilon, Extent(read[p].points, long) > Epsilon
    PROVE  \/ Low(read[o].points, long) >= High(read[p].points, long) - Epsilon
           \/ Low(read[p].points, long) >= High(read[o].points, long) - Epsilon
<1> DEFINE a == Low(read[o].points, long)
           b == High(read[o].points, long)
           x == Low(read[p].points, long)
           y == High(read[p].points, long)
           s == Low(read[w].points, long)
           t == High(read[w].points, long)
           from == Offset(c, read, o)
           from2 == Offset(c, read, p)
           to == from + OpeningWidth(c, read, o)
           to2 == from2 + OpeningWidth(c, read, p)
<1>1. /\ a \in Int /\ b \in Int /\ s \in Int /\ t \in Int /\ o \in HostedOpenings(c, read)
      /\ OpeningWidth(c, read, o) = b - a
      /\ from = IF Sense(c.walls[w].line) = 1 THEN a - s ELSE -b - -t
  <2>1. Lies(c, read, o, w, long)
    BY Zenon, OffsetIs
  <2> QED  BY Zenon, <2>1 DEF Lies
<1>2. /\ x \in Int /\ y \in Int /\ p \in HostedOpenings(c, read)
      /\ OpeningWidth(c, read, p) = y - x
      /\ from2 = IF Sense(c.walls[w].line) = 1 THEN x - s ELSE -y - -t
  <2>1. Lies(c, read, p, w, long)
    BY OffsetIs
  <2> QED  BY Zenon, <2>1 DEF Lies
<1>3. b - a > Epsilon /\ y - x > Epsilon
  BY DEF Extent
<1>4. ~(Min({to, to2}) - Max({from, from2}) > Epsilon)
  <2> SUFFICES ASSUME Min({to, to2}) - Max({from, from2}) > Epsilon PROVE FALSE
    OBVIOUS
  <2> DEFINE End(z) == Offset(c, read, z) + OpeningWidth(c, read, z)
             Overlap(u, v) == Min({End(u), End(v)}) - Max({Offset(c, read, u), Offset(c, read, v)})
             Both == {z \in HostedOpenings(c, read) \X HostedOpenings(c, read) :
                        /\ z[1] # z[2] /\ c.openings[z[1]].wall = c.openings[z[2]].wall
                        /\ Overlap(z[1], z[2]) > Epsilon}
  <2>1. {Violation("OPENING_OVERLAP", {z[1], z[2], c.openings[z[1]].wall}, 0, FreeOffset(c, {z[1], z[2]})) : z \in Both}
          \subseteq OpeningViolations(c, read)
    BY Zenon DEF OpeningViolations
  <2>2. Overlap(o, p) > Epsilon
    BY SMTT(30)
  <2> HIDE DEF Overlap
  <2>3. <<o, p>> \in Both
    BY Zenon, <1>1, <1>2, <2>2
  <2> HIDE DEF Both
  <2> QED  BY <2>1, <2>3
<1> DEFINE m == Min({to, to2})
           n == Max({from, from2})
<1>5. from \in Int /\ from2 \in Int /\ to \in Int /\ to2 \in Int /\ to = from + (b - a) /\ to2 = from2 + (y - x)
  <2> HIDE DEF a, b, x, y, s, t, from, from2
  <2>1. from \in Int /\ from2 \in Int
    BY <1>1, <1>2
  <2> QED  BY <1>1, <1>2, <2>1
<1> HIDE DEF a, b, x, y, s, t, from, from2, to, to2
<1>6. m \in {to, to2} /\ n \in {from, from2}
  BY <1>5, PairExtremes
<1>7. m - n <= Epsilon
  <2> HIDE DEF m, n
  <2> QED  BY <1>4, <1>5, <1>6 DEF m, n, Epsilon
<1> HIDE DEF m, n
<1>8. to - from2 <= Epsilon \/ to2 - from <= Epsilon
  <2>1. a \in Int /\ b \in Int /\ x \in Int /\ y \in Int
    BY <1>1, <1>2
  <2>2. to - from > Epsilon /\ to2 - from2 > Epsilon
    BY <1>3, <1>5, <2>1 DEF Epsilon
  <2> QED  BY <1>5, <1>6, <1>7, <2>2 DEF Epsilon
<1>9. a >= y - Epsilon \/ x >= b - Epsilon
  <2>1. CASE Sense(c.walls[w].line) = 1
    <3>1. from = a - s /\ from2 = x - s
      BY <1>1, <1>2, <2>1
    <3> QED  BY <1>1, <1>2, <1>5, <1>8, <3>1 DEF Epsilon
  <2>2. CASE Sense(c.walls[w].line) # 1
    <3>1. from = -b - -t /\ from2 = -y - -t
      BY <1>1, <1>2, <2>2
    <3>2. a \in Int /\ b \in Int /\ x \in Int /\ y \in Int /\ t \in Int
      BY <1>1, <1>2
    <3>3. from + (b - a) = t - a /\ from2 + (y - x) = t - x /\ from = t - b /\ from2 = t - y
      BY <3>1, <3>2
    <3> QED  BY <1>5, <1>8, <3>2, <3>3 DEF Epsilon
  <2> QED  BY <2>1, <2>2
<1> QED  BY SMTT(30), <1>9 DEF a, b, x, y

\* Columns keep clear of openings as far as is asked.
LEMMA ColumnsClear ==
    ASSUME NEW c, PlanContract(c), NEW read, NEW lines, WholePlan(c, read, lines),
           NEW n \in DOMAIN c.constraints, ConstraintViolations(c, read, n) = {},
           c.constraints[n].type = "columns_clear_of_openings", c.constraints[n].value > Epsilon,
           NEW k \in DOMAIN c.columns, NEW o \in DOMAIN c.openings
    PROVE  ~CloserThan(read[k].points, read[o].points, c.constraints[n].value - Epsilon)
<1> DEFINE p == read[k].points
           q == read[o].points
           least == c.constraints[n].value
           g == Gap(p, q)
           far == Max({0, g})
<1>1. k \in PlanIds(c) /\ o \in PlanIds(c)
  BY DEF PlanIds
<1>2. /\ k \in DOMAIN read /\ o \in DOMAIN read /\ p \in Seq(Int \X Int) /\ p # <<>> /\ q \in Seq(Int \X Int) /\ q # <<>>
      /\ read[k].layer \in {"A-COLS"} /\ read[o].layer \in {"A-DOOR", "A-WIND"}
  BY <1>1 DEF WholePlan
<1>3. least \in Int /\ least > Epsilon
  BY DEF PlanContract, Numbers
<1>4. ~(far + Epsilon < least)
  <2> SUFFICES ASSUME far + Epsilon < least PROVE FALSE
    OBVIOUS
  <2> DEFINE On(layers) == {x \in DOMAIN read : read[x].layer \in layers}
             Beside == {x \in On({"A-COLS"}) \X On({"A-DOOR", "A-WIND"}) :
                        Max({0, Gap(read[x[1]].points, read[x[2]].points)}) + Epsilon < c.constraints[n].value}
  <2>1. ConstraintViolations(c, read, n) = {Violation("COLUMN_OPENING_CLEARANCE", {x[1], x[2]}, n, FALSE) : x \in Beside}
    BY DEF ConstraintViolations
  <2>2. <<k, o>> \in Beside
    <3>1. k \in On({"A-COLS"}) /\ o \in On({"A-DOOR", "A-WIND"})
      BY <1>2
    <3> HIDE DEF On
    <3> QED  BY <3>1
  <2> HIDE DEF Beside
  <2> QED  BY <2>1, <2>2
<1> HIDE DEF p, q, least
<1>5. g \in Int
  BY <1>2, GapIs
<1>6. far \in {0, g}
  <2> HIDE DEF g
  <2> QED  BY <1>5, Clamped
<1> HIDE DEF far
<1>7. g >= least - Epsilon
  <2> HIDE DEF g
  <2> QED  BY <1>3, <1>4, <1>5, <1>6 DEF Epsilon
<1>8. PICK axis \in 1..2 : g \in {Low(p, axis) - High(q, axis), Low(q, axis) - High(p, axis)}
  BY <1>2, GapIs
<1> HIDE DEF g
<1>9. ~CloserThan(p, q, least - Epsilon)
  <2> SUFFICES ASSUME CloserThan(p, q, least - Epsilon) PROVE FALSE
    OBVIOUS
  <2>1. Low(p, axis) - High(q, axis) < least - Epsilon /\ Low(q, axis) - High(p, axis) < least - Epsilon
    BY DEF CloserThan
  <2>2. g < least - Epsilon
    BY <1>8, <2>1
  <2> QED  BY <1>3, <1>5, <1>7, <2>2 DEF Epsilon
<1> QED  BY <1>9 DEF p, q, least

\* The file of a plan that passed is as the contract says.
LEMMA PassedPlan ==
    ASSUME NEW c, PlanContract(c), NEW hash, NEW d, NEW d0, Traced(d, d0), Cornered(d0),
           VerifyPlan(c, d, hash).status = "passed"
    PROVE  PlanConforms(c, hash, d)
<1> DEFINE read == PrimaryOf(d)
           lines == LinesOf(d)
           On(i) == d.entities[i]
           One(id, layers) == CHOOSE i \in DOMAIN d.entities : On(i).id = id /\ On(i).layer \in layers
           Points(id) == On(One(id, PrimaryLayers)).points
           Centreline(w) == On(One(w, {"A-WALL-CENTER"})).points
           Wall(o) == c.openings[o].wall
           Lengthwise(o) == Axis(c.walls[Wall(o)].line)
           Wide(o) == Extent(Points(o), Lengthwise(o)) > Epsilon
<1>1. /\ PlanReadingFaults(c, d, hash) = {} /\ OpeningViolations(c, read) = {} /\ WallViolations(c, read, lines) = {}
      /\ \A i \in DOMAIN c.constraints : ConstraintViolations(c, read, i) = {}
  BY PlanFaultless
<1>2. /\ WholePlan(c, read, lines)
      /\ \A id \in PlanIds(c) : read[id] = PlacedOf(d, id, PrimaryLayers)
      /\ \A w \in DOMAIN c.walls : lines[w] = PlacedOf(d, w, {"A-WALL-CENTER"})
  BY <1>1, PlanMeasured
<1>3. /\ \A i \in DOMAIN d.entities : On(i).labelled /\ On(i).hash = hash
      /\ {<<On(i).id, On(i).type, On(i).layer>> : i \in DOMAIN d.entities} = ExpectedPlan(c)
      /\ Len(d.entities) = Cardinality(ExpectedPlan(c))
  BY <1>1, PlanComplete
<1>4. \A id, layers : On(One(id, layers)) = PlacedOf(d, id, layers)
  BY Zenon DEF PlacedOf
<1> HIDE DEF read, lines, One, On
<1>5. \A id \in PlanIds(c) : Points(id) = read[id].points
  BY <1>2, <1>4
<1>6. \A w \in DOMAIN c.walls : Centreline(w) = lines[w].points
  BY <1>2, <1>4
<1>7. /\ \A w \in DOMAIN c.walls : Points(w) = read[w].points
      /\ \A k \in DOMAIN c.columns : Points(k) = read[k].points
      /\ \A o \in DOMAIN c.openings : Points(o) = read[o].points /\ Wall(o) \in DOMAIN c.walls
  BY <1>5 DEF PlanIds, PlanContract
<1> HIDE DEF Points, Centreline
<1>8. ASSUME NEW w \in DOMAIN c.walls, NEW k \in 1..2, NEW axis \in 1..2
      PROVE  LET at == Centreline(w)[k][axis]
             IN IF axis = Axis(c.walls[w].line)
                THEN \E edge \in {Low(Points(w), axis), High(Points(w), axis)} : Abs(at - edge) <= Epsilon
                ELSE Abs(at - Centre(Points(w), axis)) <= Epsilon
  <2>1. LET at == lines[w].points[k][axis]
        IN IF axis = Axis(c.walls[w].line)
           THEN \E edge \in {Low(read[w].points, axis), High(read[w].points, axis)} : Abs(at - edge) <= Epsilon
           ELSE Abs(at - Centre(read[w].points, axis)) <= Epsilon
    BY <1>1, <1>2, CentrelineHolds
  <2>2. Centreline(w) = lines[w].points /\ Points(w) = read[w].points
    BY <1>6, <1>7
  <2> QED  BY <2>1, <2>2
<1>9. ASSUME NEW o \in DOMAIN c.openings, NEW k \in 1..2
      PROVE  Points(o)[k][Lengthwise(o)] \in (Low(Points(Wall(o)), Lengthwise(o)) - Epsilon)
                                             .. (High(Points(Wall(o)), Lengthwise(o)) + Epsilon)
  <2>1. PICK w : w = Wall(o)
    OBVIOUS
  <2>2. PICK long : long = Axis(c.walls[w].line)
    BY SMTT(30)
  <2>3. read[o].points[k][long] \in (Low(read[w].points, long) - Epsilon) .. (High(read[w].points, long) + Epsilon)
    BY Zenon, <1>1, <1>2, <2>1, <2>2, OpeningWithin
  <2>4. Points(o) = read[o].points /\ Points(w) = read[w].points /\ long = Lengthwise(o)
    BY <1>7, <2>1, <2>2
  <2> HIDE DEF Wall, Lengthwise
  <2> QED  BY <2>1, <2>3, <2>4
<1>10. ASSUME NEW o \in DOMAIN c.openings, NEW p \in DOMAIN c.openings, o # p, Wall(o) = Wall(p), Wide(o), Wide(p)
       PROVE  \/ Low(Points(o), Lengthwise(o)) >= High(Points(p), Lengthwise(o)) - Epsilon
              \/ Low(Points(p), Lengthwise(o)) >= High(Points(o), Lengthwise(o)) - Epsilon
  <2>1. PICK w : w = Wall(o) /\ w = Wall(p)
    BY <1>10
  <2>2. PICK long : long = Axis(c.walls[w].line)
    OBVIOUS
  <2>3. Points(o) = read[o].points /\ Points(p) = read[p].points /\ long = Lengthwise(o) /\ long = Lengthwise(p)
    BY SMTT(30), <1>7, <2>1, <2>2
  <2>4. Extent(read[o].points, long) > Epsilon /\ Extent(read[p].points, long) > Epsilon
    BY SMTT(30), <1>10, <2>3
  <2>5. \/ Low(read[o].points, long) >= High(read[p].points, long) - Epsilon
        \/ Low(read[p].points, long) >= High(read[o].points, long) - Epsilon
    BY <1>1, <1>2, <1>10, <2>1, <2>2, <2>4, OpeningsApart
  <2> HIDE DEF Lengthwise
  <2> QED  BY <2>3, <2>5
<1>11. ASSUME NEW n \in DOMAIN c.constraints, c.constraints[n].type = "columns_clear_of_openings",
              c.constraints[n].value > Epsilon, NEW k \in DOMAIN c.columns, NEW o \in DOMAIN c.openings
       PROVE  ~CloserThan(Points(k), Points(o), c.constraints[n].value - Epsilon)
  <2>1. ~CloserThan(read[k].points, read[o].points, c.constraints[n].value - Epsilon)
    BY <1>1, <1>2, <1>11, ColumnsClear
  <2> QED  BY <1>7, <2>1
<1> QED  BY <1>3, <1>8, <1>9, <1>10, <1>11, Zenon DEF PlanConforms, Centreline, Points, One, On
-----------------------------------------------------------------------------
(* What the services drew themselves *)

\* An answer that has no reading code says that the file was read.
LEMMA ReadableAnswer ==
    ASSUME NEW raised \in BOOLEAN, ~raised, NEW V, \A v \in V : v.code \notin ReadingCodes
    PROVE  Readable(Answer(raised, V))
BY DEF Readable, Answer, Judged

\* An answer that raised, or has a reading code, says that it was not.
LEMMA RaisedOrFound ==
    ASSUME NEW raised \in BOOLEAN, NEW V, NEW v \in V, v.code \in ReadingCodes
    PROVE  ~Readable(Answer(raised, V))
BY DEF Readable, Answer, Judged

\* The file of a plate: an entity for the outline, every feature and every copy, each with
\* an id of its own if the ids of the copies are apart, and two of one id if they are not.
LEMMA OwnPlateEntities ==
    ASSUME NEW c, PlateContract(c), Expandable(c), NEW hash
    PROVE  LET d == DrawnPlate(c, hash)
           IN /\ Len(d.entities) \in Nat /\ DOMAIN d.entities = 1..Len(d.entities)
              /\ \A i \in DOMAIN d.entities :
                   /\ d.entities[i].layer \in CutLayers /\ d.entities[i].labelled /\ d.entities[i].hash = hash
                   /\ d.entities[i].form \in {"circle", "closed"}
              /\ CopiesApart(c) => \A i, j \in DOMAIN d.entities : d.entities[i].id = d.entities[j].id => i = j
              /\ ~CopiesApart(c) => \E i, j \in DOMAIN d.entities : d.entities[i].id = d.entities[j].id /\ i < j
              /\ \A f \in DOMAIN c.features : \E i \in DOMAIN d.entities : d.entities[i].id = f
<1> DEFINE q1 == [f \in DOMAIN c.features |-> FeatureOf(c, f, hash)]
           q2 == [id \in CopyIds(c) |-> CopiedAs(c, id, hash)]
           S == {q1[f] : f \in DOMAIN q1}
           T == {q2[id] : id \in DOMAIN q2}
           o == OutlineOf(c, hash)
           First == {o} \cup S
           d == DrawnPlate(c, hash)
           front == <<o>> \o InOrder(S)
           back == InOrder(T)
           Sound(e) == /\ e.layer \in CutLayers /\ e.labelled /\ e.hash = hash
                       /\ e.form \in {"circle", "closed"}
<1>1. d.entities = front \o back
  <2>1. S = FeaturesDrawn(c, hash) /\ T = CopiesDrawn(c, hash)
    BY DEF FeaturesDrawn, CopiesDrawn
  <2> HIDE DEF S, T
  <2> QED  BY <2>1, PlateIsDrawing
<1>2. /\ DOMAIN q1 = DOMAIN c.features /\ DOMAIN q2 = CopyIds(c)
      /\ \A f \in DOMAIN q1 : q1[f].layer \in {"CUT"} /\ q1[f].id = f /\ Sound(q1[f])
      /\ \A id \in DOMAIN q2 : q2[id].layer \in {"CUT"} /\ q2[id].id = id /\ Sound(q2[id])
  BY ShapesOfPlate DEF PlateEntity, CutLayers, FeatureOf, CopiedAs
<1>3. o.layer \in {"OUTLINE"} /\ o.id = c.outlineId /\ Sound(o)
  BY DEF PlateEntity, CutLayers, OutlineOf
<1>4. c.outlineId \notin DOMAIN c.features
  BY DEF PlateContract
<1> HIDE DEF q1, q2, o, d, Sound
<1>5. Listed(InOrder(S), S, {"CUT"}) /\ Listed(back, T, {"CUT"})
  BY <1>2, ShapesOfPlate, ListedFamily
<1>6. Listed(front, First, {"OUTLINE"} \cup {"CUT"})
  <2>1. Listed(<<o>>, {o}, {"OUTLINE"})
    BY <1>3, ListedSingle
  <2>2. {"OUTLINE"} \cap {"CUT"} = {}
    OBVIOUS
  <2> HIDE DEF S
  <2> QED  BY <1>5, <2>1, <2>2, ListedConcat
<1>7. /\ IsFiniteSet(First) /\ IsFiniteSet(T) /\ Lists(front, First) /\ Lists(back, T)
  BY <1>5, <1>6 DEF Listed
<1>8. /\ \A e \in First : Sound(e) /\ e.id \in {c.outlineId} \cup DOMAIN c.features
      /\ \A e, f \in First : e.id = f.id => e = f
      /\ \A id \in {c.outlineId} \cup DOMAIN c.features : \E e \in First : e.id = id
  BY <1>2, <1>3, <1>4
<1>9. /\ \A e \in T : Sound(e) /\ e.id \in CopyIds(c)
      /\ \A e, f \in T : e.id = f.id => e = f
      /\ \A id \in CopyIds(c) : \E e \in T : e.id = id
  BY <1>2
<1> HIDE DEF S, T, First, front, back
<1> DEFINE m == Len(front)
           n == Len(back)
<1>10. /\ m \in Nat /\ n \in Nat /\ Len(d.entities) = m + n /\ DOMAIN d.entities = 1..(m + n)
       /\ \A i \in 1..m : d.entities[i] = front[i] /\ front[i] \in First
       /\ \A i \in 1..n : d.entities[m + i] = back[i] /\ back[i] \in T
  <2>1. front \in Seq(First) /\ back \in Seq(T)
    BY <1>7 DEF Lists
  <2> DEFINE U == First \cup T
  <2>2. front \in Seq(U) /\ back \in Seq(U)
    BY <2>1, SeqMonotonic
  <2> HIDE DEF U
  <2>3. /\ m \in Nat /\ n \in Nat /\ front \o back \in Seq(U) /\ Len(front \o back) = m + n
        /\ \A i \in 1..(m + n) : (front \o back)[i] = IF i <= m THEN front[i] ELSE back[i - m]
    BY <2>2, ConcatProperties, LenProperties
  <2>4. \A i \in 1..m : i \in 1..(m + n) /\ i <= m
    BY <2>3
  <2>5. \A i \in 1..n : m + i \in 1..(m + n) /\ ~(m + i <= m) /\ (m + i) - m = i
    BY <2>3
  <2>6. (\A i \in 1..m : front[i] \in First) /\ \A i \in 1..n : back[i] \in T
    BY <2>1, LenProperties, ElementOfSeq
  <2>7. DOMAIN (front \o back) = 1..(m + n)
    BY <2>3, LenProperties
  <2> QED  BY <1>1, <2>3, <2>4, <2>5, <2>6, <2>7
<1> HIDE DEF m, n
<1>11. \A id \in {c.outlineId} \cup DOMAIN c.features : \E i \in 1..m : d.entities[i].id = id
  <2> SUFFICES ASSUME NEW id \in {c.outlineId} \cup DOMAIN c.features PROVE \E i \in 1..m : d.entities[i].id = id
    OBVIOUS
  <2>1. PICK e \in First : e.id = id
    BY <1>8
  <2>2. PICK i \in 1..m : front[i] = e
    BY <1>7 DEF Lists, m
  <2> QED  BY <1>10, <2>1, <2>2
<1>12. \A f \in DOMAIN c.features : \E i \in DOMAIN d.entities : d.entities[i].id = f
  BY <1>10, <1>11
<1>13. \A i \in DOMAIN d.entities : Sound(d.entities[i])
  <2> SUFFICES ASSUME NEW i \in 1..(m + n) PROVE Sound(d.entities[i])
    BY <1>10
  <2>1. CASE i \in 1..m
    BY <1>8, <1>10, <2>1
  <2>2. CASE i \notin 1..m
    <3>1. i - m \in 1..n /\ m + (i - m) = i
      BY <1>10, <2>2
    <3> QED  BY <1>9, <1>10, <3>1
  <2> QED  BY <2>1, <2>2
<1>14. ASSUME CopiesApart(c), NEW i \in DOMAIN d.entities, NEW j \in DOMAIN d.entities,
              d.entities[i].id = d.entities[j].id
       PROVE  i = j
  <2>1. CopyIds(c) \cap ({c.outlineId} \cup DOMAIN c.features) = {}
    BY <1>14 DEF CopiesApart
  <2>2. First \cap T = {}
    BY <1>8, <1>9, <2>1
  <2>3. IsFiniteSet(First \cup T) /\ Lists(d.entities, First \cup T)
    <3>1. IsFiniteSet(First \cup T) /\ Lists(front \o back, First \cup T)
      BY <1>7, <2>2, ListsConcat
    <3> HIDE DEF d
    <3> QED  BY <1>1, <3>1
  <2>4. \A e, f \in First \cup T : e.id = f.id => e = f
    <3> SUFFICES ASSUME NEW e \in First \cup T, NEW f \in First \cup T, e.id = f.id PROVE e = f
      OBVIOUS
    <3>1. e.id \in CopyIds(c) <=> e \in T
      BY <1>8, <1>9, <2>1
    <3>2. f.id \in CopyIds(c) <=> f \in T
      BY <1>8, <1>9, <2>1
    <3> QED  BY <1>8, <1>9, <3>1, <3>2
  <2>5. /\ \A k \in DOMAIN d.entities : d.entities[k] \in First \cup T
        /\ \A k, l \in DOMAIN d.entities : d.entities[k] = d.entities[l] => k = l
    BY <2>3, ListedOnce
  <2> QED  BY <1>14, <2>4, <2>5
<1>15. ASSUME ~CopiesApart(c)
       PROVE  \E i, j \in DOMAIN d.entities : d.entities[i].id = d.entities[j].id /\ i < j
  <2>1. PICK id \in CopyIds(c) : id \in {c.outlineId} \cup DOMAIN c.features
    BY <1>15 DEF CopiesApart
  <2>2. PICK i \in 1..m : d.entities[i].id = id
    BY <1>11, <2>1
  <2>3. PICK e \in T : e.id = id
    BY <1>9
  <2>4. PICK j \in 1..n : back[j] = e
    BY <1>7 DEF Lists, n
  <2>5. i \in 1..(m + n) /\ m + j \in 1..(m + n) /\ i < m + j
    BY <1>10
  <2> QED  BY <1>10, <2>2, <2>3, <2>4, <2>5
<1> QED  BY <1>10, <1>12, <1>13, <1>14, <1>15 DEF d, Sound

\* What is wrong with the shapes of a plate is none of the codes about the file.
LEMMA PlateShapeCodes ==
    ASSUME NEW c, NEW read
    PROVE  \A v \in DimensionViolations(c, read) \cup MeasuredViolations(c, read) : v.code \notin ReadingCodes
<1>1. \A v \in DimensionViolations(c, read) : v.code \in {"PATH_INVALID", "TOLERANCE"}
  BY DEF DimensionViolations, Violation
<1>2. \A v \in MeasuredViolations(c, read) : v.code \notin ReadingCodes
  <2> DEFINE cuts == Restrict(read, DOMAIN read \ {c.outlineId})
             Sel(i) == NamedPlate(c, c.constraints[i].on, read)
             Wrong(i) == Violates(c.constraints[i], read[c.outlineId], read, Sel(i))
             D == {Violation(c.constraints[i].type, Wrong(i), i, RepairableAt(c, Sel(i))) :
                     i \in {j \in DOMAIN c.constraints : c.constraints[j].required /\ Wrong(j) # {}}}
  <2>1. CASE c.outlineId \notin DOMAIN read
    <3>1. \A v \in MeasuredViolations(c, read) : v.code = "OUTLINE_MISSING"
      <4>1. MeasuredViolations(c, read) = {Violation("OUTLINE_MISSING", {c.outlineId}, 0, FALSE)}
        BY <2>1, Zenon DEF MeasuredViolations
      <4> QED  BY <4>1 DEF Violation
    <3> QED  BY <3>1 DEF ReadingCodes
  <2>2. CASE c.outlineId \in DOMAIN read
    <3>1. MeasuredViolations(c, read)
            = EdgeViolations(c, read[c.outlineId], cuts) \cup LigamentViolations(c, cuts)
                \cup MinimumViolations(c, cuts) \cup D
      BY <2>2, Zenon DEF MeasuredViolations, DeclaredViolations
    <3>2. /\ \A v \in EdgeViolations(c, read[c.outlineId], cuts) : v.code \in {"OUTSIDE", "EDGE_DISTANCE"}
          /\ \A v \in LigamentViolations(c, cuts) : v.code \in {"OVERLAP", "LIGAMENT"}
          /\ \A v \in MinimumViolations(c, cuts) : v.code = "MINIMUM_FEATURE"
      <4> HIDE DEF cuts
      <4>1. \A v \in EdgeViolations(c, read[c.outlineId], cuts) :
              \E on, r : v = Violation("OUTSIDE", on, 0, r) \/ v = Violation("EDGE_DISTANCE", on, 0, r)
        BY Zenon DEF EdgeViolations
      <4>2. \A v \in LigamentViolations(c, cuts) :
              \E on, r : v = Violation("OVERLAP", on, 0, r) \/ v = Violation("LIGAMENT", on, 0, r)
        BY Zenon DEF LigamentViolations
      <4>3. \A v \in MinimumViolations(c, cuts) : \E on, r : v = Violation("MINIMUM_FEATURE", on, 0, r)
        BY Zenon DEF MinimumViolations
      <4> QED  BY <4>1, <4>2, <4>3 DEF Violation
    <3>3. \A i : Wrong(i) # {} => c.constraints[i].type \in {"alignment", "equal_spacing", "symmetry"}
      <4> HIDE DEF cuts, Sel
      <4> QED  BY Zenon DEF Violates
    <3>4. \A v \in D : v.code \in {"alignment", "equal_spacing", "symmetry"}
      <4> HIDE DEF Wrong, Sel, cuts
      <4> QED  BY <3>3 DEF Violation
    <3> HIDE DEF D, cuts
    <3> QED  BY <3>1, <3>2, <3>4 DEF ReadingCodes
  <2> QED  BY <2>1, <2>2
<1> QED  BY <1>1, <1>2 DEF ReadingCodes

\* The service reads the drawing of a plate that is ready, every entity once, exactly if the
\* ids of the copies are apart.
LEMMA OwnPlateIsReadable ==
    ASSUME NEW c, PlateContract(c), NEW claim, NEW hash, PlateStatus(c, claim, hash) = "ready"
    PROVE  Readable(VerifyPlate(c, DrawnPlate(c, hash), hash)) <=> CopiesApart(c)
<1> DEFINE d == DrawnPlate(c, hash)
           read == ReadBack(d)
           On(i) == d.entities[i]
           All == DOMAIN d.entities
<1>1. Expandable(c)
  BY DEF PlateStatus
<1>2. /\ Len(d.entities) \in Nat /\ All = 1..Len(d.entities)
      /\ \A i \in All : On(i).layer \in CutLayers /\ On(i).labelled /\ On(i).hash = hash /\ On(i).form \in {"circle", "closed"}
      /\ CopiesApart(c) => \A i, j \in All : On(i).id = On(j).id => i = j
      /\ ~CopiesApart(c) => \E i, j \in All : On(i).id = On(j).id /\ i < j
      /\ \A f \in DOMAIN c.features : \E i \in All : On(i).id = f
  BY <1>1, OwnPlateEntities
<1>3. d.layers = PlateLayers /\ d.release = "R2013" /\ d.unit = "mm"
  BY PlateIsDrawing
<1> HIDE DEF d
<1>4. All \subseteq Nat /\ CutEntities(d) = All
  BY <1>2 DEF CutEntities
<1>5. \A i \in All : MeasurableCut(On(i))
  BY <1>2 DEF MeasurableCut, KnownCut
<1> DEFINE V == ReadingViolations(d, hash) \cup DimensionViolations(c, read) \cup MeasuredViolations(c, read)
<1>6. VerifyPlate(c, d, hash) = Answer(Raises(c, read), Deduplicated(V)) /\ Raises(c, read) \in BOOLEAN
  <2>1. VerifyPlate(c, d, hash) = Answer(Raises(c, read), Deduplicated(V))
    BY Zenon DEF VerifyPlate, JudgedPlate, read
  <2>2. Raises(c, read) \in BOOLEAN
    BY DEF Raises
  <2> QED  BY <2>1, <2>2
<1>7. ASSUME CopiesApart(c) PROVE Readable(VerifyPlate(c, d, hash))
  <2>1. Kept(d) = All
    <3>1. \A i, j \in All : j < i => On(j).id # On(i).id
      BY <1>2, <1>4, <1>7
    <3> QED  BY <1>4, <1>5, <3>1 DEF Kept
  <2>2. ReadingViolations(d, hash) = {}
    <3>1. FileViolations(d, PlateLayers) = {}
      BY <1>3 DEF FileViolations
    <3>2. ASSUME NEW i \in CutEntities(d) PROVE EntityViolations(d, hash, i) = {}
      <4>1. On(i).labelled /\ On(i).hash = hash /\ On(i).form \in {"circle", "closed"}
        BY <1>2, <1>4
      <4>2. ~\E j \in Kept(d) : j < i /\ On(j).id = On(i).id
        BY <1>2, <1>4, <1>7, <2>1
      <4> QED  BY <4>1, <4>2 DEF EntityViolations
    <3> QED  BY <3>1, <3>2 DEF ReadingViolations
  <2>3. ~Raises(c, read)
    <3>1. \A i \in All : On(i).id \in DOMAIN read
      BY <2>1 DEF ReadBack
    <3>2. \A p \in DOMAIN c.patterns : c.patterns[p].source \in DOMAIN c.features
      BY <1>1 DEF Expandable
    <3>3. \A p \in DOMAIN c.patterns : c.patterns[p].source \in DOMAIN read
      BY <1>2, <3>1, <3>2
    <3> HIDE DEF read
    <3> QED  BY <3>3 DEF Raises
  <2>4. \A v \in V : v.code \notin ReadingCodes
    BY <2>2, PlateShapeCodes
  <2>5. \A v \in Deduplicated(V) : v.code \notin ReadingCodes
    <3> HIDE DEF V
    <3> QED  BY <2>4 DEF Deduplicated
  <2> HIDE DEF V, read
  <2>6. Readable(Answer(Raises(c, read), Deduplicated(V)))
    BY <1>6, <2>3, <2>5, ReadableAnswer
  <2> QED  BY <1>6, <2>6
<1>8. ASSUME ~CopiesApart(c) PROVE ~Readable(VerifyPlate(c, d, hash))
  <2>1. PICK i \in All, j \in All : On(i).id = On(j).id /\ i < j
    BY <1>2, <1>8
\* The first entity of this id is kept, and the other one repeats it.
  <2> DEFINE Same == {k \in All : On(k).id = On(j).id}
  <2>2. Same \in SUBSET Nat /\ i \in Same
    BY <1>4, <2>1
  <2>3. PICK k \in Same : \A m \in Same : k <= m
    <3> HIDE DEF Same
    <3> QED  BY <2>2, LeastExists
  <2>4. k \in All /\ On(k).id = On(j).id /\ k < j
    <3>1. k \in Nat /\ i \in Nat /\ j \in Nat /\ k <= i
      BY <1>4, <2>2, <2>3
    <3> QED  BY <2>1, <2>3, <3>1
  <2>5. k \in Kept(d)
    <3>1. \A m \in All : m < k => On(m).id # On(k).id
      <4> SUFFICES ASSUME NEW m \in All, m < k, On(m).id = On(k).id PROVE FALSE
        OBVIOUS
      <4>1. m \in Same
        BY <2>4
      <4>2. m \in Nat /\ k \in Nat /\ k <= m
        BY <1>4, <2>3, <2>4, <4>1
      <4> QED  BY <4>2
    <3> QED  BY <1>4, <1>5, <2>4, <3>1 DEF Kept
  <2> DEFINE v == Violation("ID_DUPLICATE", {On(j).id}, 0, FALSE)
  <2>6. v \in ReadingViolations(d, hash)
    <3>1. On(j).form # "spline" /\ On(j).labelled /\ \E m \in Kept(d) : m < j /\ On(m).id = On(j).id
      BY <1>2, <2>4, <2>5
    <3>2. v \in EntityViolations(d, hash, j)
      BY <3>1 DEF EntityViolations
    <3>3. j \in CutEntities(d)
      BY <1>4
    <3> HIDE DEF v
    <3> QED  BY <3>2, <3>3 DEF ReadingViolations
  <2>7. v.nth = 0 /\ v.code = "ID_DUPLICATE"
    BY DEF Violation
  <2>8. \A w \in V : w.nth \in Nat
    BY PlateViolationsNumbered
  <2>9. v \in V
    BY <2>6
  <2> HIDE DEF v, V, read
  <2>10. v \in Deduplicated(V)
    <3>1. \A w \in V : v.nth <= w.nth
      BY <2>7, <2>8
    <3> QED  BY <2>9, <3>1 DEF Deduplicated
  <2>11. ~Readable(Answer(Raises(c, read), Deduplicated(V)))
    <3>1. v.code \in ReadingCodes
      BY <2>7 DEF ReadingCodes
    <3> QED  BY <1>6, <2>10, <3>1, RaisedOrFound
  <2> QED  BY <1>6, <2>11
<1> QED  BY <1>7, <1>8 DEF d

\* The file of a frame: an entity for each of its things, and no other.
LEMMA OwnFrameEntities ==
    ASSUME NEW c, FrameContract(c), NEW hash
    PROVE  LET d == DrawnFrame(c, hash)
           IN /\ Len(d.entities) = Cardinality(FrameItems(c)) /\ DOMAIN d.entities = 1..Len(d.entities)
              /\ \A i \in DOMAIN d.entities : \E item \in FrameItems(c) :
                   d.entities[i] = FrameEntity(c, hash, item[1], item[2])
              /\ \A item \in FrameItems(c) : \E i \in DOMAIN d.entities :
                   d.entities[i] = FrameEntity(c, hash, item[1], item[2])
              /\ \A i, j \in DOMAIN d.entities : d.entities[i] = d.entities[j] => i = j
<1> DEFINE All(type) == {FrameEntity(c, hash, type, id) : id \in ListedFrame(c, type)}
           d == DrawnFrame(c, hash)
           T == {FrameEntity(c, hash, item[1], item[2]) : item \in FrameItems(c)}
           a == InOrder(All("member"))
           b == InOrder(All("support"))
           e == InOrder(All("load"))
           f == InOrder(All("metadata"))
           U == All("member") \cup All("support") \cup All("load") \cup All("metadata")
<1>1. ASSUME NEW type \in DOMAIN LayerOf PROVE Listed(InOrder(All(type)), All(type), {LayerOf[type]})
  <2> DEFINE q == [id \in ListedFrame(c, type) |-> FrameEntity(c, hash, type, id)]
  <2>1. DOMAIN q = ListedFrame(c, type) /\ All(type) = {q[id] : id \in DOMAIN q}
    OBVIOUS
  <2>2. IsFiniteSet(ListedFrame(c, type))
    BY <1>1, FS_Singleton DEF ListedFrame, FrameContract, LayerOf
  <2>3. \A id \in DOMAIN q : q[id].layer \in {LayerOf[type]}
    BY DEF FrameEntity
  <2> HIDE DEF q, All
  <2> QED  BY <2>1, <2>2, <2>3, ListedFamily
<1>2. d.entities = a \o b \o e \o f
  BY DEF DrawnFrame, Drawing
<1>3. T = U
  <2>1. DOMAIN LayerOf = {"member", "support", "load", "metadata"}
    BY DEF LayerOf
  <2>2. ASSUME NEW x \in T PROVE x \in U
    <3>1. PICK item \in FrameItems(c) : x = FrameEntity(c, hash, item[1], item[2])
      OBVIOUS
    <3>2. PICK type \in DOMAIN LayerOf : item \in {type} \X ListedFrame(c, type)
      BY DEF FrameItems
    <3>3. x \in All(type)
      BY <3>1, <3>2
    <3> HIDE DEF All
    <3> QED  BY <2>1, <3>3
  <2>3. ASSUME NEW type \in DOMAIN LayerOf PROVE All(type) \subseteq T
    <3> SUFFICES ASSUME NEW id \in ListedFrame(c, type) PROVE FrameEntity(c, hash, type, id) \in T
      OBVIOUS
    <3>1. <<type, id>> \in FrameItems(c)
      BY DEF FrameItems
    <3> QED  BY <3>1
  <2> HIDE DEF All, T
  <2> QED  BY <2>1, <2>2, <2>3
<1>4. /\ Listed(a, All("member"), {"S-FRAME"}) /\ Listed(b, All("support"), {"S-SUPP"})
      /\ Listed(e, All("load"), {"S-LOAD"}) /\ Listed(f, All("metadata"), {"DG-META"})
  <2> HIDE DEF All
  <2> QED  BY <1>1 DEF LayerOf
<1> HIDE DEF a, b, e, f, d, All
<1>5. Listed(a \o b, All("member") \cup All("support"), {"S-FRAME"} \cup {"S-SUPP"})
  BY <1>4, ListedConcat
<1>6. Listed(a \o b \o e, All("member") \cup All("support") \cup All("load"), {"S-FRAME"} \cup {"S-SUPP"} \cup {"S-LOAD"})
  BY <1>4, <1>5, ListedConcat
<1>7. Listed(a \o b \o e \o f, U, {"S-FRAME"} \cup {"S-SUPP"} \cup {"S-LOAD"} \cup {"DG-META"})
  BY <1>4, <1>6, ListedConcat
<1> HIDE DEF U
<1>8. /\ IsFiniteSet(U) /\ Lists(d.entities, U)
  BY <1>2, <1>7 DEF Listed
<1>9. /\ Len(d.entities) = Cardinality(U) /\ DOMAIN d.entities = 1..Len(d.entities)
      /\ \A i \in DOMAIN d.entities : d.entities[i] \in U
      /\ \A x \in U : \E i \in DOMAIN d.entities : d.entities[i] = x
      /\ \A i, j \in DOMAIN d.entities : d.entities[i] = d.entities[j] => i = j
  BY <1>8, ListedOnce DEF Lists
<1>10. Cardinality(T) = Cardinality(FrameItems(c))
  <2> DEFINE g == [item \in FrameItems(c) |-> FrameEntity(c, hash, item[1], item[2])]
  <2>1. g \in Surjection(FrameItems(c), T)
    BY Zenon DEF Surjection
  <2>2. \A item \in FrameItems(c) : item = <<g[item].type, g[item].id>>
    <3> SUFFICES ASSUME NEW item \in FrameItems(c) PROVE item = <<g[item].type, g[item].id>>
      OBVIOUS
    <3>1. item = <<item[1], item[2]>>
      BY DEF FrameItems
    <3> QED  BY <3>1 DEF FrameEntity
  <2>3. g \in Injection(FrameItems(c), T)
    <3> HIDE DEF g, T
    <3>1. g \in [FrameItems(c) -> T]
      BY <2>1 DEF Surjection
    <3> QED  BY <2>2, <3>1 DEF Injection, IsInjective
  <2>4. ExistsBijection(FrameItems(c), T)
    <3> HIDE DEF g, T
    <3> QED  BY <2>1, <2>3 DEF ExistsBijection, Bijection
  <2> HIDE DEF g, T
  <2> QED  BY <2>4, FrameItemCount, FS_Bijection
<1>11. \A x \in T : \E item \in FrameItems(c) : x = FrameEntity(c, hash, item[1], item[2])
  OBVIOUS
<1>12. \A item \in FrameItems(c) : FrameEntity(c, hash, item[1], item[2]) \in T
  OBVIOUS
<1> HIDE DEF T
<1> QED  BY <1>3, <1>9, <1>10, <1>11, <1>12 DEF d

\* The service reads the drawing of a frame that is ready: every entity once.
LEMMA OwnFrameIsReadable ==
    ASSUME NEW c, FrameContract(c), NEW hash, FrameStatus(c, {}, hash) = "ready"
    PROVE  Readable(VerifyFrame(c, DrawnFrame(c, hash), hash))
<1> DEFINE d == DrawnFrame(c, hash)
           On(i) == d.entities[i]
           All == DOMAIN d.entities
           Fair == {"DUPLICATE_GEOMETRY", "DEVIATION"}
<1>1. /\ Len(d.entities) = Cardinality(FrameItems(c)) /\ All = 1..Len(d.entities)
      /\ \A i \in All : \E item \in FrameItems(c) : On(i) = FrameEntity(c, hash, item[1], item[2])
      /\ \A item \in FrameItems(c) : \E i \in All : On(i) = FrameEntity(c, hash, item[1], item[2])
      /\ \A i, j \in All : On(i) = On(j) => i = j
  BY OwnFrameEntities
<1>2. /\ IsFiniteSet(FrameItems(c))
      /\ Cardinality(FrameItems(c)) =
           Cardinality(DOMAIN c.members) + Cardinality(DOMAIN c.supports) + Cardinality(DOMAIN c.loads) + 1
      /\ Cardinality(FrameItems(c)) \in Nat
  BY FrameItemCount, FS_CardinalityType
<1>3. /\ d.layers = FrameLayers /\ d.release = "R2013" /\ d.unit = "mm" /\ d.record = hash /\ d.beside = FALSE
  BY DEF DrawnFrame, Drawing
<1> HIDE DEF d
<1>4. DOMAIN LayerOf = {"member", "support", "load", "metadata"}
  BY DEF LayerOf
<1>5. ASSUME NEW i \in All
      PROVE  \E type \in DOMAIN LayerOf : \E id \in ListedFrame(c, type) : On(i) = FrameEntity(c, hash, type, id)
  <2>1. PICK item \in FrameItems(c) : On(i) = FrameEntity(c, hash, item[1], item[2])
    BY <1>1
  <2>2. PICK type \in DOMAIN LayerOf : item \in {type} \X ListedFrame(c, type)
    BY DEF FrameItems
  <2> QED  BY <2>1, <2>2
<1>6. ASSUME NEW type \in DOMAIN LayerOf, NEW id \in ListedFrame(c, type)
      PROVE  \E i \in All : On(i) = FrameEntity(c, hash, type, id)
  <2>1. <<type, id>> \in FrameItems(c)
    BY DEF FrameItems
  <2> QED  BY <1>1, <2>1
<1>7. Relevant(d) = All
  <2>1. \A type \in DOMAIN LayerOf : \A id : FrameEntity(c, hash, type, id).layer \in FrameLayers
    BY DEF FrameEntity, FrameLayers
  <2> QED  BY <1>5, <2>1 DEF Relevant
<1>8. {v.code : v \in FileViolations(d, FrameLayers)} = {}
  <2>1. FileViolations(d, FrameLayers) = {}
    BY <1>3 DEF FileViolations
  <2> QED  BY <2>1
<1>9. ASSUME NEW i \in All PROVE MetadataFaults(c, hash, On(i)) = {}
  <2> PICK type \in DOMAIN LayerOf : \E id \in ListedFrame(c, type) : On(i) = FrameEntity(c, hash, type, id)
    BY <1>5
  <2>1. PICK id \in ListedFrame(c, type) : On(i) = FrameEntity(c, hash, type, id)
    OBVIOUS
  <2>2. /\ On(i).labelled /\ On(i).hash = hash /\ On(i).type = type /\ On(i).id = id
        /\ On(i).refs = <<Semantics(c, type, id), Source(c, id)>>
    BY <2>1 DEF FrameEntity
  <2>3. On(i).refs # <<>> /\ On(i).refs[1] = Semantics(c, On(i).type, On(i).id) /\ On(i).refs[2] = Source(c, On(i).id)
    BY <2>2
  <2> HIDE DEF On
  <2> QED  BY <2>2, <2>3 DEF MetadataFaults
<1>10. ASSUME NEW i \in All PROVE FrameEntityFaults(c, d, i) \subseteq Fair
  <2> PICK type \in DOMAIN LayerOf : \E id \in ListedFrame(c, type) : On(i) = FrameEntity(c, hash, type, id)
    BY <1>5
  <2>1. PICK id \in ListedFrame(c, type) : On(i) = FrameEntity(c, hash, type, id)
    OBVIOUS
  <2>2. /\ On(i).layer = LayerOf[type] /\ On(i).type = type /\ On(i).id = id
        /\ On(i).form = IF type = "member" THEN "line" ELSE IF type = "metadata" THEN "text" ELSE "point"
    BY <2>1 DEF FrameEntity
  <2>3. KnownFrame(c, On(i).type, On(i).id)
    BY <2>2 DEF KnownFrame
  <2>4. ~\E j \in Earlier(d, i) : d.entities[j].id = On(i).id
    <3> SUFFICES ASSUME NEW j \in Earlier(d, i), On(j).id = On(i).id PROVE FALSE
      OBVIOUS
    <3>1. j \in All /\ j < i /\ On(j).type = type
      BY <1>7, <2>2 DEF Earlier
    <3> PICK t \in DOMAIN LayerOf : \E x \in ListedFrame(c, t) : On(j) = FrameEntity(c, hash, t, x)
      BY <1>5, <3>1
    <3>2. PICK x \in ListedFrame(c, t) : On(j) = FrameEntity(c, hash, t, x)
      OBVIOUS
    <3>3. t = type /\ x = id
      BY <2>2, <3>1, <3>2 DEF FrameEntity
    <3>4. i = j
      BY <1>1, <2>1, <3>1, <3>2, <3>3
    <3> QED  BY <1>1, <1>2, <3>1, <3>4
  <2> QED  BY <2>2, <2>3, <2>4 DEF FrameEntityFaults
<1>11. AbsenceFaults(c, d) = {}
  <2>1. Absent(c, d) = {}
    <3> SUFFICES ASSUME NEW type \in Kinds, NEW id \in ListedFrame(c, type)
                 PROVE  \E i \in Relevant(d) : On(i).labelled /\ On(i).type = type /\ On(i).id = id
      BY DEF Absent
    <3>1. PICK i \in All : On(i) = FrameEntity(c, hash, type, id)
      BY <1>4, <1>6 DEF Kinds
    <3> QED  BY <1>7, <3>1 DEF FrameEntity
  <2>2. Cardinality(Relevant(d)) = Cardinality(FrameItems(c))
    BY <1>1, <1>2, <1>7, CountTo
  <2> QED  BY <1>2, <2>1, <2>2 DEF AbsenceFaults
<1>12. FrameFaults(c, d, hash) \subseteq Fair
  <2>1. UNION {MetadataFaults(c, hash, On(i)) : i \in Relevant(d)} = {}
    BY <1>7, <1>9
  <2>2. UNION {FrameEntityFaults(c, d, i) : i \in {j \in Relevant(d) : On(j).labelled}} \subseteq Fair
    BY <1>7, <1>10
  <2> HIDE DEF On, Fair
  <2>3. FrameFaults(c, d, hash) = UNION {FrameEntityFaults(c, d, i) : i \in {j \in Relevant(d) : On(j).labelled}}
    BY <1>3, <1>7, <1>8, <1>11, <2>1 DEF FrameFaults, On
  <2> QED  BY <2>2, <2>3
<1> DEFINE V == {Violation(code, {}, 0, FALSE) : code \in FrameFaults(c, d, hash)}
<1>13. VerifyFrame(c, d, hash) = Answer(FALSE, V)
  BY DEF VerifyFrame
<1>14. \A v \in V : v.code \notin ReadingCodes
  <2>1. \A v \in V : v.code \in Fair
    BY <1>12 DEF Violation
  <2> QED  BY <2>1 DEF ReadingCodes
<1> HIDE DEF V
<1>15. Readable(Answer(FALSE, V))
  BY <1>14, ReadableAnswer
<1> QED  BY <1>13, <1>15 DEF d

\* An entity of a piping drawing as its verifier expects it.
OwnPiping(c, hash, e) ==
    /\ e.labelled /\ e.hash = hash
    /\ e.id \in DOMAIN ExpectedPiping(c) /\ ExpectedPiping(c)[e.id] = <<e.layer, e.type>>
    /\ e.layer \in PipingLayers
    /\ IF e.layer \in PipingAnnotations THEN e.form = "text" ELSE Legible(e)

\* The file of a piping: one entity for whatever is expected, and it is as expected.
LEMMA OwnPipingEntities ==
    ASSUME NEW c, PipingContract(c), MetadataApart(c), NEW hash,
           \A s \in DOMAIN c.segments : RouteLength(Line(c, s)) # 0
    PROVE  LET d == DrawnPiping(c, hash)
           IN /\ Len(d.entities) \in Nat /\ DOMAIN d.entities = 1..Len(d.entities)
              /\ \A i \in DOMAIN d.entities : OwnPiping(c, hash, d.entities[i])
              /\ \A i, j \in DOMAIN d.entities : d.entities[i].id = d.entities[j].id => i = j
              /\ \A id \in DOMAIN ExpectedPiping(c) : \E i \in DOMAIN d.entities : d.entities[i].id = id
<1> DEFINE Pipe(s) == PipingEntity("P-PIPE", "open", s, "pipe_segment", Line(c, s), c.segments[s].diameter,
                                   <<c.segments[s].from, c.segments[s].to>>, hash)
           Node(n) == PipingEntity("P-NODE", "point", n, "piping_node", <<c.nodes[n]>>, 0, <<>>, hash)
           at(i) == AtOffset(Line(c, c.items[i].segment), c.items[i].offset)
           Item(i) == IF c.items[i].kind = "component"
                      THEN PipingEntity("P-COMP", c.items[i].form, i, c.items[i].type,
                             <<<<at(i)[1] - 1, at(i)[2] - 1>>, <<at(i)[1] + 1, at(i)[2] + 1>>>>, 0,
                             <<c.items[i].segment>>, hash)
                      ELSE PipingEntity("P-SUPPORT", "circle", i, c.items[i].type, <<at(i)>>, 0,
                             <<c.items[i].segment>>, hash)
           Zone(z) == PipingEntity("P-EQUIP", c.zones[z].form, z, c.zones[z].type, c.zones[z].box, 0, <<>>, hash)
           Text(layer, id, type) == PipingEntity(layer, "text", id, type, <<<<0, 0>>>>, 0, <<>>, hash)
           P == [s \in DOMAIN c.segments |-> Pipe(s)]
           N == [n \in DOMAIN c.nodes |-> Node(n)]
           I == [i \in DOMAIN c.items |-> Item(i)]
           Z == [z \in DOMAIN c.zones |-> Zone(z)]
           T == [id \in NotesDrawn(c) |-> Text("P-DIMS", id, "dimension_note")]
           m == Text("P-META", "piping-metadata", "metadata")
           Of(q) == {q[x] : x \in DOMAIN q}
           d == DrawnPiping(c, hash)
           Own(e) == OwnPiping(c, hash, e)
           Meets(e, id, X) == e.labelled /\ e.hash = hash /\ e.id = id /\ <<e.layer, e.type>> = X
                                /\ e.layer \in PipingLayers
                                /\ IF e.layer \in PipingAnnotations THEN e.form = "text" ELSE Legible(e)
<1>1. /\ DOMAIN ExpectedPiping(c) = DOMAIN c.segments \cup DOMAIN c.nodes \cup DOMAIN c.items \cup DOMAIN c.zones
                                      \cup NotesDrawn(c) \cup {"piping-metadata"}
      /\ DOMAIN c.nodes \cap (DOMAIN c.segments \cup DOMAIN c.items \cup DOMAIN c.zones) = {}
      /\ DOMAIN c.segments \cap (DOMAIN c.items \cup DOMAIN c.zones) = {} /\ DOMAIN c.items \cap DOMAIN c.zones = {}
      /\ NotesDrawn(c) \cap (DOMAIN c.segments \cup DOMAIN c.nodes \cup DOMAIN c.items \cup DOMAIN c.zones) = {}
      /\ "piping-metadata" \notin DOMAIN c.segments \cup DOMAIN c.nodes \cup DOMAIN c.items \cup DOMAIN c.zones \cup NotesDrawn(c)
  <2>1. \A id \in NoteIds(c) : id \notin DOMAIN c.nodes \cup DOMAIN c.segments \cup DOMAIN c.items \cup DOMAIN c.zones
    BY DEF PipingContract, NoteIds
  <2>2. DOMAIN ExpectedPiping(c) = PipingIds(c) \cup NotesDrawn(c) \cup {"piping-metadata"}
    BY DEF ExpectedPiping, NotesDrawn
  <2>3. NotesDrawn(c) \subseteq NoteIds(c)
    BY DEF NotesDrawn
  <2>4. /\ DOMAIN c.nodes \cap (DOMAIN c.segments \cup DOMAIN c.items \cup DOMAIN c.zones) = {}
        /\ DOMAIN c.segments \cap (DOMAIN c.items \cup DOMAIN c.zones) = {} /\ DOMAIN c.items \cap DOMAIN c.zones = {}
    BY DEF PipingContract
  <2> QED  BY <2>1, <2>2, <2>3, <2>4 DEF PipingIds, MetadataApart
<1> DEFINE Ids == DOMAIN ExpectedPiping(c)
           X(id) == ExpectedPiping(c)[id]
<1>2. /\ \A s \in DOMAIN c.segments : X(s) = <<"P-PIPE", "pipe_segment">>
      /\ \A n \in DOMAIN c.nodes : X(n) = <<"P-NODE", "piping_node">>
      /\ \A i \in DOMAIN c.items :
           X(i) = <<IF c.items[i].kind = "component" THEN "P-COMP" ELSE "P-SUPPORT", c.items[i].type>>
      /\ \A z \in DOMAIN c.zones : X(z) = <<"P-EQUIP", c.zones[z].type>>
      /\ \A id \in NotesDrawn(c) : X(id) = <<"P-DIMS", "dimension_note">>
      /\ X("piping-metadata") = <<"P-META", "metadata">>
  <2>1. \A id \in Ids : X(id) =
          CASE id = "piping-metadata" -> <<"P-META", "metadata">>
            [] id \in DOMAIN c.segments -> <<"P-PIPE", "pipe_segment">>
            [] id \in DOMAIN c.nodes -> <<"P-NODE", "piping_node">>
            [] id \in DOMAIN c.items ->
                 <<IF c.items[id].kind = "component" THEN "P-COMP" ELSE "P-SUPPORT", c.items[id].type>>
            [] id \in DOMAIN c.zones -> <<"P-EQUIP", c.zones[id].type>>
            [] OTHER -> <<"P-DIMS", "dimension_note">>
    BY DEF ExpectedPiping
  <2> HIDE DEF Ids, X
  <2>2. Ids = DOMAIN c.segments \cup DOMAIN c.nodes \cup DOMAIN c.items \cup DOMAIN c.zones
                \cup NotesDrawn(c) \cup {"piping-metadata"}
    BY <1>1 DEF Ids
  <2>3. \A s \in DOMAIN c.segments : X(s) = <<"P-PIPE", "pipe_segment">>
    BY <1>1, <2>1, <2>2
  <2>4. \A n \in DOMAIN c.nodes : X(n) = <<"P-NODE", "piping_node">>
    BY <1>1, <2>1, <2>2
  <2>5. \A i \in DOMAIN c.items :
          X(i) = <<IF c.items[i].kind = "component" THEN "P-COMP" ELSE "P-SUPPORT", c.items[i].type>>
    BY <1>1, <2>1, <2>2
  <2>6. \A z \in DOMAIN c.zones : X(z) = <<"P-EQUIP", c.zones[z].type>>
    BY <1>1, <2>1, <2>2
  <2>7. \A id \in NotesDrawn(c) : X(id) = <<"P-DIMS", "dimension_note">>
    BY <1>1, <2>1, <2>2
  <2>8. X("piping-metadata") = <<"P-META", "metadata">>
    <3>1. "piping-metadata" \in Ids
      BY <2>2
    <3>2. \A id \in Ids : id = "piping-metadata" => X(id) = <<"P-META", "metadata">>
      BY <1>1, <2>1, <2>2
    <3> QED  BY <3>1, <3>2
  <2> QED  BY <2>3, <2>4, <2>5, <2>6, <2>7, <2>8
<1> HIDE DEF X
<1>3. ASSUME NEW s \in DOMAIN c.segments PROVE Meets(Pipe(s), s, X(s)) /\ Pipe(s).layer \in {"P-PIPE"}
  <2>1. RouteLength(Line(c, s)) > 0
    <3>1. RouteLength(Line(c, s)) \in Nat
      BY LineIs, RouteIs
    <3> QED  BY <3>1
  <2>2. c.segments[s].diameter > 0 /\ Len(Line(c, s)) = 2
    BY DEF PipingContract, Line
  <2> DEFINE e == Pipe(s)
  <2>3. /\ e.layer = "P-PIPE" /\ e.form = "open" /\ e.points = Line(c, s) /\ e.width = c.segments[s].diameter
        /\ e.labelled /\ e.hash = hash /\ e.id = s /\ e.type = "pipe_segment"
    BY DEF PipingEntity
  <2> HIDE DEF e
  <2>4. Legible(e)
    BY <2>1, <2>2, <2>3 DEF Legible
  <2> QED  BY <1>2, <2>3, <2>4 DEF e, PipingLayers, PipingAnnotations
<1>4. ASSUME NEW n \in DOMAIN c.nodes PROVE Meets(Node(n), n, X(n)) /\ Node(n).layer \in {"P-NODE"}
  <2> DEFINE e == Node(n)
  <2>1. /\ e.layer = "P-NODE" /\ e.form = "point" /\ e.labelled /\ e.hash = hash /\ e.id = n /\ e.type = "piping_node"
    BY SMTT(30) DEF PipingEntity
  <2> HIDE DEF e
  <2> QED  BY <1>2, <2>1 DEF e, PipingLayers, PipingAnnotations, Legible
<1>5. ASSUME NEW i \in DOMAIN c.items PROVE Meets(Item(i), i, X(i)) /\ Item(i).layer \in {"P-COMP", "P-SUPPORT"}
  <2> DEFINE e == Item(i)
  <2>1. /\ e.layer = (IF c.items[i].kind = "component" THEN "P-COMP" ELSE "P-SUPPORT")
        /\ e.form = (IF c.items[i].kind = "component" THEN c.items[i].form ELSE "circle")
        /\ e.labelled /\ e.hash = hash /\ e.id = i /\ e.type = c.items[i].type
    BY DEF PipingEntity
  <2>2. c.items[i].kind = "component" => c.items[i].form \in {"circle", "closed", "open"}
    BY DEF PipingContract
  <2>3. X(i) = <<IF c.items[i].kind = "component" THEN "P-COMP" ELSE "P-SUPPORT", c.items[i].type>>
    BY <1>2
  <2> HIDE DEF e
  <2>4. <<e.layer, e.type>> = X(i)
    BY <2>1, <2>3
  <2>5. e.layer \in {"P-COMP", "P-SUPPORT"} /\ Legible(e)
    BY <2>1, <2>2 DEF Legible
  <2> QED  BY Zenon, <2>1, <2>4, <2>5 DEF e, PipingLayers, PipingAnnotations
<1>6. ASSUME NEW z \in DOMAIN c.zones PROVE Meets(Zone(z), z, X(z)) /\ Zone(z).layer \in {"P-EQUIP"}
  <2> DEFINE e == Zone(z)
  <2>1. /\ e.layer = "P-EQUIP" /\ e.form = c.zones[z].form /\ e.labelled /\ e.hash = hash
        /\ e.id = z /\ e.type = c.zones[z].type
    BY DEF PipingEntity
  <2>2. c.zones[z].form \in {"circle", "closed"}
    BY DEF PipingContract
  <2> HIDE DEF e
  <2> QED  BY <1>2, <2>1, <2>2 DEF e, PipingLayers, PipingAnnotations, Legible
<1>7. ASSUME NEW layer \in PipingAnnotations, NEW id, NEW type, X(id) = <<layer, type>>
      PROVE  Meets(Text(layer, id, type), id, X(id)) /\ Text(layer, id, type).layer \in {layer}
  <2> DEFINE e == Text(layer, id, type)
  <2>1. e.layer = layer /\ e.form = "text" /\ e.labelled /\ e.hash = hash /\ e.id = id /\ e.type = type
    BY SMTT(30) DEF PipingEntity
  <2> HIDE DEF e
  <2> QED  BY <1>7, <2>1 DEF e, PipingLayers, PipingAnnotations
<1>8. d.entities = InOrder({Pipe(s) : s \in DOMAIN c.segments})
             \o InOrder({Node(n) : n \in DOMAIN c.nodes}) \o InOrder({Item(i) : i \in DOMAIN c.items})
             \o InOrder({Zone(z) : z \in DOMAIN c.zones})
             \o InOrder({Text("P-DIMS", id, "dimension_note") : id \in NotesDrawn(c)}) \o <<m>>
  BY Zenon DEF DrawnPiping, Drawing, PipingEntity
<1> HIDE DEF Pipe, Node, Item, Zone, Text, d, m, Meets
<1>9. /\ {Pipe(s) : s \in DOMAIN c.segments} = Of(P) /\ {Node(n) : n \in DOMAIN c.nodes} = Of(N)
      /\ {Item(i) : i \in DOMAIN c.items} = Of(I) /\ {Zone(z) : z \in DOMAIN c.zones} = Of(Z)
      /\ {Text("P-DIMS", id, "dimension_note") : id \in NotesDrawn(c)} = Of(T)
  OBVIOUS
<1>10. /\ DOMAIN P = DOMAIN c.segments /\ DOMAIN N = DOMAIN c.nodes /\ DOMAIN I = DOMAIN c.items
       /\ DOMAIN Z = DOMAIN c.zones /\ DOMAIN T = NotesDrawn(c)
  OBVIOUS
<1>11. /\ \A x \in DOMAIN P : Meets(P[x], x, X(x)) /\ P[x].layer \in {"P-PIPE"}
       /\ \A x \in DOMAIN N : Meets(N[x], x, X(x)) /\ N[x].layer \in {"P-NODE"}
       /\ \A x \in DOMAIN I : Meets(I[x], x, X(x)) /\ I[x].layer \in {"P-COMP", "P-SUPPORT"}
       /\ \A x \in DOMAIN Z : Meets(Z[x], x, X(x)) /\ Z[x].layer \in {"P-EQUIP"}
       /\ \A x \in DOMAIN T : Meets(T[x], x, X(x)) /\ T[x].layer \in {"P-DIMS"}
       /\ Meets(m, "piping-metadata", X("piping-metadata")) /\ m.layer \in {"P-META"}
  <2>1. /\ \A x \in DOMAIN P : P[x] = Pipe(x)
        /\ \A x \in DOMAIN N : N[x] = Node(x)
        /\ \A x \in DOMAIN I : I[x] = Item(x)
        /\ \A x \in DOMAIN Z : Z[x] = Zone(x)
        /\ \A x \in DOMAIN T : T[x] = Text("P-DIMS", x, "dimension_note")
    OBVIOUS
  <2>2. \A x \in DOMAIN T : Meets(T[x], x, X(x)) /\ T[x].layer \in {"P-DIMS"}
    BY <1>2, <1>7, <1>10, <2>1 DEF PipingAnnotations
  <2>3. Meets(m, "piping-metadata", X("piping-metadata")) /\ m.layer \in {"P-META"}
    BY <1>2, <1>7 DEF m, PipingAnnotations
  <2> HIDE DEF P, N, I, Z, T
  <2> QED  BY <1>3, <1>4, <1>5, <1>6, <1>10, <2>1, <2>2, <2>3
<1> HIDE DEF P, N, I, Z, T
<1> DEFINE a == InOrder(Of(P))
           b == InOrder(Of(N))
           e == InOrder(Of(I))
           f == InOrder(Of(Z))
           g == InOrder(Of(T))
           U == Of(P) \cup Of(N) \cup Of(I) \cup Of(Z) \cup Of(T) \cup {m}
<1>12. /\ Listed(a, Of(P), {"P-PIPE"}) /\ Listed(b, Of(N), {"P-NODE"}) /\ Listed(e, Of(I), {"P-COMP", "P-SUPPORT"})
       /\ Listed(f, Of(Z), {"P-EQUIP"}) /\ Listed(g, Of(T), {"P-DIMS"}) /\ Listed(<<m>>, {m}, {"P-META"})
  <2>1. Listed(a, Of(P), {"P-PIPE"}) /\ Listed(b, Of(N), {"P-NODE"})
    BY <1>10, <1>11, PipingFinite, ListedFamily
  <2>2. Listed(e, Of(I), {"P-COMP", "P-SUPPORT"}) /\ Listed(f, Of(Z), {"P-EQUIP"})
    BY <1>10, <1>11, PipingFinite, ListedFamily
  <2>3. Listed(g, Of(T), {"P-DIMS"}) /\ Listed(<<m>>, {m}, {"P-META"})
    BY <1>10, <1>11, PipingFinite, ListedFamily, ListedSingle
  <2> QED  BY <2>1, <2>2, <2>3
<1>13. d.entities = a \o b \o e \o f \o g \o <<m>>
  BY <1>8, <1>9, Zenon
<1>14. \A x \in U :
         \/ x.id \in DOMAIN c.segments /\ x = P[x.id]
         \/ x.id \in DOMAIN c.nodes /\ x = N[x.id]
         \/ x.id \in DOMAIN c.items /\ x = I[x.id]
         \/ x.id \in DOMAIN c.zones /\ x = Z[x.id]
         \/ x.id \in NotesDrawn(c) /\ x = T[x.id]
         \/ x.id = "piping-metadata" /\ x = m
  BY <1>10, <1>11 DEF Meets
<1>15. \A x \in U : Meets(x, x.id, X(x.id)) /\ x.id \in Ids
  <2> HIDE DEF U, Ids
  <2>1. Ids = DOMAIN c.segments \cup DOMAIN c.nodes \cup DOMAIN c.items \cup DOMAIN c.zones
                \cup NotesDrawn(c) \cup {"piping-metadata"}
    BY <1>1 DEF Ids
  <2> QED  BY <1>10, <1>11, <1>14, <2>1
<1>16. \A x, y \in U : x.id = y.id => x = y
  <2> HIDE DEF U
  <2> QED  BY <1>1, <1>14
<1>17. \A id \in Ids : \E x \in U : x.id = id
  <2>1. /\ \A x \in DOMAIN P : P[x].id = x /\ P[x] \in U
        /\ \A x \in DOMAIN N : N[x].id = x /\ N[x] \in U
        /\ \A x \in DOMAIN I : I[x].id = x /\ I[x] \in U
        /\ \A x \in DOMAIN Z : Z[x].id = x /\ Z[x] \in U
        /\ \A x \in DOMAIN T : T[x].id = x /\ T[x] \in U
        /\ m.id = "piping-metadata" /\ m \in U
    BY <1>11 DEF Meets
  <2> HIDE DEF U
  <2> QED  BY <1>1, <1>10, <2>1
<1> HIDE DEF Of, a, b, e, f, g
<1>18. IsFiniteSet(U) /\ Lists(d.entities, U)
  <2>1. Listed(a \o b, Of(P) \cup Of(N), {"P-PIPE"} \cup {"P-NODE"})
    BY <1>12, ListedConcat
  <2>2. Listed(a \o b \o e, Of(P) \cup Of(N) \cup Of(I), {"P-PIPE"} \cup {"P-NODE"} \cup {"P-COMP", "P-SUPPORT"})
    BY <1>12, <2>1, ListedConcat
  <2>3. Listed(a \o b \o e \o f, Of(P) \cup Of(N) \cup Of(I) \cup Of(Z),
               {"P-PIPE"} \cup {"P-NODE"} \cup {"P-COMP", "P-SUPPORT"} \cup {"P-EQUIP"})
    BY <1>12, <2>2, ListedConcat
  <2>4. Listed(a \o b \o e \o f \o g, Of(P) \cup Of(N) \cup Of(I) \cup Of(Z) \cup Of(T),
               {"P-PIPE"} \cup {"P-NODE"} \cup {"P-COMP", "P-SUPPORT"} \cup {"P-EQUIP"} \cup {"P-DIMS"})
    BY <1>12, <2>3, ListedConcat
  <2>5. Listed(a \o b \o e \o f \o g \o <<m>>, U,
               {"P-PIPE"} \cup {"P-NODE"} \cup {"P-COMP", "P-SUPPORT"} \cup {"P-EQUIP"} \cup {"P-DIMS"} \cup {"P-META"})
    BY <1>12, <2>4, ListedConcat
  <2> QED  BY <1>13, <2>5 DEF Listed
<1> HIDE DEF U, Ids
<1>19. /\ Len(d.entities) \in Nat /\ DOMAIN d.entities = 1..Len(d.entities)
       /\ \A i \in DOMAIN d.entities : d.entities[i] \in U
       /\ \A x \in U : \E i \in DOMAIN d.entities : d.entities[i] = x
       /\ \A i, j \in DOMAIN d.entities : d.entities[i] = d.entities[j] => i = j
  BY <1>18, ListedOnce
<1>20. \A i \in DOMAIN d.entities : OwnPiping(c, hash, d.entities[i])
  <2>1. \A x \in U : OwnPiping(c, hash, x)
    BY <1>15 DEF Meets, OwnPiping, X, Ids
  <2> QED  BY <1>19, <2>1
<1>21. \A i, j \in DOMAIN d.entities : d.entities[i].id = d.entities[j].id => i = j
  BY <1>16, <1>19
<1>22. \A id \in Ids : \E i \in DOMAIN d.entities : d.entities[i].id = id
  BY <1>17, <1>19
<1> QED  BY <1>19, <1>20, <1>21, <1>22 DEF d, Ids

\* If a feature or a note has the id of the metadata, the file of a piping has a second
\* entity of it: the text of the metadata, at the end.
LEMMA OwnPipingRepeats ==
    ASSUME NEW c, PipingContract(c), ~MetadataApart(c), NEW hash
    PROVE  LET d == DrawnPiping(c, hash)
           IN /\ Len(d.entities) \in Nat /\ DOMAIN d.entities = 1..Len(d.entities)
              /\ \E i, j \in DOMAIN d.entities :
                   /\ i < j /\ d.entities[i].id = d.entities[j].id
                   /\ \A k \in {i, j} : d.entities[k].labelled /\ d.entities[k].layer \in PipingLayers
<1> DEFINE Pipe(s) == PipingEntity("P-PIPE", "open", s, "pipe_segment", Line(c, s), c.segments[s].diameter,
                                   <<c.segments[s].from, c.segments[s].to>>, hash)
           Node(n) == PipingEntity("P-NODE", "point", n, "piping_node", <<c.nodes[n]>>, 0, <<>>, hash)
           at(i) == AtOffset(Line(c, c.items[i].segment), c.items[i].offset)
           Item(i) == IF c.items[i].kind = "component"
                      THEN PipingEntity("P-COMP", c.items[i].form, i, c.items[i].type,
                             <<<<at(i)[1] - 1, at(i)[2] - 1>>, <<at(i)[1] + 1, at(i)[2] + 1>>>>, 0,
                             <<c.items[i].segment>>, hash)
                      ELSE PipingEntity("P-SUPPORT", "circle", i, c.items[i].type, <<at(i)>>, 0,
                             <<c.items[i].segment>>, hash)
           Zone(z) == PipingEntity("P-EQUIP", c.zones[z].form, z, c.zones[z].type, c.zones[z].box, 0, <<>>, hash)
           Text(layer, id, type) == PipingEntity(layer, "text", id, type, <<<<0, 0>>>>, 0, <<>>, hash)
           P == [s \in DOMAIN c.segments |-> Pipe(s)]
           N == [n \in DOMAIN c.nodes |-> Node(n)]
           I == [i \in DOMAIN c.items |-> Item(i)]
           Z == [z \in DOMAIN c.zones |-> Zone(z)]
           T == [id \in NotesDrawn(c) |-> Text("P-DIMS", id, "dimension_note")]
           m == Text("P-META", "piping-metadata", "metadata")
           Of(q) == {q[x] : x \in DOMAIN q}
           d == DrawnPiping(c, hash)
           Tagged1(e, id) == e.labelled /\ e.id = id
<1>1. /\ \A s \in DOMAIN c.segments : Tagged1(Pipe(s), s) /\ Pipe(s).layer \in {"P-PIPE"}
      /\ \A z \in DOMAIN c.zones : Tagged1(Zone(z), z) /\ Zone(z).layer \in {"P-EQUIP"}
  BY DEF PipingEntity
<1>2. \A n \in DOMAIN c.nodes : Tagged1(Node(n), n) /\ Node(n).layer \in {"P-NODE"}
  BY SMTT(30) DEF PipingEntity
<1>3. \A i \in DOMAIN c.items : Tagged1(Item(i), i) /\ Item(i).layer \in {"P-COMP", "P-SUPPORT"}
  BY SMTT(30) DEF PipingEntity
<1>4. \A layer, id, type : Tagged1(Text(layer, id, type), id) /\ Text(layer, id, type).layer \in {layer}
  BY SMTT(30) DEF PipingEntity
<1>5. d.entities = InOrder({Pipe(s) : s \in DOMAIN c.segments})
             \o InOrder({Node(n) : n \in DOMAIN c.nodes}) \o InOrder({Item(i) : i \in DOMAIN c.items})
             \o InOrder({Zone(z) : z \in DOMAIN c.zones})
             \o InOrder({Text("P-DIMS", id, "dimension_note") : id \in NotesDrawn(c)}) \o <<m>>
  BY Zenon DEF DrawnPiping, Drawing, PipingEntity
<1> HIDE DEF Pipe, Node, Item, Zone, Text, d
<1>6. /\ {Pipe(s) : s \in DOMAIN c.segments} = Of(P) /\ {Node(n) : n \in DOMAIN c.nodes} = Of(N)
      /\ {Item(i) : i \in DOMAIN c.items} = Of(I) /\ {Zone(z) : z \in DOMAIN c.zones} = Of(Z)
      /\ {Text("P-DIMS", id, "dimension_note") : id \in NotesDrawn(c)} = Of(T)
  OBVIOUS
<1>7. /\ DOMAIN P = DOMAIN c.segments /\ DOMAIN N = DOMAIN c.nodes /\ DOMAIN I = DOMAIN c.items
      /\ DOMAIN Z = DOMAIN c.zones /\ DOMAIN T = NotesDrawn(c)
  OBVIOUS
<1>8. /\ \A x \in DOMAIN P : Tagged1(P[x], x) /\ P[x].layer \in {"P-PIPE"}
      /\ \A x \in DOMAIN N : Tagged1(N[x], x) /\ N[x].layer \in {"P-NODE"}
      /\ \A x \in DOMAIN I : Tagged1(I[x], x) /\ I[x].layer \in {"P-COMP", "P-SUPPORT"}
      /\ \A x \in DOMAIN Z : Tagged1(Z[x], x) /\ Z[x].layer \in {"P-EQUIP"}
      /\ \A x \in DOMAIN T : Tagged1(T[x], x) /\ T[x].layer \in {"P-DIMS"}
      /\ Tagged1(m, "piping-metadata") /\ m.layer \in {"P-META"}
  BY <1>1, <1>2, <1>3, <1>4
<1> HIDE DEF P, N, I, Z, T, m
<1> DEFINE a == InOrder(Of(P))
           b == InOrder(Of(N))
           e == InOrder(Of(I))
           f == InOrder(Of(Z))
           g == InOrder(Of(T))
           w == a \o b \o e \o f \o g
           W == Of(P) \cup Of(N) \cup Of(I) \cup Of(Z) \cup Of(T)
<1>9. d.entities = w \o <<m>>
  BY <1>5, <1>6, Zenon
<1>10. \A x \in W : x.labelled /\ x.layer \in PipingLayers
  BY <1>8 DEF PipingLayers
<1>11. \E x \in W : x.id = "piping-metadata"
  <2>1. "piping-metadata" \in DOMAIN P \cup DOMAIN N \cup DOMAIN I \cup DOMAIN Z \cup DOMAIN T
    BY <1>7 DEF MetadataApart, PipingIds
  <2>2. /\ \A x \in DOMAIN P : P[x].id = x /\ P[x] \in W
        /\ \A x \in DOMAIN N : N[x].id = x /\ N[x] \in W
        /\ \A x \in DOMAIN I : I[x].id = x /\ I[x] \in W
        /\ \A x \in DOMAIN Z : Z[x].id = x /\ Z[x] \in W
        /\ \A x \in DOMAIN T : T[x].id = x /\ T[x] \in W
    BY <1>8
  <2> HIDE DEF W
  <2> QED  BY <2>1, <2>2
<1>12. /\ Listed(a, Of(P), {"P-PIPE"}) /\ Listed(b, Of(N), {"P-NODE"}) /\ Listed(e, Of(I), {"P-COMP", "P-SUPPORT"})
       /\ Listed(f, Of(Z), {"P-EQUIP"}) /\ Listed(g, Of(T), {"P-DIMS"})
  <2>1. Listed(a, Of(P), {"P-PIPE"}) /\ Listed(b, Of(N), {"P-NODE"})
    BY <1>7, <1>8, PipingFinite, ListedFamily
  <2>2. Listed(e, Of(I), {"P-COMP", "P-SUPPORT"}) /\ Listed(f, Of(Z), {"P-EQUIP"})
    BY <1>7, <1>8, PipingFinite, ListedFamily
  <2>3. Listed(g, Of(T), {"P-DIMS"})
    BY <1>7, <1>8, PipingFinite, ListedFamily
  <2> QED  BY <2>1, <2>2, <2>3
<1> HIDE DEF Of, a, b, e, f, g
<1>13. IsFiniteSet(W) /\ Lists(w, W)
  <2>1. Listed(a \o b, Of(P) \cup Of(N), {"P-PIPE"} \cup {"P-NODE"})
    BY <1>12, ListedConcat
  <2>2. Listed(a \o b \o e, Of(P) \cup Of(N) \cup Of(I), {"P-PIPE"} \cup {"P-NODE"} \cup {"P-COMP", "P-SUPPORT"})
    BY <1>12, <2>1, ListedConcat
  <2>3. Listed(a \o b \o e \o f, Of(P) \cup Of(N) \cup Of(I) \cup Of(Z),
               {"P-PIPE"} \cup {"P-NODE"} \cup {"P-COMP", "P-SUPPORT"} \cup {"P-EQUIP"})
    BY <1>12, <2>2, ListedConcat
  <2>4. Listed(w, W, {"P-PIPE"} \cup {"P-NODE"} \cup {"P-COMP", "P-SUPPORT"} \cup {"P-EQUIP"} \cup {"P-DIMS"})
    BY <1>12, <2>3, ListedConcat
  <2> QED  BY <2>4 DEF Listed
<1> HIDE DEF W, w
<1>14. /\ Len(w) \in Nat /\ DOMAIN w = 1..Len(w) /\ w \in Seq(W)
       /\ \A i \in DOMAIN w : w[i] \in W
       /\ \A x \in W : \E i \in DOMAIN w : w[i] = x
  BY <1>13, ListedOnce DEF Lists
<1> DEFINE q == w \o <<m>>
<1>15. /\ Len(q) = Len(w) + 1 /\ DOMAIN q = 1..(Len(w) + 1) /\ q[Len(w) + 1] = m
       /\ \A i \in 1..Len(w) : q[i] = w[i]
  <2> DEFINE U == W \cup {m}
  <2>1. w \in Seq(U) /\ <<m>> \in Seq(U) /\ Len(<<m>>) = 1 /\ <<m>>[1] = m
    BY <1>14, SeqMonotonic
  <2> HIDE DEF U
  <2> QED  BY <1>14, <2>1, ConcatProperties, LenProperties
<1> HIDE DEF q
<1>16. PICK x \in W : x.id = "piping-metadata"
  BY <1>11
<1>17. PICK i \in DOMAIN w : w[i] = x
  BY <1>14
<1>18. q[i] = x /\ i \in DOMAIN q /\ Len(w) + 1 \in DOMAIN q /\ i < Len(w) + 1
  BY <1>14, <1>15, <1>17
<1>19. m.id = x.id /\ m.labelled /\ m.layer \in PipingLayers
  BY <1>8, <1>16 DEF PipingLayers
<1>20. d.entities = q
  BY <1>9 DEF q
<1>21. \A k \in {i, Len(w) + 1} : q[k].labelled /\ q[k].layer \in PipingLayers
  BY <1>10, <1>15, <1>18, <1>19
<1>22. /\ Len(q) \in Nat /\ DOMAIN q = 1..Len(q)
       /\ q[i].id = q[Len(w) + 1].id
  BY <1>14, <1>15, <1>18, <1>19
<1> QED  BY <1>18, <1>20, <1>21, <1>22 DEF d

\* The service reads the drawing of a piping that is ready, every entity once, if nothing
\* else that is drawn has the id of the metadata.
LEMMA OwnPipingIsReadable ==
    ASSUME NEW c, PipingContract(c), MetadataApart(c), NEW claim, NEW hash, PipingStatus(c, claim, hash) = "ready"
    PROVE  Readable(VerifyPiping(c, DrawnPiping(c, hash), hash))
<1> DEFINE d == DrawnPiping(c, hash)
           read == ReadPiping(d)
           On(i) == d.entities[i]
           All == DOMAIN d.entities
<1>1. \A s \in DOMAIN c.segments : RouteLength(Line(c, s)) # 0
  BY DEF PipingStatus
<1>2. /\ Len(d.entities) \in Nat /\ All = 1..Len(d.entities)
      /\ \A i \in All : OwnPiping(c, hash, On(i))
      /\ \A i, j \in All : On(i).id = On(j).id => i = j
      /\ \A id \in DOMAIN ExpectedPiping(c) : \E i \in All : On(i).id = id
  BY <1>1, OwnPipingEntities
<1>3. d.layers = PipingLayers /\ d.release = "R2013" /\ d.unit = "mm"
  BY DEF DrawnPiping, Drawing
<1>4. Traced(d, d)
  BY PipingEntities, TracedSelf
<1> HIDE DEF d
<1>5. FirstSeenPiping(d) = All
  <2>1. All \subseteq Nat
    BY <1>2
  <2>2. ApprovedPiping(d) = All
    BY <1>2 DEF ApprovedPiping, OwnPiping
  <2>3. \A i \in All : On(i).labelled
    BY <1>2 DEF OwnPiping
  <2>4. \A i, j \in All : j < i => On(j).id # On(i).id
    BY <1>2, <2>1
  <2> QED  BY <2>2, <2>3, <2>4 DEF FirstSeenPiping
<1>6. PipingReadingFaults(c, d, hash) = {}
  <2>1. FileViolations(d, PipingLayers) = {}
    BY <1>3 DEF FileViolations
  <2>2. MissingViolations(c, d) = {}
    <3> DEFINE Missing == DOMAIN ExpectedPiping(c) \ {On(i).id : i \in FirstSeenPiping(d)}
    <3>1. Missing = {}
      BY <1>2, <1>5
    <3>2. MissingViolations(c, d) = IF Missing = {} THEN {} ELSE {Violation("ENTITY_MISSING", Missing, 0, FALSE)}
      BY Zenon DEF MissingViolations
    <3> HIDE DEF Missing
    <3> QED  BY <3>1, <3>2
  <2>3. ASSUME NEW i \in All PROVE PipingEntityFaults(c, d, hash, i) = {}
    <3> DEFINE e == On(i)
               Met == IF e.id \notin DOMAIN ExpectedPiping(c) THEN {"UNEXPECTED"}
                      ELSE IF ExpectedPiping(c)[e.id] # <<e.layer, e.type>> THEN {"IDENTITY_MISMATCH"} ELSE {}
               Made == IF e.layer \in PipingAnnotations
                       THEN IF e.form = "text" THEN {} ELSE {"UNSUPPORTED"}
                       ELSE IF Legible(e) THEN {} ELSE {"GEOMETRY_INVALID"}
               Once == IF i \notin FirstSeenPiping(d) THEN {"ID_DUPLICATE"} ELSE Met \cup Made
               Codes == IF e.layer \notin PipingLayers THEN {"LAYER_INVALID"}
                        ELSE IF ~e.labelled THEN {"XDATA_MISSING"}
                        ELSE (IF e.hash # hash THEN {"HASH_MISMATCH"} ELSE {}) \cup Once
    <3>1. PipingEntityFaults(c, d, hash, i) = {Violation(code, IF e.labelled THEN {e.id} ELSE {}, 0, FALSE) : code \in Codes}
      BY Zenon DEF PipingEntityFaults
    <3>2. Met = {} /\ Made = {} /\ e.layer \in PipingLayers /\ e.labelled /\ e.hash = hash
      BY <1>2 DEF OwnPiping
    <3>3. Codes = {}
      <4> HIDE DEF Met, Made, e
      <4> QED  BY <1>5, <3>2
    <3> HIDE DEF Codes
    <3> QED  BY <3>1, <3>3
  <2> QED  BY <2>1, <2>2, <2>3 DEF PipingReadingFaults
<1>7. Whole(c, read) /\ ~RaisesPiping(c, read)
  BY <1>4, <1>6, PipingMeasured
<1> HIDE DEF read
<1>8. ~RaisesPiping(c, read)
  BY <1>7
<1> DEFINE Misplaced == {Violation("POSITION", {i, c.items[i].segment}, 0, FALSE) :
                           i \in {j \in HostedItems(c, read) : ~Placed(c, read, j)}}
           V == PipingReadingFaults(c, d, hash) \cup PipingDimensionFaults(c, read) \cup PipingDuplicates(read)
                  \cup RouteViolations(c, read) \cup Misplaced
                  \cup SpacingViolations(c, read) \cup ClearanceViolations(c, read)
<1>9. /\ \A v \in PipingDimensionFaults(c, read) : v.code \in {"UNMEASURABLE", "TOLERANCE"}
      /\ \A v \in PipingDuplicates(read) : v.code = "DUPLICATE_GEOMETRY"
      /\ \A v \in RouteViolations(c, read) : v.code \in {"ENDPOINT_MISALIGNED", "NON_ORTHOGONAL", "DISCONNECTED"}
      /\ \A v \in SpacingViolations(c, read) : v.code = "SPACING"
      /\ \A v \in ClearanceViolations(c, read) : v.code = "CLEARANCE"
      /\ \A v \in Misplaced : v.code = "POSITION"
  <2>1. \A v \in PipingDimensionFaults(c, read) : \E on, n, r :
          v = Violation("UNMEASURABLE", on, n, r) \/ v = Violation("TOLERANCE", on, n, r)
    BY Zenon DEF PipingDimensionFaults
  <2>2. \A v \in PipingDuplicates(read) : \E on : v = Violation("DUPLICATE_GEOMETRY", on, 0, FALSE)
    BY Zenon DEF PipingDuplicates
  <2>3. \A v \in RouteViolations(c, read) : \E on :
          \/ v = Violation("ENDPOINT_MISALIGNED", on, 0, FALSE) \/ v = Violation("NON_ORTHOGONAL", on, 0, FALSE)
          \/ v = Violation("DISCONNECTED", on, 0, FALSE)
    BY Zenon DEF RouteViolations
  <2>4. \A v \in SpacingViolations(c, read) : \E on : v = Violation("SPACING", on, 0, FALSE)
    BY Zenon DEF SpacingViolations
  <2>5. \A v \in ClearanceViolations(c, read) : \E on : v = Violation("CLEARANCE", on, 0, FALSE)
    BY Zenon DEF ClearanceViolations
  <2>6. \A v \in Misplaced : \E on : v = Violation("POSITION", on, 0, FALSE)
    BY Zenon
  <2> HIDE DEF Misplaced
  <2> QED  BY <2>1, <2>2, <2>3, <2>4, <2>5, <2>6 DEF Violation
<1>10. \A v \in V : v.code \notin ReadingCodes
  <2> HIDE DEF Misplaced
  <2> QED  BY <1>6, <1>9 DEF ReadingCodes
<1>11. VerifyPiping(c, d, hash) = Answer(RaisesPiping(c, read), V)
  BY Zenon DEF VerifyPiping, JudgedPiping, read
<1>12. RaisesPiping(c, read) \in BOOLEAN
  BY DEF RaisesPiping
<1> HIDE DEF V
<1>13. Readable(Answer(RaisesPiping(c, read), V))
  BY <1>8, <1>10, <1>12, ReadableAnswer
<1> QED  BY <1>11, <1>13 DEF d

\* If something has it, the service does not accept what it drew itself.
LEMMA RepeatedPipingIsRejected ==
    ASSUME NEW c, PipingContract(c), ~MetadataApart(c), NEW hash
    PROVE  ~Readable(VerifyPiping(c, DrawnPiping(c, hash), hash))
<1> DEFINE d == DrawnPiping(c, hash)
           read == ReadPiping(d)
           On(i) == d.entities[i]
           All == DOMAIN d.entities
<1>1. All \subseteq Nat
  BY OwnPipingRepeats
<1>2. PICK i \in All, j \in All :
         /\ i < j /\ On(i).id = On(j).id
         /\ \A k \in {i, j} : On(k).labelled /\ On(k).layer \in PipingLayers
  BY OwnPipingRepeats
<1>3. j \notin FirstSeenPiping(d)
  <2>1. i \in ApprovedPiping(d) /\ On(i).labelled
    BY <1>2 DEF ApprovedPiping
  <2> QED  BY <1>2, <2>1 DEF FirstSeenPiping
<1> HIDE DEF d
<1> DEFINE v == Violation("ID_DUPLICATE", {On(j).id}, 0, FALSE)
<1>4. v \in PipingEntityFaults(c, d, hash, j)
  <2> DEFINE e == On(j)
             Other == (IF e.id \notin DOMAIN ExpectedPiping(c) THEN {"UNEXPECTED"}
                       ELSE IF ExpectedPiping(c)[e.id] # <<e.layer, e.type>> THEN {"IDENTITY_MISMATCH"} ELSE {})
                        \cup (IF e.layer \in PipingAnnotations
                              THEN IF e.form = "text" THEN {} ELSE {"UNSUPPORTED"}
                              ELSE IF Legible(e) THEN {} ELSE {"GEOMETRY_INVALID"})
             Once == IF j \notin FirstSeenPiping(d) THEN {"ID_DUPLICATE"} ELSE Other
             Codes == IF e.layer \notin PipingLayers THEN {"LAYER_INVALID"}
                      ELSE IF ~e.labelled THEN {"XDATA_MISSING"}
                      ELSE (IF e.hash # hash THEN {"HASH_MISMATCH"} ELSE {}) \cup Once
  <2>1. PipingEntityFaults(c, d, hash, j) = {Violation(code, IF e.labelled THEN {e.id} ELSE {}, 0, FALSE) : code \in Codes}
    BY Zenon DEF PipingEntityFaults
  <2>2. e.labelled /\ e.layer \in PipingLayers
    BY <1>2
  <2>3. "ID_DUPLICATE" \in Codes
    <3> HIDE DEF Other, e
    <3> QED  BY <1>3, <2>2
  <2>4. Violation("ID_DUPLICATE", IF e.labelled THEN {e.id} ELSE {}, 0, FALSE) = v
    BY <2>2
  <2> HIDE DEF Codes, v, e
  <2> QED  BY <2>1, <2>3, <2>4
<1>5. v \in PipingReadingFaults(c, d, hash)
  <2> HIDE DEF v
  <2> QED  BY <1>4 DEF PipingReadingFaults
<1> DEFINE Misplaced == {Violation("POSITION", {k, c.items[k].segment}, 0, FALSE) :
                           k \in {x \in HostedItems(c, read) : ~Placed(c, read, x)}}
           V == PipingReadingFaults(c, d, hash) \cup PipingDimensionFaults(c, read) \cup PipingDuplicates(read)
                  \cup RouteViolations(c, read) \cup Misplaced
                  \cup SpacingViolations(c, read) \cup ClearanceViolations(c, read)
<1>6. VerifyPiping(c, d, hash) = Answer(RaisesPiping(c, read), V)
  BY Zenon DEF VerifyPiping, JudgedPiping
<1>7. RaisesPiping(c, read) \in BOOLEAN
  BY DEF RaisesPiping
<1>8. v \in V /\ v.code \in ReadingCodes
  <2>1. v.code = "ID_DUPLICATE"
    BY DEF Violation
  <2> HIDE DEF v
  <2> QED  BY <1>5, <2>1 DEF ReadingCodes
<1> HIDE DEF v, V, read
<1> QED  BY <1>6, <1>7, <1>8, RaisedOrFound DEF d

\* The entity of a plan on a layer under an id, and that of an id on the layers that are measured.
PlanPart(c, hash, layer, id) ==
    CASE layer = "A-GRID" -> GridOf(c, hash, id)
      [] layer = "A-WALL" -> WallOf(c, hash, id)
      [] layer = "A-WALL-CENTER" -> CentreOf(c, hash, id)
      [] layer = "A-DOOR" -> OpeningOf(c, hash, id)
      [] layer = "A-WIND" -> OpeningOf(c, hash, id)
      [] layer = "A-COLS" -> ColumnOf(c, hash, id)
      [] layer = "A-ROOM" -> RoomOf(c, hash, id)
      [] layer = "A-DIMS" -> TextOf("A-DIMS", id, "dimension", hash)
      [] layer = "A-ANNO" -> TextOf("A-ANNO", id, "room_annotation", hash)
      [] OTHER -> TextOf("DG-META", id, "metadata", hash)
PrimaryPart(c, hash, id) ==
    CASE id \in DOMAIN c.grids -> GridOf(c, hash, id)
      [] id \in DOMAIN c.walls -> WallOf(c, hash, id)
      [] id \in DOMAIN c.openings -> OpeningOf(c, hash, id)
      [] id \in DOMAIN c.columns -> ColumnOf(c, hash, id)
      [] OTHER -> RoomOf(c, hash, id)

\* An entity of a plan as its verifier expects it.
OwnPlan(c, hash, e) ==
    /\ e.labelled /\ e.hash = hash /\ e.layer \in PlanLayers
    /\ Representation(e) \in ExpectedPlan(c) /\ MeasurableOnPlan(e)
    /\ e = PlanPart(c, hash, e.layer, e.id)
    /\ e.layer \in PrimaryLayers => e = PrimaryPart(c, hash, e.id)

\* Whatever is written is as expected.
LEMMA OwnPlanIs ==
    ASSUME NEW c, PlanContract(c), NEW hash, NEW e \in WrittenPlan(c, hash)
    PROVE  OwnPlan(c, hash, e)
<1> DEFINE Fits(x, layer, form, id, type) ==
             /\ x.layer = layer /\ x.form = form /\ x.id = id /\ x.type = type /\ x.labelled /\ x.hash = hash
<1>0. \A x \in PlanAnnotations \cup PrimaryLayers \cup {"A-WALL-CENTER"} : x \in PlanLayers
  BY DEF PlanLayers
<1>1. /\ DOMAIN c.grids \cap (DOMAIN c.walls \cup DOMAIN c.openings \cup DOMAIN c.columns \cup DOMAIN c.rooms) = {}
      /\ DOMAIN c.walls \cap (DOMAIN c.openings \cup DOMAIN c.columns \cup DOMAIN c.rooms) = {}
      /\ DOMAIN c.openings \cap (DOMAIN c.columns \cup DOMAIN c.rooms) = {}
      /\ DOMAIN c.columns \cap DOMAIN c.rooms = {}
  <2>1. \A x, y \in {"grids", "walls", "openings", "columns", "rooms"} : x # y => DOMAIN c[x] \cap DOMAIN c[y] = {}
    BY DEF PlanContract
  <2>2. /\ DOMAIN c.grids \cap DOMAIN c.walls = {} /\ DOMAIN c.grids \cap DOMAIN c.openings = {}
        /\ DOMAIN c.grids \cap DOMAIN c.columns = {} /\ DOMAIN c.grids \cap DOMAIN c.rooms = {}
        /\ DOMAIN c.walls \cap DOMAIN c.openings = {} /\ DOMAIN c.walls \cap DOMAIN c.columns = {}
        /\ DOMAIN c.walls \cap DOMAIN c.rooms = {} /\ DOMAIN c.openings \cap DOMAIN c.columns = {}
        /\ DOMAIN c.openings \cap DOMAIN c.rooms = {} /\ DOMAIN c.columns \cap DOMAIN c.rooms = {}
    BY <2>1
  <2> QED  BY <2>2
<1>2. ASSUME NEW g \in DOMAIN c.grids, e = GridOf(c, hash, g) PROVE OwnPlan(c, hash, e)
  <2>1. Fits(e, "A-GRID", "line", g, "grid") /\ e.points = c.grids[g]
    BY <1>2 DEF GridOf, PlanEntity
  <2>2. LineLength(e.points) > 0
    BY <2>1, LineRuns DEF PlanContract
  <2>3. MeasurableOnPlan(e)
    BY <2>1, <2>2 DEF MeasurableOnPlan, Typed
  <2>4. Representation(e) \in ExpectedPlan(c) /\ e.layer \in PlanLayers
    BY <1>0, <2>1, PlanExpected DEF Representation, PrimaryLayers
  <2>5. e = PlanPart(c, hash, e.layer, e.id) /\ e = PrimaryPart(c, hash, e.id)
    BY <1>1, <1>2, <2>1 DEF PlanPart, PrimaryPart
  <2> QED  BY <2>1, <2>3, <2>4, <2>5 DEF OwnPlan
<1>3. ASSUME NEW w \in DOMAIN c.walls, e = WallOf(c, hash, w) PROVE OwnPlan(c, hash, e)
  <2>1. Fits(e, "A-WALL", "closed", w, "wall")
    BY <1>3 DEF WallOf, PlanEntity
  <2>3. MeasurableOnPlan(e)
    BY <2>1 DEF MeasurableOnPlan, Typed
  <2>4. Representation(e) \in ExpectedPlan(c) /\ e.layer \in PlanLayers
    BY <1>0, <2>1, PlanExpected DEF Representation, PrimaryLayers
  <2>5. e = PlanPart(c, hash, e.layer, e.id) /\ e = PrimaryPart(c, hash, e.id)
    BY <1>1, <1>3, <2>1 DEF PlanPart, PrimaryPart
  <2> QED  BY <2>1, <2>3, <2>4, <2>5 DEF OwnPlan
<1>4. ASSUME NEW w \in DOMAIN c.walls, e = CentreOf(c, hash, w) PROVE OwnPlan(c, hash, e)
  <2>1. Fits(e, "A-WALL-CENTER", "line", w, "wall_centerline") /\ e.points = c.walls[w].line
    BY <1>4 DEF CentreOf, PlanEntity
  <2>2. LineLength(e.points) > 0
    BY <2>1, LineRuns DEF PlanContract
  <2>3. MeasurableOnPlan(e)
    BY <2>1, <2>2 DEF MeasurableOnPlan, Typed
  <2>4. Representation(e) \in ExpectedPlan(c) /\ e.layer \in PlanLayers /\ e.layer \notin PrimaryLayers
    BY <1>0, <2>1, PlanExpected DEF Representation, PrimaryLayers
  <2>5. e = PlanPart(c, hash, e.layer, e.id)
    BY <1>4, <2>1 DEF PlanPart
  <2> QED  BY <2>1, <2>3, <2>4, <2>5 DEF OwnPlan
<1>5. ASSUME NEW o \in DOMAIN c.openings, e = OpeningOf(c, hash, o) PROVE OwnPlan(c, hash, e)
  <2>1. Fits(e, OpeningLayer(c, o), "closed", o, c.openings[o].type)
    BY <1>5 DEF OpeningOf, PlanEntity
  <2>2. OpeningLayer(c, o) \in {"A-DOOR", "A-WIND"}
    BY DEF OpeningLayer
  <2>3. MeasurableOnPlan(e)
    BY <2>1, <2>2 DEF MeasurableOnPlan, Typed
  <2>4. Representation(e) \in ExpectedPlan(c) /\ e.layer \in PlanLayers
    BY <1>0, <2>1, <2>2, PlanExpected DEF Representation, PrimaryLayers
  <2>5. e = PlanPart(c, hash, e.layer, e.id) /\ e = PrimaryPart(c, hash, e.id)
    BY <1>1, <1>5, <2>1, <2>2 DEF PlanPart, PrimaryPart
  <2> QED  BY <2>1, <2>3, <2>4, <2>5 DEF OwnPlan
<1>6. ASSUME NEW k \in DOMAIN c.columns, e = ColumnOf(c, hash, k) PROVE OwnPlan(c, hash, e)
  <2>1. \E form \in {"circle", "closed"} : Fits(e, "A-COLS", form, k, c.columns[k].type)
    BY <1>6 DEF ColumnOf, PlanEntity
  <2>3. MeasurableOnPlan(e)
    BY <2>1 DEF MeasurableOnPlan, Typed
  <2>4. Representation(e) \in ExpectedPlan(c) /\ e.layer \in PlanLayers
    BY <1>0, <2>1, PlanExpected DEF Representation, PrimaryLayers
  <2>5. e = PlanPart(c, hash, e.layer, e.id) /\ e = PrimaryPart(c, hash, e.id)
    BY <1>1, <1>6, <2>1 DEF PlanPart, PrimaryPart
  <2> QED  BY <2>1, <2>3, <2>4, <2>5 DEF OwnPlan
<1>7. ASSUME NEW r \in DOMAIN c.rooms, e = RoomOf(c, hash, r) PROVE OwnPlan(c, hash, e)
  <2>1. Fits(e, "A-ROOM", "point", r, "room_seed")
    BY <1>7 DEF RoomOf, PlanEntity
  <2>3. MeasurableOnPlan(e)
    BY <2>1 DEF MeasurableOnPlan, Typed
  <2>4. Representation(e) \in ExpectedPlan(c) /\ e.layer \in PlanLayers
    BY <1>0, <2>1, PlanExpected DEF Representation, PrimaryLayers
  <2>5. e = PlanPart(c, hash, e.layer, e.id) /\ e = PrimaryPart(c, hash, e.id)
    BY <1>1, <1>7, <2>1 DEF PlanPart, PrimaryPart
  <2> QED  BY <2>1, <2>3, <2>4, <2>5 DEF OwnPlan
<1>8. ASSUME NEW layer \in PlanAnnotations, NEW id, NEW type, e = TextOf(layer, id, type, hash),
             <<id, type, layer>> \in ExpectedPlan(c), e = PlanPart(c, hash, layer, id)
      PROVE  OwnPlan(c, hash, e)
  <2>1. Fits(e, layer, "text", id, type)
    BY <1>8 DEF TextOf, PlanEntity
  <2>2. layer \notin PrimaryLayers /\ layer \notin {"A-GRID", "A-WALL-CENTER", "A-ROOM", "A-WALL", "A-DOOR", "A-WIND", "A-COLS"}
    BY DEF PlanAnnotations, PrimaryLayers
  <2>3. MeasurableOnPlan(e)
    BY <2>1, <2>2 DEF MeasurableOnPlan, Typed
  <2>4. Representation(e) \in ExpectedPlan(c) /\ e.layer \in PlanLayers
    BY <1>0, <1>8, <2>1 DEF Representation
  <2>5. e = PlanPart(c, hash, e.layer, e.id)
    BY <1>8, <2>1
  <2> QED  BY <2>1, <2>2, <2>3, <2>4, <2>5 DEF OwnPlan
<1>9. ASSUME NEW x \in Noted(c), e = TextOf("A-DIMS", x, "dimension", hash) PROVE OwnPlan(c, hash, e)
  <2>1. <<x, "dimension", "A-DIMS">> \in ExpectedPlan(c)
    BY DEF ExpectedPlan, Noted
  <2>2. e = PlanPart(c, hash, "A-DIMS", x)
    BY <1>9 DEF PlanPart
  <2> QED  BY <1>8, <1>9, <2>1, <2>2 DEF PlanAnnotations
<1>10. ASSUME NEW x \in Labelled(c), e = TextOf("A-ANNO", x, "room_annotation", hash) PROVE OwnPlan(c, hash, e)
  <2>1. <<x, "room_annotation", "A-ANNO">> \in ExpectedPlan(c)
    BY DEF ExpectedPlan, Labelled
  <2>2. e = PlanPart(c, hash, "A-ANNO", x)
    BY <1>10 DEF PlanPart
  <2> QED  BY <1>8, <1>10, <2>1, <2>2 DEF PlanAnnotations
<1>11. ASSUME e = TextOf("DG-META", "architectural-metadata", "metadata", hash) PROVE OwnPlan(c, hash, e)
  <2>1. <<"architectural-metadata", "metadata", "DG-META">> \in ExpectedPlan(c)
    BY DEF ExpectedPlan
  <2>2. e = PlanPart(c, hash, "DG-META", "architectural-metadata")
    BY <1>11 DEF PlanPart
  <2> QED  BY <1>8, <1>11, <2>1, <2>2 DEF PlanAnnotations
<1>12. \/ \E g \in DOMAIN c.grids : e = GridOf(c, hash, g)
       \/ \E w \in DOMAIN c.walls : e = WallOf(c, hash, w)
       \/ \E w \in DOMAIN c.walls : e = CentreOf(c, hash, w)
       \/ \E o \in DOMAIN c.openings : e = OpeningOf(c, hash, o)
       \/ \E k \in DOMAIN c.columns : e = ColumnOf(c, hash, k)
       \/ \E r \in DOMAIN c.rooms : e = RoomOf(c, hash, r)
       \/ \E x \in Noted(c) : e = TextOf("A-DIMS", x, "dimension", hash)
       \/ \E x \in Labelled(c) : e = TextOf("A-ANNO", x, "room_annotation", hash)
       \/ e = TextOf("DG-META", "architectural-metadata", "metadata", hash)
  BY Zenon DEF WrittenPlan
<1> QED  BY <1>2, <1>3, <1>4, <1>5, <1>6, <1>7, <1>9, <1>10, <1>11, <1>12

\* Whatever is expected is written.
LEMMA ExpectedIsWritten ==
    ASSUME NEW c, NEW hash, NEW r \in ExpectedPlan(c)
    PROVE  \E e \in WrittenPlan(c, hash) : Representation(e) = r
<1> DEFINE S == WrittenPlan(c, hash)
           Met == \E e \in S : Representation(e) = r
<1> USE DEF Representation, PlanEntity
<1>1. ASSUME NEW g \in DOMAIN c.grids, r = <<g, "grid", "A-GRID">> PROVE Met
  <2>1. GridOf(c, hash, g) \in S
    BY Zenon DEF WrittenPlan
  <2>2. Representation(GridOf(c, hash, g)) = r
    BY <1>1 DEF GridOf
  <2> QED  BY <2>1, <2>2, Zenon
<1>2. ASSUME NEW w \in DOMAIN c.walls, r = <<w, "wall", "A-WALL">> PROVE Met
  <2>1. WallOf(c, hash, w) \in S
    BY Zenon DEF WrittenPlan
  <2>2. Representation(WallOf(c, hash, w)) = r
    BY <1>2 DEF WallOf
  <2> QED  BY <2>1, <2>2, Zenon
<1>3. ASSUME NEW w \in DOMAIN c.walls, r = <<w, "wall_centerline", "A-WALL-CENTER">> PROVE Met
  <2>1. CentreOf(c, hash, w) \in S
    BY Zenon DEF WrittenPlan
  <2>2. Representation(CentreOf(c, hash, w)) = r
    BY <1>3 DEF CentreOf
  <2> QED  BY <2>1, <2>2, Zenon
<1>4. ASSUME NEW o \in DOMAIN c.openings, r = <<o, c.openings[o].type, OpeningLayer(c, o)>> PROVE Met
  <2>1. OpeningOf(c, hash, o) \in S
    BY Zenon DEF WrittenPlan
  <2>2. Representation(OpeningOf(c, hash, o)) = r
    BY <1>4 DEF OpeningOf
  <2> QED  BY <2>1, <2>2, Zenon
<1>5. ASSUME NEW k \in DOMAIN c.columns, r = <<k, c.columns[k].type, "A-COLS">> PROVE Met
  <2>1. ColumnOf(c, hash, k) \in S
    BY Zenon DEF WrittenPlan
  <2>2. Representation(ColumnOf(c, hash, k)) = r
    BY <1>5 DEF ColumnOf
  <2> QED  BY <2>1, <2>2, Zenon
<1>6. ASSUME NEW x \in DOMAIN c.rooms, r = <<x, "room_seed", "A-ROOM">> PROVE Met
  <2>1. RoomOf(c, hash, x) \in S
    BY Zenon DEF WrittenPlan
  <2>2. Representation(RoomOf(c, hash, x)) = r
    BY <1>6 DEF RoomOf
  <2> QED  BY <2>1, <2>2, Zenon
<1>7. ASSUME NEW layer, NEW id, NEW type, TextOf(layer, id, type, hash) \in S, r = <<id, type, layer>> PROVE Met
  <2>1. Representation(TextOf(layer, id, type, hash)) = r
    BY <1>7 DEF TextOf
  <2> QED  BY <1>7, <2>1, Zenon
<1>8. ASSUME NEW x \in Noted(c), r = <<x, "dimension", "A-DIMS">> PROVE Met
  <2>1. TextOf("A-DIMS", x, "dimension", hash) \in S
    BY Zenon DEF WrittenPlan
  <2> QED  BY <1>7, <1>8, <2>1
<1>9. ASSUME NEW x \in Labelled(c), r = <<x, "room_annotation", "A-ANNO">> PROVE Met
  <2>1. TextOf("A-ANNO", x, "room_annotation", hash) \in S
    BY Zenon DEF WrittenPlan
  <2> QED  BY <1>7, <1>9, <2>1
<1>10. ASSUME r = <<"architectural-metadata", "metadata", "DG-META">> PROVE Met
  <2>1. TextOf("DG-META", "architectural-metadata", "metadata", hash) \in S
    BY Zenon DEF WrittenPlan
  <2> QED  BY <1>7, <1>10, <2>1
<1>11. \/ \E g \in DOMAIN c.grids : r = <<g, "grid", "A-GRID">>
       \/ \E w \in DOMAIN c.walls : r = <<w, "wall", "A-WALL">>
       \/ \E w \in DOMAIN c.walls : r = <<w, "wall_centerline", "A-WALL-CENTER">>
       \/ \E o \in DOMAIN c.openings : r = <<o, c.openings[o].type, OpeningLayer(c, o)>>
       \/ \E k \in DOMAIN c.columns : r = <<k, c.columns[k].type, "A-COLS">>
       \/ \E x \in DOMAIN c.rooms : r = <<x, "room_seed", "A-ROOM">>
       \/ \E x \in Noted(c) : r = <<x, "dimension", "A-DIMS">>
       \/ \E x \in Labelled(c) : r = <<x, "room_annotation", "A-ANNO">>
       \/ r = <<"architectural-metadata", "metadata", "DG-META">>
  BY DEF ExpectedPlan, Noted, Labelled
<1> HIDE DEF Met
<1> QED  BY <1>1, <1>2, <1>3, <1>4, <1>5, <1>6, <1>8, <1>9, <1>10, <1>11 DEF Met

\* The service reads the drawing of a plan, whatever its status: every representation once.
LEMMA OwnPlanIsReadable ==
    ASSUME NEW c, PlanContract(c), NEW hash
    PROVE  Readable(VerifyPlan(c, DrawnPlan(c, hash), hash))
<1> DEFINE d == DrawnPlan(c, hash)
           S == WrittenPlan(c, hash)
           read == PrimaryOf(d)
           lines == LinesOf(d)
           On(i) == d.entities[i]
           All == DOMAIN d.entities
<1>1. d.layers = PlanLayers /\ d.release = "R2013" /\ d.unit = "mm"
  BY DEF DrawnPlan, Drawing
<1>2. Traced(d, d) /\ Cornered(d)
  BY PlanEntities, TracedSelf DEF Cornered
<1>3. IsFiniteSet(S) /\ Lists(d.entities, S)
  BY PlanListed DEF Listed
<1>4. (\A e \in S : OwnPlan(c, hash, e)) /\ \A r \in ExpectedPlan(c) : \E e \in S : Representation(e) = r
  BY OwnPlanIs, ExpectedIsWritten
<1> HIDE DEF d, S
<1>5. /\ Len(d.entities) \in Nat /\ All = 1..Len(d.entities) /\ All \subseteq Nat
      /\ \A i \in All : On(i) \in S
      /\ \A e \in S : \E i \in All : On(i) = e
      /\ \A i, j \in All : On(i) = On(j) => i = j
  BY <1>3, ListedOnce
<1>6. ASSUME NEW i \in All
      PROVE  /\ On(i).labelled /\ On(i).hash = hash /\ On(i).layer \in PlanLayers
             /\ Representation(On(i)) \in ExpectedPlan(c) /\ MeasurableOnPlan(On(i))
             /\ On(i) = PlanPart(c, hash, On(i).layer, On(i).id)
             /\ On(i).layer \in PrimaryLayers => On(i) = PrimaryPart(c, hash, On(i).id)
  BY <1>4, <1>5 DEF OwnPlan
<1>7. \A i, j \in All : Representation(On(i)) = Representation(On(j)) => i = j
  <2> SUFFICES ASSUME NEW i \in All, NEW j \in All, Representation(On(i)) = Representation(On(j)) PROVE i = j
    OBVIOUS
  <2>1. On(i).id = On(j).id /\ On(i).layer = On(j).layer
    BY DEF Representation
  <2>2. On(i) = On(j)
    BY <1>6, <2>1
  <2> QED  BY <1>5, <2>2
<1>8. ApprovedPlan(d) = All
  BY <1>6 DEF ApprovedPlan
<1>9. FirstSeenPlan(d) = All
  <2>1. \A i, j \in All : j < i => Representation(On(j)) # Representation(On(i))
    BY <1>5, <1>7
  <2>2. \A i \in All : On(i).labelled
    BY <1>6
  <2> QED  BY <1>8, <2>1, <2>2 DEF FirstSeenPlan
<1>10. PlanReadingFaults(c, d, hash) = {}
  <2>1. FileViolations(d, PlanLayers) = {}
    BY <1>1 DEF FileViolations
  <2>2. MissingRepresentations(c, d) = {}
    <3> DEFINE Missing == ExpectedPlan(c) \ {Representation(d.entities[i]) : i \in FirstSeenPlan(d)}
               Named == {m[1] : m \in Missing}
    <3>1. \A r \in ExpectedPlan(c) : \E i \in All : Representation(On(i)) = r
      <4> HIDE DEF On
      <4> QED  BY <1>4, <1>5
    <3>2. Missing = {}
      BY <1>9, <3>1
    <3>3. MissingRepresentations(c, d) = IF Missing = {} THEN {} ELSE {Violation("ENTITY_MISSING", Named, 0, FALSE)}
      BY Zenon DEF MissingRepresentations
    <3> HIDE DEF Missing, Named
    <3> QED  BY <3>2, <3>3
  <2>3. ASSUME NEW i \in All PROVE PlanEntityFaults(c, d, hash, i) = {}
    <3> DEFINE e == On(i)
               Repeated == \E j \in Measured(d, PrimaryLayers) : j < i /\ On(j).id = On(i).id
               Met == IF Representation(e) \notin ExpectedPlan(c) THEN {"IDENTITY_MISMATCH"} ELSE {}
               Made == IF ~Typed(e) THEN {"UNSUPPORTED"}
                       ELSE IF ~MeasurableOnPlan(e) THEN {"GEOMETRY_INVALID"}
                       ELSE IF e.layer \in PrimaryLayers /\ Repeated THEN {"ID_DUPLICATE"}
                       ELSE {}
               Once == IF i \notin FirstSeenPlan(d) THEN {"ID_DUPLICATE"} ELSE Met \cup Made
               Codes == IF e.layer \notin PlanLayers THEN {"LAYER_INVALID"}
                        ELSE IF ~e.labelled THEN {"XDATA_MISSING"}
                        ELSE (IF e.hash # hash THEN {"HASH_MISMATCH"} ELSE {}) \cup Once
    <3>1. PlanEntityFaults(c, d, hash, i) = {Violation(code, IF e.labelled THEN {e.id} ELSE {}, 0, FALSE) : code \in Codes}
      BY Zenon DEF PlanEntityFaults
    <3>2. ~(e.layer \in PrimaryLayers /\ Repeated)
      <4> SUFFICES ASSUME e.layer \in PrimaryLayers, NEW j \in Measured(d, PrimaryLayers), j < i, On(j).id = On(i).id
                   PROVE  FALSE
        OBVIOUS
      <4>1. j \in All /\ On(j).layer \in PrimaryLayers
        BY <1>9 DEF Measured
      <4>2. On(j) = On(i)
        BY <1>6, <4>1
      <4>3. j = i
        BY <1>5, <4>1, <4>2
      <4> QED  BY <1>5, <4>1, <4>3
    <3> HIDE DEF Repeated
    <3>3. Met = {} /\ Typed(e) /\ MeasurableOnPlan(e) /\ e.layer \in PlanLayers /\ e.labelled /\ e.hash = hash
      BY <1>6 DEF MeasurableOnPlan
    <3>4. Made = {}
      BY <3>2, <3>3
    <3>5. Codes = {}
      <4> HIDE DEF Met, Made, e
      <4> QED  BY <1>9, <3>3, <3>4
    <3> HIDE DEF Codes
    <3> QED  BY <3>1, <3>5
  <2> QED  BY <2>1, <2>2, <2>3 DEF PlanReadingFaults
<1>11. WholePlan(c, read, lines)
  BY <1>2, <1>10, PlanMeasured
<1>12. \A i \in All : On(i).layer \in PrimaryLayers => On(i).id \in DOMAIN read /\ read[On(i).id] = On(i)
  BY <1>2, <1>10, PlanRead
<1> HIDE DEF read, lines
\* Walls and openings are areas.
<1>13. ASSUME NEW id, NEW type, NEW layer \in {"A-WALL", "A-DOOR", "A-WIND"}, <<id, type, layer>> \in ExpectedPlan(c)
       PROVE  IsArea(read[id])
  <2>1. PICK i \in All : Representation(On(i)) = <<id, type, layer>>
    <3> HIDE DEF On
    <3> QED  BY <1>4, <1>5, <1>13
  <2>2. On(i).id = id /\ On(i).layer = layer
    BY <2>1 DEF Representation
  <2>3. read[id] = On(i)
    BY <1>12, <2>2 DEF PrimaryLayers
  <2>4. PlanPart(c, hash, layer, id).form = "closed"
    <3>1. CASE layer = "A-WALL"
      BY <3>1 DEF PlanPart, WallOf, PlanEntity
    <3>2. CASE layer \in {"A-DOOR", "A-WIND"}
      BY <3>2 DEF PlanPart, OpeningOf, PlanEntity
    <3> QED  BY <3>1, <3>2
  <2>5. On(i).form = "closed"
    BY <1>6, <2>2, <2>4
  <2> HIDE DEF On
  <2> QED  BY <2>3, <2>5 DEF IsArea
<1>14. ~Unprojectable(c, read)
  <2>1. \A w \in DOMAIN c.walls : IsArea(read[w])
    BY <1>13, PlanExpected
  <2>2. \A o \in DOMAIN c.openings : IsArea(read[o]) /\ c.openings[o].wall \in DOMAIN c.walls
    <3>1. \A o \in DOMAIN c.openings : OpeningLayer(c, o) \in {"A-DOOR", "A-WIND"} /\ c.openings[o].wall \in DOMAIN c.walls
      BY DEF OpeningLayer, PlanContract
    <3> QED  BY <1>13, <3>1, PlanExpected
  <2> QED  BY <2>1, <2>2 DEF Unprojectable, HostedOpenings
<1> DEFINE Unread == PlanIds(c) \ DOMAIN read
           E == {ConstraintViolations(c, read, i) : i \in DOMAIN c.constraints}
           V == PlanReadingFaults(c, d, hash) \cup PlanDimensionFaults(c, read)
                  \cup (IF Unread = {} THEN {} ELSE {Violation("ENTITY_MISSING", Unread, 0, FALSE)})
                  \cup PlanDuplicates(read) \cup OpeningViolations(c, read) \cup WallViolations(c, read, lines)
                  \cup UNION E
<1>15. Unread = {}
  BY <1>11 DEF WholePlan
<1>16. /\ \A v \in PlanDimensionFaults(c, read) : v.code \in {"UNMEASURABLE", "TOLERANCE"}
       /\ \A v \in PlanDuplicates(read) : v.code = "DUPLICATE_GEOMETRY"
       /\ \A v \in OpeningViolations(c, read) : v.code \in {"OPENING_OUTSIDE_HOST", "OPENING_OVERLAP"}
       /\ \A v \in WallViolations(c, read, lines) :
            v.code \in {"CENTERLINE_MISMATCH", "WALL_DISCONNECTED", "EXTERIOR_OPEN", "ROOM_UNRESOLVED"}
  <2>1. \A v \in PlanDimensionFaults(c, read) : \E on, n, r :
          v = Violation("UNMEASURABLE", on, n, r) \/ v = Violation("TOLERANCE", on, n, r)
    BY Zenon DEF PlanDimensionFaults
  <2>2. \A v \in PlanDuplicates(read) : \E on : v = Violation("DUPLICATE_GEOMETRY", on, 0, FALSE)
    BY Zenon DEF PlanDuplicates
  <2>3. \A v \in OpeningViolations(c, read) : \E on, r :
          v = Violation("OPENING_OUTSIDE_HOST", on, 0, r) \/ v = Violation("OPENING_OVERLAP", on, 0, r)
    BY Zenon DEF OpeningViolations
  <2>4. \A v \in WallViolations(c, read, lines) : \E on :
          \/ v = Violation("CENTERLINE_MISMATCH", on, 0, FALSE) \/ v = Violation("WALL_DISCONNECTED", on, 0, FALSE)
          \/ v = Violation("EXTERIOR_OPEN", on, 0, FALSE) \/ v = Violation("ROOM_UNRESOLVED", on, 0, FALSE)
    BY Zenon DEF WallViolations
  <2> QED  BY <2>1, <2>2, <2>3, <2>4 DEF Violation
<1>17. ASSUME NEW i \in DOMAIN c.constraints, NEW v \in ConstraintViolations(c, read, i)
       PROVE  v.code \in {"COLUMN_OFF_GRID", "COLUMN_OPENING_CLEARANCE", "CONSTRAINT_OVERLAP"}
  <2>1. \E on, r :
          \/ v = Violation("COLUMN_OFF_GRID", on, i, r) \/ v = Violation("COLUMN_OPENING_CLEARANCE", on, i, r)
          \/ v = Violation("CONSTRAINT_OVERLAP", on, i, r)
    BY Zenon DEF ConstraintViolations
  <2> QED  BY <2>1 DEF Violation
<1>18. \A v \in V : v.code \notin ReadingCodes
  <2>1. \A v \in UNION E : v.code \in {"COLUMN_OFF_GRID", "COLUMN_OPENING_CLEARANCE", "CONSTRAINT_OVERLAP"}
    BY <1>17
  <2> HIDE DEF Unread, E
  <2> QED  BY <1>10, <1>15, <1>16, <2>1 DEF ReadingCodes
<1>19. VerifyPlan(c, d, hash) = Answer(Unprojectable(c, read), V)
  <2>1. JudgedPlan(c, read, lines, PlanReadingFaults(c, d, hash)) = Answer(Unprojectable(c, read), V)
    BY Zenon DEF JudgedPlan
  <2>2. VerifyPlan(c, d, hash) = JudgedPlan(c, read, lines, PlanReadingFaults(c, d, hash))
    BY PlanReadings DEF read, lines
  <2> QED  BY <2>1, <2>2, Zenon
<1>20. Unprojectable(c, read) \in BOOLEAN
  BY DEF Unprojectable
<1> HIDE DEF V
<1>21. Readable(Answer(Unprojectable(c, read), V))
  BY <1>14, <1>18, <1>20, ReadableAnswer
<1> QED  BY <1>19, <1>21 DEF d
-----------------------------------------------------------------------------
(* The client, the drawing services and the other program *)

\* What is known of a session with the drawing services between two requests.
ExchangeInv ==
    /\ service = "exchange" => family \in DOMAIN Contracts /\ held \in DOMAIN Contracts[family]
    /\ service # "exchange" => drawing = {}
    /\ \E d : drawing \subseteq {d}
    /\ family # "rhino" /\ Passed => \A d \in drawing : Verified(held, d).status = "passed"
    /\ family = "rhino" /\ Passed => drawing \subseteq RoundTrip(Contract(held), held)

\* What is answered about a contract changes with the kind of design alone.
LEMMA SameVerdicts ==
    ASSUME family' = family
    PROVE  /\ \A n : Contract(n)' = Contract(n) /\ Hash(n)' = Hash(n) /\ Drawn(n)' = Drawn(n)
           /\ \A n, claim : Status(n, claim)' = Status(n, claim)
           /\ \A n, d : Verified(n, d)' = Verified(n, d)
           /\ Claims' = Claims
<1>1. \A n : Contract(n)' = Contract(n) /\ Normalized(n)' = Normalized(n)
  BY DEF Contract, Normalized
<1>2. \A n : Hash(n)' = Hash(n)
  BY <1>1 DEF Hash
<1>3. \A n, claim : Status(n, claim)' = Status(n, claim)
  BY Zenon, <1>1, <1>2 DEF Status, StatusOf
<1>4. \A n, d : Verified(n, d)' = Verified(n, d)
  BY Zenon, <1>1, <1>2 DEF Verified, VerdictOf
<1>5. \A n : Drawn(n)' = Drawn(n)
  BY Zenon, <1>1, <1>2 DEF Drawn, DrawingOf
<1>6. Claims' = Claims
  BY <1>2 DEF Claims
<1> QED  BY <1>1, <1>2, <1>3, <1>4, <1>5, <1>6

\* A verdict is about the contract and the drawing that the client holds.
THEOREM ExchangeInvariant == ServicesSpec => []ExchangeInv
<1>1. ServicesInit => ExchangeInv
  BY DEF ServicesInit, ExchangeInit, NoExchange, ExchangeInv, Passed
<1>2. ExchangeInv /\ [ServicesNext]_serviceVars => ExchangeInv'
  <2> SUFFICES ASSUME ExchangeInv, [ServicesNext]_serviceVars
               PROVE  ExchangeInv'
    OBVIOUS
  <2> USE DEF Passed
  <2>1. CASE UNCHANGED <<service, exchangeVars>>
    <3>1. UNCHANGED <<service, family, held, drawing, edits, verdict>>
      BY <2>1 DEF exchangeVars
    <3> QED  BY <3>1, SameVerdicts DEF ExchangeInv
  <2>2. ASSUME service = "exchange", service' = service, family' = family,
               held' \in DOMAIN Contracts[family], verdict' = {},
               \E d : drawing' \subseteq {d}
        PROVE  ExchangeInv'
    BY <2>2 DEF ExchangeInv
  <2>3. CASE Revise /\ service = "exchange" /\ service' = service
    BY <2>2, <2>3 DEF Revise, ExchangeInv
  <2>4. CASE Generate /\ service = "exchange" /\ service' = service
    BY <2>2, <2>4 DEF Generate, ExchangeInv
  <2>5. CASE EditDrawing /\ service = "exchange" /\ service' = service
    BY <2>2, <2>5 DEF EditDrawing, ExchangeInv
  <2>6. CASE Verify /\ service = "exchange" /\ service' = service
    <3>1. PICK d \in drawing : verdict' = {Verified(held, d).status}
      BY <2>6 DEF Verify
    <3>2. drawing = {d}
      BY <3>1 DEF ExchangeInv
    <3> QED  BY <2>6, <3>1, <3>2, SameVerdicts DEF Verify, ExchangeInv
  <2>7. CASE RunPipingDesign /\ service = "exchange" /\ service' = service
    <3>1. family = "piping" /\ family' = family /\ held' = held
      BY <2>7 DEF RunPipingDesign
    <3>2. \A d : Verified(held, d) = VerifyPiping(Normalized(held), d, Hash(held))
      BY <3>1 DEF Verified, VerdictOf
    <3>3. \E d : drawing' \subseteq {d}
      BY <2>7 DEF RunPipingDesign
    <3>4. \/ drawing' = {}
          \/ verdict' = {Verified(held, d).status : d \in drawing'}
      BY <2>7, <3>2 DEF RunPipingDesign
    <3>5. verdict' = {"passed"} => \A d \in drawing' : Verified(held, d).status = "passed"
      BY <3>4
    <3> QED  BY <2>7, <3>1, <3>3, <3>5, SameVerdicts DEF ExchangeInv
  <2>8. CASE RunFrameAssurance /\ service = "exchange" /\ service' = service
    <3>1. family = "frame" /\ family' = family /\ held' = held
      BY <2>8 DEF RunFrameAssurance
    <3>2. PICK claim \in Claims : drawing' = CadAssurance(Contract(held), claim, Hash(held))
      BY <2>8 DEF RunFrameAssurance
    <3>3. \A d \in drawing' : d = DrawnFrame(Contract(held), Hash(held)) /\ Verified(held, d).status = "passed"
      BY <3>1, <3>2 DEF CadAssurance, Verified, VerdictOf, Normalized
    <3> QED  BY <2>8, <3>1, <3>3, SameVerdicts DEF ExchangeInv
  <2>9. CASE RunRoundTrip /\ service = "exchange" /\ service' = service
    <3>1. family = "rhino" /\ family' = family /\ held' = held
          /\ drawing' = RoundTrip(Contract(held), held)
      BY <2>9 DEF RunRoundTrip
    <3>2. \A d \in drawing' : d = DrawnFrame(AdaptedContract(Contract(held)), held)
      BY <3>1, ReleasedDrawing
    <3> QED  BY <2>9, <3>1, <3>2, SameVerdicts DEF ExchangeInv
  <2>10. CASE Exchanging
    BY <2>3, <2>4, <2>5, <2>6, <2>7, <2>8, <2>9, <2>10 DEF Exchanging, ExchangeNext
  <2>11. CASE Repairs \/ Asking
    BY <2>1, <2>11 DEF Repairs, Asking
  <2> QED  BY <2>1, <2>10, <2>11 DEF ServicesNext, serviceVars
<1> QED  BY <1>1, <1>2, PTL DEF ServicesSpec

\* Contracts of one hash are the same once in millimetres.
LEMMA HashTellsApart ==
    ASSUME NEW m \in Nat \ {0}, NEW n \in Nat \ {0}
    PROVE  Hash(m) = Hash(n) => Normalized(m) = Normalized(n)
<1>1. ASSUME NEW k \in Nat \ {0}, NEW h, h = Hash(k) PROVE Normalized(h) = Normalized(k)
  <2> DEFINE T == {j \in 1..k : Normalized(j) = Normalized(k)}
  <2>1. T \in SUBSET Nat /\ k \in T
    OBVIOUS
  <2>2. \E j \in T : \A i \in T : j <= i
    <3> HIDE DEF T
    <3> QED  BY <2>1, LeastExists
  <2>3. h = Min(T)
    BY <1>1 DEF Hash
  <2>4. h \in T
    <3> HIDE DEF T
    <3> QED  BY <2>2, <2>3 DEF Min
  <2> QED  BY <2>4
<1>2. PICK h : h = Hash(m)
  OBVIOUS
<1>3. Hash(m) = Hash(n) => Normalized(h) = Normalized(m) /\ Normalized(h) = Normalized(n)
  BY <1>1, <1>2
<1> QED  BY <1>3

\* What a round trip releases is the exchange it was asked for.
THEOREM RoundTripKeepsGeometryHolds == ServicesSpec => []RoundTripKeepsGeometry
<1>1. ExchangeInv => RoundTripKeepsGeometry
  <2> SUFFICES ASSUME ExchangeInv, family = "rhino", Passed, NEW d \in drawing
               PROVE  KeepsGeometry(Contract(held), d)
    BY DEF RoundTripKeepsGeometry
  <2>1. d \in RoundTrip(Contract(held), held)
    BY DEF ExchangeInv
  <2>2. family \in DOMAIN Contracts /\ held \in DOMAIN Contracts[family]
    BY DEF ExchangeInv
  <2>3. FrameExchange(Contract(held))
    BY <2>2, ExchangeAssumption DEF WellFormed, Contract
  <2> QED  BY <2>1, <2>3, ReleasedKeepsGeometry
<1> QED  BY <1>1, ExchangeInvariant, PTL

\* A drawing stems from one that was drawn of a contract that was ready.
Traceable == {"plate", "piping", "plan", "frame"}
DrawnInv ==
    service = "exchange" /\ family \in Traceable =>
      \A d \in drawing : \E n \in DOMAIN Contracts[family] :
        /\ \E claim \in Claims : Status(n, claim) = "ready"
        /\ Traced(d, Drawn(n))

\* What is drawn of a contract that is ready is a drawing.
LEMMA ReadyDrawing ==
    ASSUME family \in Traceable \cap DOMAIN Contracts, NEW n \in DOMAIN Contracts[family],
           NEW claim, Status(n, claim) = "ready"
    PROVE  IsDrawing(Drawn(n))
<1>1. CASE family = "frame"
  <2>1. /\ Status(n, claim) = FrameStatus(Contract(n), claim, Hash(n))
        /\ Drawn(n) = DrawnFrame(Contract(n), Hash(n))
    BY <1>1 DEF Status, StatusOf, Drawn, DrawingOf, Normalized
  <2>2. FrameContract(Contract(n))
    BY <1>1, ExchangeAssumption DEF WellFormed, Contract
  <2> QED  BY <2>1, <2>2, FrameIsDrawing
<1>2. CASE family = "plate"
  <2>1. /\ Status(n, claim) = PlateStatus(Normalized(n), claim, Hash(n))
        /\ Drawn(n) = DrawnPlate(Normalized(n), Hash(n))
    BY <1>2 DEF Status, StatusOf, Drawn, DrawingOf
  <2>2. PlateContract(Normalized(n))
    <3>1. PlateContract(Contract(n)) /\ Inch \in Nat
      BY <1>2, ExchangeAssumption DEF WellFormed, Contract
    <3>2. Normalized(n) = NormalizedPlate(Contract(n), Inch)
      BY <1>2 DEF Normalized
    <3> QED  BY <3>1, <3>2, NormalizedPlateIsContract
  <2>3. Expandable(Normalized(n))
    BY <2>1 DEF PlateStatus
  <2> QED  BY <2>1, <2>2, <2>3, PlateEntities
<1>3. CASE family = "piping"
  <2>1. Drawn(n) = DrawnPiping(Normalized(n), Hash(n))
    BY <1>3 DEF Drawn, DrawingOf
  <2>2. PipingContract(Normalized(n))
    <3>1. PipingContract(Contract(n)) /\ Inch \in Nat \ {0}
      BY <1>3, ExchangeAssumption DEF WellFormed, Contract
    <3>2. Normalized(n) = NormalizedPiping(Contract(n), Inch)
      BY <1>3 DEF Normalized
    <3> QED  BY <3>1, <3>2, NormalizedPipingIsContract
  <2> QED  BY <2>1, <2>2, PipingEntities
<1>4. CASE family = "plan"
  <2>1. Drawn(n) = DrawnPlan(Normalized(n), Hash(n))
    BY <1>4 DEF Drawn, DrawingOf
  <2>2. PlanContract(Normalized(n))
    <3>1. PlanContract(Contract(n)) /\ Inch \in Nat \ {0}
      BY <1>4, ExchangeAssumption DEF WellFormed, Contract
    <3>2. Normalized(n) = NormalizedPlan(Contract(n), Inch)
      BY <1>4 DEF Normalized
    <3> QED  BY <3>1, <3>2, NormalizedPlanIsContract
  <2> QED  BY <2>1, <2>2, PlanEntities
<1> QED  BY <1>1, <1>2, <1>3, <1>4 DEF Traceable

\* Every drawing but that of a round trip stems from a contract that was ready.
THEOREM DrawnInvariant == ServicesSpec => []DrawnInv
<1>1. ServicesInit => DrawnInv
  BY DEF ServicesInit, ExchangeInit, NoExchange, DrawnInv
<1>2. ExchangeInv /\ DrawnInv /\ [ServicesNext]_serviceVars => DrawnInv'
  <2> SUFFICES ASSUME ExchangeInv, DrawnInv, [ServicesNext]_serviceVars,
                      service = "exchange", service' = service, family \in Traceable, family' = family
               PROVE  DrawnInv'
    BY DEF DrawnInv, ExchangeInv, ServicesNext, Repairs, Exchanging, Asking, serviceVars, exchangeVars,
           ExchangeNext, Revise, Generate, EditDrawing, Verify, RunPipingDesign, RunFrameAssurance, RunRoundTrip
  <2> DEFINE Stems(d) == \E n \in DOMAIN Contracts[family] :
                           /\ \E claim \in Claims : Status(n, claim) = "ready"
                           /\ Traced(d, Drawn(n))
  <2>1. held \in DOMAIN Contracts[family] /\ family \in DOMAIN Contracts
    BY DEF ExchangeInv
  <2>2. \A d \in drawing : Stems(d)
    BY DEF DrawnInv
  <2>3. ASSUME \A d \in drawing' : Stems(d) PROVE DrawnInv'
    BY <2>3, SameVerdicts DEF DrawnInv
  <2> HIDE DEF Stems
\* The drawing of a contract that is ready is written from it.
  <2>4. ASSUME NEW claim \in Claims, Status(held, claim) = "ready" PROVE Stems(Drawn(held))
    <3>1. IsDrawing(Drawn(held))
      BY <2>1, <2>4, ReadyDrawing
    <3>2. Traced(Drawn(held), Drawn(held))
      BY <3>1, TracedSelf
    <3> QED  BY <2>1, <2>4, <3>2 DEF Stems
  <2>5. CASE UNCHANGED drawing
    BY <2>2, <2>3, <2>5
  <2>6. CASE Generate
    <3>1. PICK claim \in Claims : Status(held, claim) = "ready"
      BY <2>6 DEF Generate
    <3>2. drawing' = {Drawn(held)}
      BY <2>6 DEF Generate
    <3> QED  BY <2>3, <2>4, <3>1, <3>2
  <2>7. CASE EditDrawing
    <3>1. PICK d \in drawing : drawing' \in {{x} : x \in Edits(d, Elsewhere)}
      BY <2>7 DEF EditDrawing
    <3>2. PICK x \in Edits(d, Elsewhere) : drawing' = {x}
      BY <3>1
    <3>3. PICK n \in DOMAIN Contracts[family] :
            (\E claim \in Claims : Status(n, claim) = "ready") /\ Traced(d, Drawn(n))
      BY <2>2 DEF Stems
    <3>4. Traced(x, Drawn(n))
      BY <3>3, TracedEdit
    <3>5. Stems(x)
      BY <3>3, <3>4 DEF Stems
    <3> QED  BY <2>3, <3>2, <3>5
  <2>8. CASE RunFrameAssurance
    <3>1. PICK claim \in Claims : drawing' = CadAssurance(Contract(held), claim, Hash(held))
      BY <2>8 DEF RunFrameAssurance
    <3>2. Status(held, claim) = FrameStatus(Contract(held), claim, Hash(held))
          /\ Drawn(held) = DrawnFrame(Contract(held), Hash(held))
      <4>1. family = "frame"
        BY <2>8 DEF RunFrameAssurance
      <4> QED  BY <4>1 DEF Status, StatusOf, Drawn, DrawingOf, Normalized
    <3>3. \A d \in drawing' : d = Drawn(held) /\ Status(held, claim) = "ready"
      BY <3>1, <3>2 DEF CadAssurance
    <3> QED  BY <2>3, <2>4, <3>3
  <2>9. CASE RunPipingDesign
    <3>1. family = "piping"
      BY <2>9 DEF RunPipingDesign
    <3>2. PICK claim \in Claims :
            drawing' = {d \in {DrawnPiping(Normalized(held), Hash(held))} :
                          PipingStatus(Normalized(held), claim, Hash(held)) = "ready"}
      BY <2>9 DEF RunPipingDesign
    <3>3. Status(held, claim) = PipingStatus(Normalized(held), claim, Hash(held))
          /\ Drawn(held) = DrawnPiping(Normalized(held), Hash(held))
      BY <3>1 DEF Status, StatusOf, Drawn, DrawingOf
    <3>4. \A d \in drawing' : d = Drawn(held) /\ Status(held, claim) = "ready"
      BY <3>2, <3>3
    <3> QED  BY <2>3, <2>4, <3>4
  <2>10. UNCHANGED drawing \/ Generate \/ EditDrawing \/ RunFrameAssurance \/ RunPipingDesign
    BY DEF ServicesNext, Repairs, Exchanging, Asking, serviceVars, exchangeVars,
           ExchangeNext, Revise, Verify, RunRoundTrip, Traceable
  <2> QED  BY <2>5, <2>6, <2>7, <2>8, <2>9, <2>10
<1> QED  BY <1>1, <1>2, ExchangeInvariant, PTL DEF ServicesSpec

\* A frame drawing that passed says nothing but its contract, however it was edited.
THEOREM PassedFrameDrawingConformsHolds == ServicesSpec => []PassedFrameDrawingConforms
<1>1. ExchangeInv /\ DrawnInv => PassedFrameDrawingConforms
  <2> SUFFICES ASSUME ExchangeInv, DrawnInv, family = "frame", Passed, NEW d \in drawing
               PROVE  FrameConforms(Contract(held), Hash(held), d)
    BY DEF PassedFrameDrawingConforms
  <2> DEFINE c == Contract(held)
             hash == Hash(held)
  <2>1. service = "exchange" /\ family \in DOMAIN Contracts /\ held \in DOMAIN Contracts[family]
    BY DEF ExchangeInv
  <2>2. \A n \in DOMAIN Contracts[family] : n \in Nat \ {0} /\ FrameContract(Contract(n))
    BY <2>1, ExchangeAssumption DEF WellFormed, Contract
  <2>3. VerifyFrame(c, d, hash).status = "passed"
    <3>1. Verified(held, d) = VerifyFrame(c, d, hash)
      BY DEF Verified, VerdictOf, Normalized
    <3>2. Verified(held, d).status = "passed"
      BY DEF ExchangeInv
    <3> QED  BY <3>1, <3>2
  <2>4. PICK n \in DOMAIN Contracts[family] : Traced(d, DrawnFrame(Contract(n), Hash(n)))
    BY <2>1 DEF DrawnInv, Traceable, Drawn, DrawingOf, Normalized
  <2> HIDE DEF c, hash
\* The drawing has an entity, and it carries the hash of what it was drawn from.
  <2>5. PICK S : d.entities \in Seq(S) /\ \A e \in S : TracedEntity(e, DrawnFrame(Contract(n), Hash(n)))
    BY <2>4 DEF Traced
  <2>6. \E i \in DOMAIN d.entities : TRUE
    <3>1. Relevant(d) = DOMAIN d.entities /\ AbsenceFaults(c, d) = {}
      BY <2>3, FrameFaultless
    <3>2. Cardinality(Relevant(d)) =
            Cardinality(DOMAIN c.members) + Cardinality(DOMAIN c.supports) + Cardinality(DOMAIN c.loads) + 1
      BY <3>1 DEF AbsenceFaults
    <3>3. /\ Cardinality(DOMAIN c.members) \in Nat /\ Cardinality(DOMAIN c.supports) \in Nat
          /\ Cardinality(DOMAIN c.loads) \in Nat
      BY <2>1, <2>2, FS_CardinalityType DEF FrameContract, c
    <3>4. Cardinality({}) = 0
      BY FS_EmptySet
    <3>5. Cardinality(Relevant(d)) # 0
      BY <3>2, <3>3
    <3>6. Relevant(d) # {}
      BY <3>4, <3>5
    <3> QED  BY <3>1, <3>6
  <2>7. PICK i \in DOMAIN d.entities : TRUE
    BY <2>6
  <2>8. TracedEntity(d.entities[i], DrawnFrame(Contract(n), Hash(n)))
    BY <2>5, <2>7, LenProperties, ElementOfSeq
  <2>9. d.entities[i].hash = Hash(n)
    <3> DEFINE d0 == DrawnFrame(Contract(n), Hash(n))
    <3>1. PICK j \in DOMAIN d0.entities : d.entities[i].hash = d0.entities[j].hash
      BY <2>8 DEF TracedEntity
    <3>2. d0.entities \in Seq({FrameEntity(Contract(n), Hash(n), item[1], item[2]) : item \in FrameItems(Contract(n))})
      BY <2>2, FrameEntities
    <3> HIDE DEF d0
    <3>3. \E item : d0.entities[j] = FrameEntity(Contract(n), Hash(n), item[1], item[2])
      BY <3>2, LenProperties, ElementOfSeq
    <3> QED  BY <3>1, <3>3 DEF FrameEntity
  <2>10. d.entities[i].hash = hash
    <3>1. MetadataFaults(c, hash, d.entities[i]) = {}
      BY <2>3, <2>7, FrameFaultless
    <3> QED  BY <3>1 DEF MetadataFaults
  <2>11. Normalized(n) = Normalized(held)
    <3>1. Hash(n) = Hash(held)
      BY <2>9, <2>10 DEF hash
    <3>2. n \in Nat \ {0} /\ held \in Nat \ {0}
      BY <2>1, <2>2
    <3>3. PICK m \in Nat \ {0} : m = held
      BY <3>2
    <3>4. Hash(m) = Hash(held)
      BY <3>3
    <3>5. Normalized(n) = Normalized(m)
      BY <3>1, <3>2, <3>4, HashTellsApart
    <3> QED  BY <3>3, <3>5
  <2>12. Contract(n) = c /\ Hash(n) = hash
    BY <2>9, <2>10, <2>11 DEF Normalized, c
  <2>13. FrameContract(c)
    BY <2>1, <2>2 DEF c
  <2> QED  BY <2>3, <2>4, <2>12, <2>13, PassedFrameConforms DEF c, hash
<1> QED  BY <1>1, ExchangeInvariant, DrawnInvariant, PTL

\* A plate that passed was drawn from a contract that is the same once in millimetres,
\* and every shape of the file is as that contract wants it.
THEOREM PassedPlateConformsHolds == ServicesSpec => []PassedPlateConforms
<1>1. ExchangeInv /\ DrawnInv => PassedPlateConforms
  <2> SUFFICES ASSUME ExchangeInv, DrawnInv, family = "plate", Passed, NEW d \in drawing
               PROVE  PlateConforms(Normalized(held), Hash(held), d)
    BY DEF PassedPlateConforms
  <2> DEFINE c == Normalized(held)
             hash == Hash(held)
  <2>1. service = "exchange" /\ family \in DOMAIN Contracts /\ held \in DOMAIN Contracts[family]
    BY DEF ExchangeInv
  <2>2. \A n \in DOMAIN Contracts[family] : n \in Nat \ {0} /\ PlateContract(Normalized(n))
    <3> SUFFICES ASSUME NEW n \in DOMAIN Contracts[family]
                 PROVE  n \in Nat \ {0} /\ PlateContract(Normalized(n))
      OBVIOUS
    <3>1. n \in Nat \ {0} /\ PlateContract(Contract(n)) /\ Inch \in Nat
      BY <2>1, ExchangeAssumption DEF WellFormed, Contract
    <3>2. Normalized(n) = NormalizedPlate(Contract(n), Inch)
      BY DEF Normalized
    <3> QED  BY <3>1, <3>2, NormalizedPlateIsContract
  <2>3. VerifyPlate(c, d, hash).status = "passed"
    <3>1. Verified(held, d) = VerifyPlate(c, d, hash)
      BY DEF Verified, VerdictOf
    <3>2. Verified(held, d).status = "passed"
      BY DEF ExchangeInv
    <3> QED  BY <3>1, <3>2
  <2>4. PICK n \in DOMAIN Contracts[family], claim \in Claims :
          PlateStatus(Normalized(n), claim, Hash(n)) = "ready" /\ Traced(d, DrawnPlate(Normalized(n), Hash(n)))
    BY <2>1 DEF DrawnInv, Traceable, Drawn, DrawingOf, Status, StatusOf
  <2>5. PlateContract(Normalized(n)) /\ Expandable(Normalized(n)) /\ PlateContract(c)
    BY <2>1, <2>2, <2>4 DEF PlateStatus
  <2> HIDE DEF c, hash
\* It has an outline, and the outline carries the hash of what it was drawn from.
  <2>6. ReadingViolations(d, hash) = {} /\ c.outlineId \in DOMAIN ReadBack(d)
    BY Zenon, <2>3, <2>5, PlateFaultless DEF MeasuredViolations
  <2>7. \E i \in CutEntities(d) : d.entities[i].hash = hash /\ d.entities[i].hash = Hash(n)
    <3>1. /\ \A i \in CutEntities(d) :
               LET e == d.entities[i]
               IN /\ e.labelled /\ e.hash = hash /\ e.hash = Hash(n) /\ e.form \in {"circle", "closed"}
                  /\ e.points \in Seq(Int \X Int) /\ e.points # <<>> /\ Len(e.points) = 2 /\ DOMAIN e.points = 1..2
                  /\ e.id \in DOMAIN ReadBack(d) /\ ReadBack(d)[e.id] = e.points
          /\ \A id \in DOMAIN ReadBack(d) : \E i \in CutEntities(d) : d.entities[i].id = id
      BY <2>4, <2>5, <2>6, PlateRead
    <3> QED  BY <2>6, <3>1
  <2>8. Normalized(n) = c /\ Hash(n) = hash
    <3>1. Hash(n) = Hash(held)
      BY <2>7 DEF hash
    <3>2. n \in Nat \ {0} /\ held \in Nat \ {0}
      BY <2>1, <2>2
    <3>3. PICK m \in Nat \ {0} : m = held
      BY <3>2
    <3>4. Normalized(n) = Normalized(m)
      BY <3>1, <3>2, <3>3, HashTellsApart
    <3> QED  BY <3>1, <3>3, <3>4 DEF c, hash
  <2> QED  BY <2>3, <2>4, <2>5, <2>8, PassedPlateConforms1 DEF c, hash
<1> QED  BY <1>1, ExchangeInvariant, DrawnInvariant, PTL

\* A route that passed was drawn from a contract that was ready and is the same once in
\* millimetres, and the file is as that contract wants it.
THEOREM PassedPipingConformsHolds == ServicesSpec => []PassedPipingConforms
<1>1. ExchangeInv /\ DrawnInv => PassedPipingConforms
  <2> SUFFICES ASSUME ExchangeInv, DrawnInv, family = "piping", MetadataApart(Normalized(held)), Passed,
                      NEW d \in drawing
               PROVE  PipingConforms(Normalized(held), Hash(held), d)
    BY DEF PassedPipingConforms
  <2> DEFINE c == Normalized(held)
             hash == Hash(held)
  <2>1. service = "exchange" /\ family \in DOMAIN Contracts /\ held \in DOMAIN Contracts[family]
    BY DEF ExchangeInv
  <2>2. \A n \in DOMAIN Contracts[family] : n \in Nat \ {0} /\ PipingContract(Normalized(n))
    <3> SUFFICES ASSUME NEW n \in DOMAIN Contracts[family]
                 PROVE  n \in Nat \ {0} /\ PipingContract(Normalized(n))
      OBVIOUS
    <3>1. n \in Nat \ {0} /\ PipingContract(Contract(n)) /\ Inch \in Nat \ {0}
      BY <2>1, ExchangeAssumption DEF WellFormed, Contract
    <3>2. Normalized(n) = NormalizedPiping(Contract(n), Inch)
      BY DEF Normalized
    <3> QED  BY <3>1, <3>2, NormalizedPipingIsContract
  <2>3. VerifyPiping(c, d, hash).status = "passed"
    <3>1. Verified(held, d) = VerifyPiping(c, d, hash)
      BY DEF Verified, VerdictOf
    <3>2. Verified(held, d).status = "passed"
      BY DEF ExchangeInv
    <3> QED  BY <3>1, <3>2
  <2>4. PICK n \in DOMAIN Contracts[family], claim \in Claims :
          PipingStatus(Normalized(n), claim, Hash(n)) = "ready" /\ Traced(d, DrawnPiping(Normalized(n), Hash(n)))
    BY <2>1 DEF DrawnInv, Traceable, Drawn, DrawingOf, Status, StatusOf
  <2>5. PipingContract(Normalized(n)) /\ PipingContract(c) /\ MetadataApart(c)
    BY <2>1, <2>2
  <2> HIDE DEF c, hash
\* Its metadata carry the hash of what it was drawn from.
  <2>6. PipingReadingFaults(c, d, hash) = {}
    BY <2>3, PipingFaultless
  <2>7. "piping-metadata" \in DOMAIN ExpectedPiping(c)
    BY <2>5, PipingExpected
  <2>8. PICK i \in DOMAIN d.entities :
          d.entities[i].hash = hash /\ TracedEntity(d.entities[i], DrawnPiping(Normalized(n), Hash(n)))
    BY <2>4, <2>6, <2>7, PipingRead
  <2>9. hash = Hash(n)
    BY <2>5, <2>8, PipingEntities DEF TracedEntity
  <2>10. Normalized(n) = c
    <3>1. n \in Nat \ {0} /\ held \in Nat \ {0}
      BY <2>1, <2>2
    <3>2. PICK m \in Nat \ {0} : m = held
      BY <3>1
    <3>3. Normalized(n) = Normalized(m)
      BY <2>9, <3>1, <3>2, HashTellsApart DEF hash
    <3> QED  BY <3>2, <3>3 DEF c
  <2>11. PipingStatus(c, claim, Hash(n)) = "ready"
    BY <2>4, <2>10
  <2>12. PipingConforms(c, hash, d)
    BY <2>3, <2>4, <2>5, <2>11, PassedPiping
  <2> QED  BY <2>12 DEF c, hash
<1> QED  BY <1>1, ExchangeInvariant, DrawnInvariant, PTL

\* A plan that passed was drawn from some contract, and the file is as the contract wants it
\* that it was checked against: every feature in every representation once, centrelines in
\* their walls, openings within them and apart, columns clear of openings.
THEOREM PassedPlanConformsHolds == ServicesSpec => []PassedPlanConforms
<1>1. ExchangeInv /\ DrawnInv => PassedPlanConforms
  <2> SUFFICES ASSUME ExchangeInv, DrawnInv, family = "plan", Passed, NEW d \in drawing
               PROVE  PlanConforms(Normalized(held), Hash(held), d)
    BY DEF PassedPlanConforms
  <2>1. service = "exchange" /\ family \in DOMAIN Contracts /\ held \in DOMAIN Contracts[family]
    BY DEF ExchangeInv
  <2>2. ASSUME NEW n \in DOMAIN Contracts[family] PROVE PlanContract(Normalized(n))
    <3>1. PlanContract(Contract(n)) /\ Inch \in Nat \ {0}
      BY <2>1, ExchangeAssumption DEF WellFormed, Contract
    <3>2. Normalized(n) = NormalizedPlan(Contract(n), Inch)
      BY DEF Normalized
    <3> QED  BY <3>1, <3>2, NormalizedPlanIsContract
  <2>3. VerifyPlan(Normalized(held), d, Hash(held)).status = "passed"
    <3>1. Verified(held, d) = VerifyPlan(Normalized(held), d, Hash(held))
      BY DEF Verified, VerdictOf
    <3>2. Verified(held, d).status = "passed"
      BY DEF ExchangeInv
    <3> QED  BY <3>1, <3>2
  <2>4. PICK n \in DOMAIN Contracts[family] : Traced(d, DrawnPlan(Normalized(n), Hash(n)))
    BY <2>1 DEF DrawnInv, Traceable, Drawn, DrawingOf
  <2>5. Cornered(DrawnPlan(Normalized(n), Hash(n)))
    BY <2>2, PlanEntities DEF Cornered
  <2>6. PlanContract(Normalized(held))
    BY <2>1, <2>2
  <2> QED  BY <2>3, <2>4, <2>5, <2>6, PassedPlan
<1> QED  BY <1>1, ExchangeInvariant, DrawnInvariant, PTL

\* The drawing of a contract that is ready can be read by the verifier of its family, no
\* entity of it unknown, missing, repeated or without its hash, whatever else is wrong,
\* exactly if the ids the writer makes up are not among those declared.
THEOREM OwnDrawingIsReadableHolds == ServicesSpec => []OwnDrawingIsReadable
<1>1. ExchangeInv => OwnDrawingIsReadable
  <2> SUFFICES ASSUME ExchangeInv, drawing # {}, family # "rhino", Status(held, {}) = "ready"
               PROVE  Readable(Verified(held, Drawn(held))) <=> DrawnApart(Normalized(held))
    BY DEF OwnDrawingIsReadable
  <2>1. family \in DOMAIN Contracts /\ held \in DOMAIN Contracts[family]
    BY DEF ExchangeInv
  <2>2. family \in {"plate", "piping", "plan", "frame"} /\ WellFormed(family, Contract(held)) /\ Inch \in Nat \ {0}
    BY <2>1, ExchangeAssumption DEF Contract
  <2> DEFINE c == Normalized(held)
             hash == Hash(held)
  <2>3. CASE family = "plate"
    <3>1. PlateContract(c)
      <4>1. PlateContract(Contract(held)) /\ c = NormalizedPlate(Contract(held), Inch)
        BY <2>2, <2>3 DEF WellFormed, Normalized
      <4> QED  BY <2>2, <4>1, NormalizedPlateIsContract
    <3>2. PlateStatus(c, {}, hash) = "ready" /\ Verified(held, Drawn(held)) = VerifyPlate(c, DrawnPlate(c, hash), hash)
      BY <2>3 DEF Status, StatusOf, Verified, VerdictOf, Drawn, DrawingOf
    <3>3. DrawnApart(c) <=> CopiesApart(c)
      BY <2>3 DEF DrawnApart
    <3> HIDE DEF c, hash
    <3> QED  BY <3>1, <3>2, <3>3, OwnPlateIsReadable DEF c
  <2>4. CASE family = "piping"
    <3>1. PipingContract(c)
      <4>1. PipingContract(Contract(held)) /\ c = NormalizedPiping(Contract(held), Inch)
        BY <2>2, <2>4 DEF WellFormed, Normalized
      <4> QED  BY <2>2, <2>4, <4>1, NormalizedPipingIsContract
    <3>2. PipingStatus(c, {}, hash) = "ready" /\ Verified(held, Drawn(held)) = VerifyPiping(c, DrawnPiping(c, hash), hash)
      BY <2>4 DEF Status, StatusOf, Verified, VerdictOf, Drawn, DrawingOf
    <3>3. DrawnApart(c) <=> MetadataApart(c)
      BY <2>4 DEF DrawnApart
    <3> HIDE DEF c, hash
    <3> QED  BY <3>1, <3>2, <3>3, OwnPipingIsReadable, RepeatedPipingIsRejected DEF c
  <2>5. CASE family = "plan"
    <3>1. PlanContract(c)
      <4>1. PlanContract(Contract(held)) /\ c = NormalizedPlan(Contract(held), Inch)
        BY <2>2, <2>5 DEF WellFormed, Normalized
      <4> QED  BY <2>2, <4>1, NormalizedPlanIsContract
    <3>2. Verified(held, Drawn(held)) = VerifyPlan(c, DrawnPlan(c, hash), hash)
      BY <2>5 DEF Verified, VerdictOf, Drawn, DrawingOf
    <3>3. DrawnApart(c)
      BY <2>5 DEF DrawnApart
    <3> HIDE DEF c, hash
    <3> QED  BY <3>1, <3>2, <3>3, OwnPlanIsReadable DEF c
  <2>6. CASE family = "frame"
    <3>1. FrameContract(c)
      <4>1. FrameContract(Contract(held)) /\ c = Contract(held)
        BY <2>2, <2>6 DEF WellFormed, Normalized
      <4> QED  BY <4>1
    <3>2. FrameStatus(c, {}, hash) = "ready" /\ Verified(held, Drawn(held)) = VerifyFrame(c, DrawnFrame(c, hash), hash)
      BY <2>6 DEF Status, StatusOf, Verified, VerdictOf, Drawn, DrawingOf
    <3>3. DrawnApart(c)
      BY <2>6 DEF DrawnApart
    <3> HIDE DEF c, hash
    <3> QED  BY <3>1, <3>2, <3>3, OwnFrameIsReadable DEF c
  <2> QED  BY <2>2, <2>3, <2>4, <2>5, <2>6
<1> QED  BY <1>1, ExchangeInvariant, PTL
=============================================================================

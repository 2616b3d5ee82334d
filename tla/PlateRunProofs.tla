--------------------------- MODULE PlateRunProofs ---------------------------
(***************************************************************************)
(* Proofs about PlateRun.  The invariant says, for every stage of the      *)
(* loop, of which contract the last verification is: of the contract as it *)
(* stands at a repair and at the verdict.  Between a repair and the next   *)
(* drawing the loop counts a repair more than it has judged.               *)
(***************************************************************************)
EXTENDS PlateRun, OrderLemmas, TLAPS

\* Which contract the last verification is of, and what it said.
Verification ==
    /\ stage \in {"validate", "generate"} => verified = {}
    /\ stage = "repair" => verified = {current} /\ verdict \in Verdicts \ {"passed"}
    /\ stage = "judge" => verified = {current} /\ verdict \in Verdicts

\* The loop variable counts the repairs, and the bound of the loop bounds them.
Counts ==
    /\ stage \in {"validate", "generate"} => repairs = 0 /\ iteration = 1
    /\ stage = "repair" => iteration = repairs + 1 /\ repairs < MaxIterations
    /\ stage = "regenerate" => iteration = repairs
    /\ stage = "judge" => iteration = repairs + 1

\* The verdict is given once, at the end, and nothing is bundled before it.
VerdictLast ==
    /\ stage # "done" <=> status = "running"
    /\ stage # "done" => bundle = {}

IInv ==
    /\ TypeOK /\ Verification /\ Counts /\ VerdictLast
    /\ BundleIsVerified /\ LockedValuesKept /\ RepairsStayInRange
-----------------------------------------------------------------------------
(* What a repair does to a contract *)

LEMMA PolicyFacts ==
    ASSUME NEW p \in ContractPolicies
    PROVE  DOMAIN p.free \subseteq Paths /\ p.locked \subseteq Paths
  BY DEF ContractPolicies, Policies

\* A component of a unit vector is on the grid, up to the length of one.
LEMMA ComponentIs ==
    ASSUME NEW a \in Int, NEW b \in Int
    PROVE  Component(a, b) \in 0..Unit
<1> DEFINE S == {n \in 1..Unit : (2 * n - 1) * (2 * n - 1) * (a * a + b * b) <= 4 * Unit * Unit * a * a}
           T == {0} \cup S
<1>1. Unit \in Nat
  BY PlateAssumption, DirectionAssumption
<1>2. T \in SUBSET (0..Unit) /\ T # {}
  BY <1>1
<1>3. Component(a, b) = Max(T)
  BY Zenon DEF Component
<1> HIDE DEF T
<1>4. PICK m \in T : \A n \in T : n <= m
  BY <1>1, <1>2, LargestExists
<1>5. Max(T) \in T
  <2>1. \A n \in T : m >= n
    BY <1>1, <1>2, <1>4
  <2> QED  BY <1>4, <2>1 DEF Max
<1> QED  BY <1>2, <1>3, <1>5

\* What validation makes of values are values; of a contract without a direction of length
\* zero it makes one that is left as it is by another validation.
LEMMA ValidatedIs ==
    ASSUME NEW design \in [Fields -> Values]
    PROVE  /\ Validated(design) \in [Fields -> Values]
           /\ Valid(design) => Validated(design) \in Designs
<1> DEFINE e == Validated(design)
<1>1. \A f \in DOMAIN Partner : /\ f \in Fields /\ Partner[f] \in DOMAIN Partner /\ Partner[f] \in Fields
                                /\ Partner[Partner[f]] = f
  BY DirectionAssumption
<1>2. Unit \in 1..MaxValue /\ MaxValue \in Nat /\ 0..Unit \subseteq Values /\ Values \subseteq Int
  BY PlateAssumption, DirectionAssumption DEF Values
<1>3. \A f \in DOMAIN Partner : e[f] = Component(design[f], design[Partner[f]])
  BY <1>1 DEF Validated
<1>4. \A f \in Fields \ DOMAIN Partner : e[f] = design[f]
  BY DEF Validated
<1>5. \A f \in DOMAIN Partner : e[f] \in Values
  <2>1. \A f \in DOMAIN Partner : design[f] \in Int /\ design[Partner[f]] \in Int
    BY <1>1, <1>2
  <2> QED  BY <1>2, <1>3, <2>1, ComponentIs
<1>6. e \in [Fields -> Values]
  <2>1. \A f \in Fields : e[f] \in Values
    BY <1>4, <1>5
  <2> QED  BY <2>1 DEF Validated
<1>7. ASSUME Valid(design) PROVE e \in Designs
  <2>1. ASSUME NEW f \in DOMAIN Partner
        PROVE  (e[f] # 0 \/ e[Partner[f]] # 0) /\ Component(e[f], e[Partner[f]]) = e[f]
    <3> DEFINE x == design[f]
               y == design[Partner[f]]
    <3>1. x \in Values /\ y \in Values /\ (x # 0 \/ y # 0)
      BY <1>1, <1>7 DEF Valid
    <3>2. e[f] = Component(x, y) /\ e[Partner[f]] = Component(y, x)
      BY <1>1, <1>3
    <3> HIDE DEF x, y, e
    <3>3. /\ Component(x, y) # 0 \/ Component(y, x) # 0
          /\ Component(Component(x, y), Component(y, x)) = Component(x, y)
      BY <3>1, DirectionAssumption
    <3> QED  BY <3>2, <3>3
  <2>2. Valid(e)
    BY <2>1 DEF Valid
  <2>3. Validated(e) = e
    <3>1. Validated(e) \in [Fields -> Values] \/ DOMAIN Validated(e) = Fields
      BY DEF Validated
    <3>2. \A f \in Fields : Validated(e)[f] = e[f]
      <4> HIDE DEF e
      <4> QED  BY <2>1 DEF Validated
    <3>3. Validated(e) = [f \in Fields |-> Validated(e)[f]] /\ e = [f \in Fields |-> e[f]]
      BY <1>6 DEF Validated
    <3> HIDE DEF e
    <3> QED  BY <3>2, <3>3
  <2> QED  BY <1>6, <2>2, <2>3 DEF Designs
<1> QED  BY <1>6, <1>7

\* The contract after every number of changes: values, each written into the one before.
LEMMA AfterIs ==
    ASSUME NEW design \in [Fields -> Values], NEW s, NEW m \in Nat, Len(s) = m,
           \A i \in 1..m : s[i].path \in Paths /\ s[i].after \in Values
    PROVE  LET after == After(design, s)
           IN /\ after[0] = design
              /\ \A n \in 0..m : after[n] \in [Fields -> Values]
              /\ \A n \in 1..m : after[n] = Validated(Written(after[n - 1], s[n].path, s[n].after))
<1> DEFINE D == [Fields -> Values]
           New(d, n) == Validated(Written(d, s[n].path, s[n].after))
           step == [x \in D \X (1..m) |-> New(x[1], x[2])]
           is(f) == f = [n \in 0..Len(s) |->
                           IF n = 0 THEN design ELSE Validated(Written(f[n - 1], s[n].path, s[n].after))]
           first == CHOOSE f : is(f)
<1>1. \A d \in D, n \in 1..m : New(d, n) \in D /\ step[<<d, n>>] = New(d, n)
  <2>1. \A d \in D, n \in 1..m : Written(d, s[n].path, s[n].after) \in D
    BY PlateAssumption DEF Written
  <2> QED  BY <2>1, ValidatedIs
<1> HIDE DEF step
<1>2. \E f : is(f)
  <2>1. PICK f : Iterates(f, design, step, m)
    BY IteratedExists
  <2>2. f = [n \in 0..m |-> IF n = 0 THEN design ELSE step[<<f[n - 1], n>>]]
    BY <2>1 DEF Iterates
  <2> DEFINE S == {n \in 0..m : f[n] \in D}
  <2>3. 0 \in S
    BY <2>2
  <2>4. ASSUME NEW n \in 1..m, n - 1 \in S PROVE n \in S
    <3>1. n \in 0..m /\ n # 0 /\ f[n - 1] \in D
      BY <2>4
    <3>2. f[n] = step[<<f[n - 1], n>>]
      <4> HIDE DEF D, S
      <4> QED  BY <2>2, <3>1
    <3> QED  BY <1>1, <3>1, <3>2
  <2>5. \A n \in 0..m : n \in S
    <3> HIDE DEF S
    <3> QED  BY <2>3, <2>4, CountingUp
  <2>6. \A n \in 0..m : n # 0 => n \in 1..m /\ n - 1 \in 0..m
    OBVIOUS
  <2>7. \A n \in 0..m : n # 0 => step[<<f[n - 1], n>>] = New(f[n - 1], n)
    BY <1>1, <2>5, <2>6
  <2>8. f = [n \in 0..m |-> IF n = 0 THEN design ELSE New(f[n - 1], n)]
    <3> HIDE DEF New, S
    <3> QED  BY <2>2, <2>7
  <2>9. is(f)
    BY <2>8
  <2> HIDE DEF is
  <2> QED  BY <2>9
<1>3. is(first)
  <2> HIDE DEF is
  <2> QED  BY <1>2, Zenon
<1>4. After(design, s) = first
  BY Zenon DEF After
<1> HIDE DEF first
<1>5. \A n \in 0..m : first[n] = IF n = 0 THEN design ELSE New(first[n - 1], n)
  BY <1>3
<1> HIDE DEF New, is
<1> DEFINE S == {n \in 0..m : first[n] \in D}
<1>6. 0 \in S
  BY <1>5
<1>7. ASSUME NEW n \in 1..m, n - 1 \in S PROVE n \in S
  <2>1. first[n] = New(first[n - 1], n) /\ n \in 0..m /\ first[n - 1] \in D
    BY <1>5, <1>7
  <2> QED  BY <1>1, <2>1
<1>8. \A n \in 0..m : n \in S
  <2> HIDE DEF S
  <2> QED  BY <1>6, <1>7, CountingUp
<1>9. \A n \in 1..m : first[n] = New(first[n - 1], n)
  BY <1>5
<1> QED  BY <1>4, <1>5, <1>8, <1>9 DEF New

\* A field that is no component of a direction is as the last change that names it wrote it.
LEMMA WrittenValue ==
    ASSUME NEW design \in [Fields -> Values], NEW s, NEW m \in Nat, Len(s) = m,
           \A i \in 1..m : s[i].path \in Paths /\ s[i].after \in Values,
           NEW f \in Fields \ DOMAIN Partner
    PROVE  \A n \in 0..m :
              \/ /\ \A i \in 1..n : FieldOf[s[i].path] # f
                 /\ After(design, s)[n][f] = design[f]
              \/ \E i \in 1..n : FieldOf[s[i].path] = f /\ After(design, s)[n][f] = s[i].after
<1> DEFINE after == After(design, s)
           Unnamed(n) == (\A i \in 1..n : FieldOf[s[i].path] # f) /\ after[n][f] = design[f]
           Stands(n) == \E i \in 1..n : FieldOf[s[i].path] = f /\ after[n][f] = s[i].after
           S == {n \in 0..m : Unnamed(n) \/ Stands(n)}
<1>1. /\ after[0] = design
      /\ \A n \in 0..m : after[n] \in [Fields -> Values]
      /\ \A n \in 1..m : after[n] = Validated(Written(after[n - 1], s[n].path, s[n].after))
  BY AfterIs
<1> HIDE DEF after
<1>2. 0 \in S
  BY <1>1
<1>3. ASSUME NEW n \in 1..m, n - 1 \in S PROVE n \in S
  <2>1. n \in 0..m /\ n - 1 \in 0..m /\ n \in 1..n
    OBVIOUS
  <2>2. after[n][f] = IF FieldOf[s[n].path] = f THEN s[n].after ELSE after[n - 1][f]
    <3>1. after[n - 1] \in [Fields -> Values]
      BY <1>1, <2>1
    <3> DEFINE w == Written(after[n - 1], s[n].path, s[n].after)
    <3>2. w[f] = IF FieldOf[s[n].path] = f THEN s[n].after ELSE after[n - 1][f]
      BY <3>1 DEF Written
    <3>3. after[n] = Validated(w)
      BY <1>1
    <3> HIDE DEF w
    <3>4. Validated(w)[f] = w[f]
      BY DEF Validated
    <3> QED  BY <3>2, <3>3, <3>4
  <2>3. CASE FieldOf[s[n].path] = f
    BY <2>1, <2>2, <2>3
  <2>4. CASE FieldOf[s[n].path] # f /\ Unnamed(n - 1)
    <3>1. \A i \in 1..n : i = n \/ i \in 1..(n - 1)
      OBVIOUS
    <3> QED  BY <2>1, <2>2, <2>4, <3>1
  <2>5. CASE FieldOf[s[n].path] # f /\ Stands(n - 1)
    <3>1. \A i \in 1..(n - 1) : i \in 1..n
      OBVIOUS
    <3>2. Stands(n)
      BY <2>2, <2>5, <3>1
    <3> QED  BY <2>1, <3>2
  <2> QED  BY <1>3, <2>3, <2>4, <2>5
<1>4. \A n \in 0..m : n \in S
  <2> HIDE DEF S
  <2> QED  BY <1>2, <1>3, CountingUp
<1> QED  BY <1>4 DEF after

\* A field keeps its value as long as no change names it or the other component of its
\* direction.
LEMMA UntouchedValue ==
    ASSUME NEW design \in Designs, NEW s, NEW m \in Nat, Len(s) = m,
           \A i \in 1..m : s[i].path \in Paths /\ s[i].after \in Values,
           NEW f \in Fields, NEW k \in 0..m,
           \A i \in 1..k : /\ FieldOf[s[i].path] # f
                           /\ f \in DOMAIN Partner => FieldOf[s[i].path] # Partner[f]
    PROVE  After(design, s)[k][f] = design[f]
<1>1. design \in [Fields -> Values] /\ Validated(design) = design
  BY DEF Designs
<1> DEFINE after == After(design, s)
           Alike(n, g) == after[n][g] = design[g]
           S == {n \in 0..k : Alike(n, f) /\ (f \in DOMAIN Partner => Alike(n, Partner[f]))}
<1>2. /\ after[0] = design
      /\ \A n \in 0..m : after[n] \in [Fields -> Values]
      /\ \A n \in 1..m : after[n] = Validated(Written(after[n - 1], s[n].path, s[n].after))
  BY <1>1, AfterIs
<1> HIDE DEF after
<1>3. 0 \in S
  BY <1>2
<1>4. ASSUME NEW n \in 1..k, n - 1 \in S PROVE n \in S
  <2> DEFINE w == Written(after[n - 1], s[n].path, s[n].after)
  <2>1. /\ n \in 0..k /\ after[n] = Validated(w)
        /\ n - 1 \in 0..k /\ after[n - 1] \in [Fields -> Values]
    <3>1. n \in 1..m /\ n - 1 \in 0..m /\ n \in 0..k /\ n - 1 \in 0..k
      OBVIOUS
    <3> QED  BY <1>2, <3>1
  <2>2. w[f] = design[f] /\ (f \in DOMAIN Partner => w[Partner[f]] = design[Partner[f]])
    <3> DEFINE before == after[n - 1]
    <3>1. \A g \in Fields : FieldOf[s[n].path] # g => w[g] = before[g]
      BY <2>1 DEF Written
    <3>2. /\ FieldOf[s[n].path] # f
          /\ f \in DOMAIN Partner => FieldOf[s[n].path] # Partner[f] /\ Partner[f] \in Fields
      BY DirectionAssumption
    <3>3. before[f] = design[f] /\ (f \in DOMAIN Partner => before[Partner[f]] = design[Partner[f]])
      BY <1>4
    <3> HIDE DEF w, before
    <3> QED  BY <3>1, <3>2, <3>3
  <2> HIDE DEF w
  <2>3. CASE f \notin DOMAIN Partner
    <3>1. Validated(w)[f] = w[f]
      BY <2>3 DEF Validated
    <3> QED  BY <2>1, <2>2, <2>3, <3>1
  <2>4. CASE f \in DOMAIN Partner
    <3> DEFINE g == Partner[f]
    <3>1. g \in DOMAIN Partner /\ g \in Fields /\ Partner[g] = f /\ w[g] = design[g]
      BY <2>2, <2>4, DirectionAssumption
    <3>2. \A d : /\ Validated(d)[f] = Component(d[f], d[g])
                 /\ Validated(d)[g] = Component(d[g], d[f])
      BY <2>4, <3>1 DEF Validated
    <3>3. Validated(w)[f] = Validated(design)[f] /\ Validated(w)[g] = Validated(design)[g]
      <4> HIDE DEF g
      <4> QED  BY <2>2, <3>1, <3>2
    <3> QED  BY <1>1, <2>1, <3>3
  <2> QED  BY <2>3, <2>4
<1>5. \A n \in 0..k : n \in S
  <2>1. k \in Nat
    OBVIOUS
  <2> HIDE DEF S
  <2> QED  BY <1>3, <1>4, <2>1, CountingUp
<1> QED  BY <1>5 DEF after

\* The changes of a proposal are of paths that are declared free and not locked, to values
\* other than those of the contract they were computed from.
LEMMA ChangeFacts ==
    ASSUME NEW design, NEW p, NEW s \in Proposals(design, p)
    PROVE  /\ Len(s) \in Nat /\ DOMAIN s = 1..Len(s)
           /\ s # <<>> => 1 \in DOMAIN s
           /\ \A i \in DOMAIN s :
                /\ s[i].path \in DOMAIN p.free /\ s[i].after \in Values
                /\ s[i].before = design[FieldOf[s[i].path]] /\ s[i].after # s[i].before
<1>1. PICK n \in 0..MaxChanges : s \in [1..n -> Changes(design, p)]
  BY DEF Proposals
<1>2. DOMAIN s = 1..n /\ n \in Nat /\ Len(s) = n /\ (n = 0 => s = <<>>)
  BY <1>1, PlateAssumption
<1>3. \A i \in 1..n : s[i] \in Changes(design, p)
  BY <1>1
<1> QED  BY <1>2, <1>3 DEF Changes

\* The fields that a change of a path may change.
Reaches(path, f) ==
    \/ FieldOf[path] = f
    \/ FieldOf[path] \in DOMAIN Partner /\ f = Partner[FieldOf[path]]

\* An accepted proposal yields a contract; it changes fields that a free parameter names,
\* or the other component of one, and no locked dimension does, and those that are no
\* component of a direction to values in a declared range.
LEMMA RepairEffect ==
    ASSUME NEW design \in Designs, NEW p \in ContractPolicies,
           NEW s \in Proposals(design, p), Accepts(design, design, p, s)
    PROVE  /\ Applied(design, s) \in Designs
           /\ \A f \in LockedFields(p) : Applied(design, s)[f] = design[f]
           /\ \A f \in Fields :
                \/ Applied(design, s)[f] = design[f]
                \/ \E path \in DOMAIN p.free : Reaches(path, f)
           /\ \A f \in Fields \ DOMAIN Partner :
                \/ Applied(design, s)[f] = design[f]
                \/ \E path \in DOMAIN p.free :
                     /\ FieldOf[path] = f
                     /\ Applied(design, s)[f] \in p.free[path].min .. p.free[path].max
<1> DEFINE m == Len(s)
           after == After(design, s)
<1>1. /\ m \in Nat /\ DOMAIN s = 1..m /\ design \in [Fields -> Values]
      /\ \A i \in 1..m : s[i].path \in DOMAIN p.free /\ s[i].path \in Paths /\ s[i].after \in Values
  BY ChangeFacts, PolicyFacts DEF Designs
<1>2. \A i \in 1..m : /\ s[i].after \in p.free[s[i].path].min .. p.free[s[i].path].max
                      /\ Valid(Written(after[i - 1], s[i].path, s[i].after))
  BY <1>1 DEF Accepts, ChangeFits, RaisesAt
<1>3. 1 \in 1..m
  BY <1>1, ChangeFacts DEF Accepts
<1>4. /\ after[m] = Validated(Written(after[m - 1], s[m].path, s[m].after))
      /\ after[m - 1] \in [Fields -> Values]
  <2>1. m \in 1..m /\ m - 1 \in 0..m
    BY <1>1, <1>3
  <2>2. /\ \A n \in 0..m : after[n] \in [Fields -> Values]
        /\ \A n \in 1..m : after[n] = Validated(Written(after[n - 1], s[n].path, s[n].after))
    BY <1>1, AfterIs
  <2> HIDE DEF after
  <2> QED  BY <2>1, <2>2
<1>5. after[m] \in Designs
  <2> DEFINE w == Written(after[m - 1], s[m].path, s[m].after)
  <2>1. m \in 1..m
    BY <1>1, <1>3
  <2>2. w \in [Fields -> Values] /\ Valid(w)
    BY <1>1, <1>2, <1>4, <2>1 DEF Written
  <2> QED  BY <1>4, <2>2, ValidatedIs
<1>6. ASSUME NEW f \in Fields, after[m][f] # design[f]
      PROVE  \E path \in DOMAIN p.free : Reaches(path, f)
  <2>1. PICK i \in 1..m :
          \/ FieldOf[s[i].path] = f
          \/ f \in DOMAIN Partner /\ FieldOf[s[i].path] = Partner[f]
    <3>1. m \in 0..m
      BY <1>1
    <3> QED  BY <1>1, <1>6, <3>1, UntouchedValue
  <2>2. Reaches(s[i].path, f)
    BY <2>1, DirectionAssumption DEF Reaches
  <2> QED  BY <1>1, <2>2
<1>7. ASSUME NEW f \in Fields \ DOMAIN Partner, after[m][f] # design[f]
      PROVE  \E path \in DOMAIN p.free :
               FieldOf[path] = f /\ after[m][f] \in p.free[path].min .. p.free[path].max
  <2>1. m \in 0..m
    BY <1>1
  <2>2. PICK i \in 1..m : FieldOf[s[i].path] = f /\ after[m][f] = s[i].after
    BY <1>1, <1>7, <2>1, WrittenValue
  <2> QED  BY <1>1, <1>2, <2>2
<1>8. \A f \in LockedFields(p) : after[m][f] = design[f]
  BY DEF Accepts, Applied
<1> QED  BY <1>5, <1>6, <1>7, <1>8 DEF Applied
-----------------------------------------------------------------------------
(* The invariant *)

LEMMA InitIInv == Init => IInv
<1> SUFFICES ASSUME Init PROVE IInv
  OBVIOUS
<1> QED
  BY PlateRunAssumption
  DEF Init, IInv, TypeOK, Verification, Counts, VerdictLast, BundleIsVerified, LockedValuesKept,
      RepairsStayInRange

LEMMA ApplyStep ==
    ASSUME IInv, RepairApplied
    PROVE  IInv'
<1>1. PICK s \in Proposals(current, policy) :
        Accepts(current, current, policy, s) /\ current' = Applied(current, s)
  BY DEF RepairApplied
<1>2. /\ stage = "repair" /\ stage' = "regenerate" /\ repairs' = repairs + 1
      /\ UNCHANGED <<policy, auto, original, iteration, verified, verdict, bundle, status>>
  BY DEF RepairApplied
<1>3. /\ current' \in Designs
      /\ \A f \in LockedFields(policy) : current'[f] = current[f]
      /\ \A f \in Fields \ DOMAIN Partner :
           \/ current'[f] = current[f]
           \/ \E path \in DOMAIN policy.free :
                FieldOf[path] = f /\ current'[f] \in policy.free[path].min .. policy.free[path].max
  BY <1>1, RepairEffect DEF IInv, TypeOK
<1>4. TypeOK'
  BY <1>2, <1>3, PlateRunAssumption DEF IInv, TypeOK, Counts
<1>5. Verification'
  BY <1>2 DEF Verification
<1>6. Counts' /\ VerdictLast' /\ BundleIsVerified'
  BY <1>2, PlateRunAssumption DEF IInv, TypeOK, Counts, VerdictLast, BundleIsVerified
<1>7. LockedValuesKept'
  BY <1>2, <1>3 DEF IInv, LockedValuesKept
<1>8. RepairsStayInRange'
  BY <1>2, <1>3 DEF IInv, RepairsStayInRange
<1> QED  BY <1>4, <1>5, <1>6, <1>7, <1>8 DEF IInv

\* All other steps leave the contract as it is; they keep the types,
LEMMA TypeStep ==
    ASSUME IInv, Next \/ UNCHANGED plateVars, ~RepairApplied
    PROVE  TypeOK'
<1> DEFINE Stages == {"validate", "generate", "repair", "regenerate", "judge", "done"}
           Statuses == Verdicts \cup {"running", "exhausted", "raised"}
<1>1. /\ UNCHANGED <<current, policy, auto, original, repairs>>
      /\ stage' \in Stages
  BY DEF Next, plateVars, ValidateBlocked, ValidateReady, GenerateFails, GenerateAndVerify,
         RepairStops, RepairRaises, Regenerate, Reverify, AfterVerify, RegenerateRaises, Judge,
         Finish, IInv, TypeOK
<1>2. iteration' \in 1 .. MaxIterations + 1
  <2>1. CASE Regenerate
    <3>1. iteration = repairs /\ repairs \in 0..MaxIterations /\ iteration' = iteration + 1
      BY <2>1 DEF Regenerate, IInv, TypeOK, Counts
    <3> QED  BY <3>1, PlateRunAssumption
  <2>2. CASE ~Regenerate
    <3>1. iteration' = iteration
      BY <2>2
      DEF Next, plateVars, ValidateBlocked, ValidateReady, GenerateFails, GenerateAndVerify,
          RepairStops, RepairRaises, RegenerateRaises, Judge
    <3> QED  BY <3>1 DEF IInv, TypeOK
  <2> QED  BY <2>1, <2>2
<1>3. verified' \subseteq Designs /\ verdict' \in Verdicts \cup {"none"}
  BY DEF Next, plateVars, ValidateBlocked, ValidateReady, GenerateFails, GenerateAndVerify,
         RepairStops, RepairRaises, Regenerate, Reverify, Verify, RegenerateRaises, Judge, IInv,
         TypeOK
<1>4. bundle' \subseteq Designs /\ status' \in Statuses
  <2>1. CASE Judge
    <3>1. bundle' \subseteq {current} /\ verdict \in Verdicts
      BY <2>1 DEF Judge, Bundled, IInv, Verification
    <3> QED  BY <2>1, <3>1 DEF Judge, Finish, Verdicts, IInv, TypeOK
  <2>2. CASE ~Judge
    BY <2>2
    DEF Next, plateVars, ValidateBlocked, ValidateReady, GenerateFails, GenerateAndVerify,
        RepairStops, RepairRaises, Regenerate, RegenerateRaises, Finish, Verdicts, IInv, TypeOK
  <2> QED  BY <2>1, <2>2
<1> QED  BY <1>1, <1>2, <1>3, <1>4 DEF IInv, TypeOK

\* and the rest of the invariant.
LEMMA OtherStep ==
    ASSUME IInv, Next \/ UNCHANGED plateVars, ~RepairApplied
    PROVE  IInv'
<1>1. UNCHANGED <<current, policy, auto, original>>
  BY DEF Next, plateVars, ValidateBlocked, ValidateReady, GenerateFails, GenerateAndVerify,
         RepairStops, RepairRaises, Regenerate, RegenerateRaises, Judge
<1>2. LockedValuesKept' /\ RepairsStayInRange'
  BY <1>1 DEF IInv, LockedValuesKept, RepairsStayInRange
<1>3. Verification' /\ Counts' /\ VerdictLast' /\ BundleIsVerified'
  <2>1. CASE ValidateBlocked \/ ValidateReady \/ GenerateFails \/ RepairRaises \/ RegenerateRaises
    BY <2>1
    DEF ValidateBlocked, ValidateReady, GenerateFails, RepairRaises, RegenerateRaises, Finish,
        IInv, Verification, Counts, VerdictLast, BundleIsVerified
  <2>2. CASE GenerateAndVerify
    <3>1. PICK v \in Verdicts :
            Verify(current, v) /\ stage' = IF auto /\ v = "repairable" THEN "repair" ELSE "judge"
      BY <2>2 DEF GenerateAndVerify
    <3> QED
      BY <2>2, <3>1, PlateRunAssumption
      DEF GenerateAndVerify, Verify, IInv, Verification, Counts, VerdictLast, BundleIsVerified
  <2>3. CASE RepairStops
    <3>1. stage = "repair" /\ verdict \in Verdicts
      BY <2>3 DEF RepairStops, IInv, Verification
    <3> QED
      BY <2>3, <3>1
      DEF RepairStops, IInv, Verification, Counts, VerdictLast, BundleIsVerified
  <2>4. CASE Regenerate
    <3>1. PICK v \in Verdicts : Reverify(v)
      BY <2>4 DEF Regenerate
    <3>2. repairs \in 0..MaxIterations
      BY DEF IInv, TypeOK
    <3> QED
      BY <2>4, <3>1, <3>2, PlateRunAssumption
      DEF Regenerate, Reverify, Verify, AfterVerify, IInv, Verification, Counts, VerdictLast,
          BundleIsVerified
  <2>5. CASE Judge
    BY <2>5
    DEF Judge, Finish, Bundled, Verdicts, IInv, Verification, Counts, VerdictLast,
        BundleIsVerified
  <2>6. CASE UNCHANGED plateVars
    BY <2>6
    DEF plateVars, IInv, Verification, Counts, VerdictLast, BundleIsVerified
  <2> QED  BY <2>1, <2>2, <2>3, <2>4, <2>5, <2>6 DEF Next
<1> QED  BY <1>2, <1>3, TypeStep DEF IInv

LEMMA NextIInv == IInv /\ [Next]_plateVars => IInv'
  BY ApplyStep, OtherStep

\* The invariant of the plate run, for every contract and every verifier.
THEOREM PlateInvariant == Spec => []IInv
  BY InitIInv, NextIInv, PTL DEF Spec

\* Every variable of the run stays in its type.
THEOREM PlateTypes == Spec => []TypeOK
<1>1. IInv => TypeOK  BY DEF IInv
<1> QED  BY <1>1, PlateInvariant, PTL

\* A bundle is made only of the drawing verified last, which passed, and only a passed
\* run has one.
THEOREM BundlesAreVerified == Spec => []BundleIsVerified
<1>1. IInv => BundleIsVerified  BY DEF IInv
<1> QED  BY <1>1, PlateInvariant, PTL

\* No repair changes a value that a locked dimension names, by whatever path.
THEOREM LockedValuesStay == Spec => []LockedValuesKept
<1>1. IInv => LockedValuesKept  BY DEF IInv
<1> QED  BY <1>1, PlateInvariant, PTL

\* A value that a run changed lies in a range declared for its field, whatever the
\* rounding of the search to microns makes of the ends of that range.
THEOREM PlateRepairsStayInRange == Spec => []RepairsStayInRange
<1>1. IInv => RepairsStayInRange  BY DEF IInv
<1> QED  BY <1>1, PlateInvariant, PTL
-----------------------------------------------------------------------------
(* The plate run implements BoundedRepair *)

\* What Bounded takes for its outcome.
Outcome == IF status \in {"running", "passed"} THEN status ELSE "refused"

\* A submitted contract is a design that nothing was found of yet.
LEMMA InitRefines == Init => Bounded!Init
<1> SUFFICES ASSUME Init PROVE Bounded!Init
  OBVIOUS
<1>1. current \in [Fields -> Values] /\ policy \in ContractPolicies
  BY DEF Init, Designs
<1>2. FreeFields \in SUBSET Fields
  <2> DEFINE Named == {FieldOf[path] : path \in DOMAIN policy.free}
  <2>1. Named \subseteq Fields
    BY <1>1, PolicyFacts, PlateAssumption
  <2>2. \A f \in DOMAIN Partner : Partner[f] \in Fields
    BY DirectionAssumption
  <2>3. FreeFields = (Named \cup {Partner[f] : f \in Named \cap DOMAIN Partner}) \ LockedFields(policy)
    BY Zenon DEF FreeFields
  <2> HIDE DEF Named
  <2> QED  BY <2>1, <2>2, <2>3
<1>3. Judged = "not judged" /\ Outcome = "running" /\ repairs = 0
  BY DEF Init, Judged, Outcome
<1> QED  BY <1>1, <1>2, <1>3 DEF Bounded!Init, FreeFields, Judged, Outcome

\* A repair applied is a Repair: the contract was found faulty, the bound is not
\* reached, and only free fields change.
LEMMA RepairRefines ==
    ASSUME IInv, RepairApplied
    PROVE  Bounded!Repair
<1>1. PICK s \in Proposals(current, policy) :
        Accepts(current, current, policy, s) /\ current' = Applied(current, s)
  BY DEF RepairApplied
<1>2. /\ stage = "repair" /\ repairs' = repairs + 1
      /\ UNCHANGED <<policy, iteration, verified, verdict, status>>
  BY DEF RepairApplied
<1>3. /\ current' \in Designs
      /\ \A f \in LockedFields(policy) : current'[f] = current[f]
      /\ \A f \in Fields :
           current'[f] = current[f] \/ \E path \in DOMAIN policy.free : Reaches(path, f)
  BY <1>1, RepairEffect DEF IInv, TypeOK
<1>4. \A f \in Fields \ FreeFields : current'[f] = current[f]
  <2> SUFFICES ASSUME NEW f \in Fields, current'[f] # current[f] PROVE f \in FreeFields
    OBVIOUS
  <2>1. PICK path \in DOMAIN policy.free : Reaches(path, f)
    BY <1>3
  <2>2. f \notin LockedFields(policy)
    BY <1>3
  <2>3. CASE FieldOf[path] = f
    BY <2>2, <2>3 DEF FreeFields
  <2>4. CASE FieldOf[path] \in DOMAIN Partner /\ f = Partner[FieldOf[path]]
    BY <2>2, <2>4 DEF FreeFields
  <2> QED  BY <2>1, <2>3, <2>4 DEF Reaches
<1>5. /\ verified = {current} /\ verdict # "passed" /\ status = "running"
      /\ repairs < MaxIterations /\ iteration = repairs + 1 /\ repairs \in Nat
  BY <1>2, PlateRunAssumption DEF IInv, TypeOK, Verification, VerdictLast, Counts
<1>6. Judged = "faulty" /\ Judged' = "not judged"
  <2>1. iteration # repairs /\ iteration' = repairs'
    BY <1>2, <1>5
  <2> QED  BY <1>2, <1>5, <2>1 DEF Judged
<1>7. Outcome = "running" /\ Outcome' = "running" /\ FreeFields' = FreeFields
  BY <1>2, <1>5 DEF Outcome, FreeFields, LockedFields
<1> QED
  BY <1>2, <1>3, <1>4, <1>5, <1>6, <1>7
  DEF Bounded!Repair, FreeFields, Judged, Outcome, Designs

\* All other steps keep the contract: they judge it, pass it, refuse it, or are none
\* of the abstract run's business.
LEMMA OtherRefines ==
    ASSUME IInv, Next \/ UNCHANGED plateVars, ~RepairApplied
    PROVE  Bounded!Next \/ UNCHANGED Bounded!vars
<1>1. UNCHANGED <<current, repairs>> /\ FreeFields' = FreeFields
  BY DEF Next, plateVars, ValidateBlocked, ValidateReady, GenerateFails, GenerateAndVerify,
         RepairStops, RepairRaises, Regenerate, RegenerateRaises, Judge, FreeFields, LockedFields
<1>2. CASE ValidateReady \/ RepairStops \/ UNCHANGED plateVars
  <2>1. Judged' = Judged /\ Outcome' = Outcome
    BY <1>2 DEF ValidateReady, RepairStops, plateVars, Judged, Outcome
  <2> QED  BY <1>1, <2>1 DEF Bounded!vars, FreeFields, Judged, Outcome
<1>3. CASE ValidateBlocked \/ GenerateFails \/ RepairRaises \/ RegenerateRaises
  <2>1. Judged' = Judged /\ Outcome = "running" /\ Outcome' = "refused"
    BY <1>3
    DEF ValidateBlocked, GenerateFails, RepairRaises, RegenerateRaises, Finish, Judged, Outcome,
        IInv, VerdictLast
  <2> QED  BY <1>1, <2>1 DEF Bounded!Next, Bounded!Refuse, FreeFields, Judged, Outcome
<1>4. CASE GenerateAndVerify \/ Regenerate
  <2>1. verified' = {current} /\ status = "running" /\ status' = status
    BY <1>4
    DEF GenerateAndVerify, Regenerate, Reverify, Verify, IInv, VerdictLast
  <2>2. verified # {current} \/ iteration = repairs
    BY <1>4 DEF GenerateAndVerify, Regenerate, IInv, Verification, Counts
  <2>3. iteration' # repairs
    <3>1. repairs \in Nat
      BY PlateRunAssumption DEF IInv, TypeOK
    <3> QED  BY <1>4, <3>1 DEF GenerateAndVerify, Regenerate, IInv, Counts
  <2>4. Judged = "not judged" /\ Judged' \in {"clean", "faulty"}
    BY <1>1, <2>1, <2>2, <2>3 DEF Judged
  <2>5. Outcome = "running" /\ Outcome' = Outcome
    BY <2>1 DEF Outcome
  <2> QED  BY <1>1, <2>4, <2>5 DEF Bounded!Next, Bounded!Judge, FreeFields, Judged, Outcome
<1>5. CASE Judge
  <2>1. /\ verified = {current} /\ verdict \in Verdicts /\ Judged' = Judged
        /\ iteration = repairs + 1 /\ Outcome = "running"
        /\ status' = IF verdict = "passed" THEN "passed"
                     ELSE IF auto /\ (repairs > 0 \/ verdict = "repairable") THEN "exhausted"
                     ELSE verdict
    BY <1>5 DEF Judge, Finish, Judged, Outcome, IInv, Verification, Counts, VerdictLast
  <2>2. iteration # repairs
    <3>1. repairs \in Nat
      BY PlateRunAssumption DEF IInv, TypeOK
    <3> QED  BY <2>1, <3>1
  <2>3. CASE verdict = "passed"
    <3>1. Judged = "clean" /\ Outcome' = "passed"
      BY <2>2, <2>1, <2>3 DEF Judged, Outcome
    <3> QED
      BY <1>1, <2>1, <3>1 DEF Bounded!Next, Bounded!Pass, FreeFields, Judged, Outcome
  <2>4. CASE verdict # "passed"
    <3>1. Outcome' = "refused"
      BY <2>1, <2>4 DEF Outcome, Verdicts
    <3> QED
      BY <1>1, <2>1, <3>1 DEF Bounded!Next, Bounded!Refuse, FreeFields, Judged, Outcome
  <2> QED  BY <2>3, <2>4
<1> QED  BY <1>2, <1>3, <1>4, <1>5 DEF Next

\* The plate run is a bounded repair: only faulty contracts are repaired, only in free
\* and unlocked fields, at most MaxIterations times, and "passed" is said of a contract
\* verified after its last change.
THEOREM PlateImplementsBoundedRepair == Spec => ImplementsBoundedRepair
<1>1. IInv /\ [Next]_plateVars => [Bounded!Next]_Bounded!vars
  BY RepairRefines, OtherRefines DEF Bounded!Next
<1> QED
  BY <1>1, InitRefines, PlateInvariant, PTL DEF Spec, ImplementsBoundedRepair, Bounded!Spec
=============================================================================

----------------------------- MODULE PlateRepair -----------------------------
(***************************************************************************)
(* propose_repair and apply_repair of repair.py as operators on contracts. *)
(* A contract is the value of every numeric field, the paths its locked    *)
(* dimensions name and the ranges of its free parameters by path.          *)
(*                                                                         *)
(* Several paths may name one field: get_numeric_path converts an index    *)
(* with int(), so center.0 and center.00 are the same number while the     *)
(* policy compares paths as strings.  Two fields may be the components of  *)
(* a pattern's direction, which every validation makes a unit vector: what *)
(* is written to one of them is not what is stored, and it changes both.   *)
(***************************************************************************)
EXTENDS MicronGrid, Sequences, FiniteSetsExt

CONSTANTS Fields, Paths,
          FieldOf,    \* the field a path names
          Partner,    \* of a component of a direction, the other one
          Unit,        \* the length of a unit vector
          MaxValue,   \* bound on a field
          Ranges,     \* the ranges a free parameter may declare
          MaxChanges  \* bound on the changes of a proposal: violations handled at once

ASSUME PlateAssumption ==
    /\ IsFiniteSet(Paths)
    /\ FieldOf \in [Paths -> Fields]
    /\ MaxValue \in Nat
    /\ \A r \in Ranges : r.min \in 0..MaxValue /\ r.max \in r.min..MaxValue /\ r.step \in 1..MaxValue
    /\ MaxChanges \in Nat

Values == 0..MaxValue

\* LinearPattern.validate_direction: of a vector along a and across b the component along
\* its length, to the nearest on the grid.
Component(a, b) ==
    Max({0} \cup {n \in 1..Unit : (2 * n - 1) * (2 * n - 1) * (a * a + b * b) <= 4 * Unit * Unit * a * a})

\* On the grid, as with floats, a unit vector is not zero and is its own unit vector.
ASSUME DirectionAssumption ==
    /\ Unit \in 1..MaxValue
    /\ DOMAIN Partner \subseteq Fields
    /\ \A f \in DOMAIN Partner : Partner[f] \in DOMAIN Partner \ {f} /\ Partner[Partner[f]] = f
    /\ \A a, b \in Values : a # 0 \/ b # 0 =>
         /\ Component(a, b) # 0 \/ Component(b, a) # 0
         /\ Component(Component(a, b), Component(b, a)) = Component(a, b)

\* DesignContract.model_validate: a direction of length zero is refused, any other is
\* made a unit vector.
Valid(design) == \A f \in DOMAIN Partner : design[f] # 0 \/ design[Partner[f]] # 0
Validated(design) ==
    [f \in Fields |-> IF f \in DOMAIN Partner THEN Component(design[f], design[Partner[f]]) ELSE design[f]]

\* Contracts as they are after validation.
Designs == {d \in [Fields -> Values] : Valid(d) /\ Validated(d) = d}

\* free_by_path and locked_paths: a contract cannot declare a path both.
Policies ==
    {[free |-> f, locked |-> l] :
        f \in UNION {[F -> Ranges] : F \in SUBSET Paths}, l \in SUBSET Paths}

ContractPolicies == {p \in Policies : DOMAIN p.free \cap p.locked = {}}

LockedFields(policy) == {FieldOf[path] : path \in policy.locked}

\* compute_contract_hash sees lengths on a grid of a micron.
SameHash(design, other) == \A f \in Fields : Microns(design[f]) = Microns(other[f])

\* A change propose_repair may make for some violation.
Changes(design, policy) ==
    {c \in [path : DOMAIN policy.free \ policy.locked, before : Values, after : Values] :
       /\ c.before = design[FieldOf[c.path]]
       /\ c.after \in Grid(policy.free[c.path])
       /\ c.after # c.before}

\* propose_repair: changes in the order of the violations, one path once.
Proposals(design, policy) ==
    {s \in UNION {[1..n -> Changes(design, policy)] : n \in 0..MaxChanges} :
       \A i, j \in DOMAIN s : s[i].path = s[j].path => i = j}

\* set_numeric_path: a value is written, and the contract is validated again.
Written(design, path, value) == [design EXCEPT ![FieldOf[path]] = value]

\* The contract after every number of changes.
After(design, s) ==
    LET after[n \in 0..Len(s)] ==
            IF n = 0 THEN design ELSE Validated(Written(after[n - 1], s[n].path, s[n].after))
    IN after

Applied(design, s) == After(design, s)[Len(s)]

\* Mutant of ChangeFits: the value before is taken from the contract supplied.
ChangeFitsUnordered(design, policy, s, i) ==
    /\ s[i].path \in DOMAIN policy.free \ policy.locked
    /\ s[i].after \in policy.free[s[i].path].min .. policy.free[s[i].path].max

\* Mutant of ChangeFits: no range check.
ChangeFitsAnyRange(design, policy, s, i) ==
    /\ s[i].path \in DOMAIN policy.free \ policy.locked
    /\ After(design, s)[i - 1][FieldOf[s[i].path]] = s[i].before

\* The checks on one change: its path, the value before and the range.
ChangeFits(design, policy, s, i) ==
    /\ s[i].path \in DOMAIN policy.free \ policy.locked
    /\ After(design, s)[i - 1][FieldOf[s[i].path]] = s[i].before
    /\ s[i].after \in policy.free[s[i].path].min .. policy.free[s[i].path].max

\* The validation after a change refuses it: an error of its own, not a rejection.
RaisesAt(design, s, i) == ~Valid(Written(After(design, s)[i - 1], s[i].path, s[i].after))

\* Mutant of Accepts: locked values are not compared at the end.
AcceptsByPath(design, seen, policy, s) ==
    /\ SameHash(design, seen)
    /\ s # <<>>
    /\ \A i \in DOMAIN s : ChangeFits(design, policy, s, i) /\ ~RaisesAt(design, s, i)

\* Mutant of Accepts: the hash of the contract is not compared.
AcceptsAnyContract(design, seen, policy, s) ==
    /\ s # <<>>
    /\ \A i \in DOMAIN s : ChangeFits(design, policy, s, i) /\ ~RaisesAt(design, s, i)
    /\ \A f \in LockedFields(policy) : Applied(design, s)[f] = design[f]

\* apply_repair accepts the changes s proposed for the contract seen.
Accepts(design, seen, policy, s) ==
    /\ SameHash(design, seen)
    /\ s # <<>>
    /\ \A i \in DOMAIN s : ChangeFits(design, policy, s, i) /\ ~RaisesAt(design, s, i)
    /\ \A f \in LockedFields(policy) : Applied(design, s)[f] = design[f]

\* It raises at a change that passed its checks, and so did those before it.
ApplyRaises(design, seen, policy, s) ==
    /\ SameHash(design, seen)
    /\ \E i \in DOMAIN s :
         /\ RaisesAt(design, s, i)
         /\ \A j \in 1..i : ChangeFits(design, policy, s, j)
         /\ \A j \in 1 .. i - 1 : ~RaisesAt(design, s, j)
=============================================================================

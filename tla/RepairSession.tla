---------------------------- MODULE RepairSession ----------------------------
(***************************************************************************)
(* The repair endpoints (/repairs/propose, /repairs/apply and the MCP      *)
(* tools repair_propose, repair_apply) as a client uses them: it keeps     *)
(* proposals, edits its contract between the calls, and may send any       *)
(* proposal with any contract, late, twice or out of order.  The server    *)
(* keeps nothing; apply_repair has to tell a stale proposal by itself.     *)
(***************************************************************************)
EXTENDS PlateRepair

CONSTANT MaxProposals  \* bound on the proposals a client keeps

ASSUME SessionAssumption == MaxProposals \in Nat

VARIABLES contract,   \* the client's values
          policy,     \* its free parameters and locked dimensions
          proposals,  \* proposals kept: the contract seen, its policy, the changes
          last        \* the last application that succeeded since an edit, if any

sessionVars == <<contract, policy, proposals, last>>

Init ==
    /\ contract \in Designs
    /\ policy \in ContractPolicies
    /\ proposals = {}
    /\ last = {}

\* The client asks for a proposal and keeps it.
ProposeRepair ==
    /\ Cardinality(proposals) < MaxProposals
    /\ \E s \in Proposals(contract, policy) :
         /\ s # <<>>
         /\ proposals' = proposals \cup {[seen |-> contract, policy |-> policy, changes |-> s]}
    /\ UNCHANGED <<contract, policy, last>>

\* The user changes a value, within the ranges or not; the next request validates it.
EditValue ==
    /\ \E f \in Fields, v \in Values :
         LET edited == [contract EXCEPT ![f] = v]
         IN /\ v # contract[f] /\ Valid(edited)
            /\ contract' = Validated(edited)
    /\ last' = {}
    /\ UNCHANGED <<policy, proposals>>

\* A contract cannot declare a path both locked and free.
WithLock(path) ==
    [free |-> [q \in DOMAIN policy.free \ {path} |-> policy.free[q]],
     locked |-> policy.locked \cup {path}]

\* The user locks a dimension and gives up its free parameter.
LockPath ==
    /\ \E path \in Paths \ policy.locked :
         policy' = WithLock(path)
    /\ last' = {}
    /\ UNCHANGED <<contract, proposals>>

\* The hash covers the whole contract, so a changed policy is a changed contract.
Accepted(p) == policy = p.policy /\ Accepts(contract, p.seen, policy, p.changes)

\* repair_apply: on a rejection nothing changes and the client is told.
ApplyRepair ==
    /\ \E p \in proposals :
         /\ Accepted(p)
         /\ contract' = Applied(contract, p.changes)
         /\ last' = {[proposal |-> p, on |-> contract]}
    /\ UNCHANGED <<policy, proposals>>

Next == ProposeRepair \/ EditValue \/ LockPath \/ ApplyRepair

Spec == Init /\ [][Next]_sessionVars
-----------------------------------------------------------------------------
(* Properties *)

\* A proposal is applied only where every value it changes is the one it was computed
\* from, and the rest of the contract is the same to a micron.  The one exception is a
\* component of a direction whose other component was written before it.
AppliedAsSeen ==
    \A a \in last :
        LET s == a.proposal.changes
            FieldAt(i) == FieldOf[s[i].path]
        IN /\ SameHash(a.on, a.proposal.seen)
           /\ \A i \in DOMAIN s :
                \/ a.on[FieldAt(i)] = a.proposal.seen[FieldAt(i)]
                \/ \E j \in 1 .. i - 1 : FieldAt(i) \in DOMAIN Partner /\ FieldAt(j) = Partner[FieldAt(i)]

\* A proposal that changes more than directions is rejected when it is sent again after
\* it was applied: what it did is not done twice, also when its changes are too small for
\* the hash to see.  Of a direction the proposal may have changed nothing, as validation
\* makes (1/2, 0) the unit vector that it was, and is accepted again.
NeverAppliedTwice ==
    \A a \in last :
        (\E i \in DOMAIN a.proposal.changes : FieldOf[a.proposal.changes[i].path] \notin DOMAIN Partner)
        => ~Accepted(a.proposal)
=============================================================================

-------------------------- MODULE PackageProvenance --------------------------
(***************************************************************************)
(* What the submission and review service promises about a package,        *)
(* whatever happens to the submissions around it: a package is proposed at *)
(* most once, by its owner; it is judged at most once, by an administrator *)
(* who is not its owner; the judgement is final; and only a package that   *)
(* was approved is ever served.                                            *)
(***************************************************************************)
CONSTANTS Packages, Users, Admins, Nobody

VARIABLES
    stage,      \* [Packages -> Stages]
    owner,      \* who proposed a package
    judge,      \* who judged it
    served      \* the packages a download can hand out

provenanceVars == <<stage, owner, judge, served>>

Stages == {"fresh", "proposed", "approved", "refused"}

ProvenanceInit ==
    /\ stage = [p \in Packages |-> "fresh"]
    /\ owner = [p \in Packages |-> Nobody]
    /\ judge = [p \in Packages |-> Nobody]
    /\ served = {}

Propose(p) ==
    /\ stage[p] = "fresh"
    /\ stage' = [stage EXCEPT ![p] = "proposed"]
    /\ \E user \in Users : owner' = [owner EXCEPT ![p] = user]
    /\ UNCHANGED <<judge, served>>

Judge(p, verdict) ==
    /\ stage[p] = "proposed"
    /\ stage' = [stage EXCEPT ![p] = verdict]
    /\ \E admin \in Admins \ {owner[p]} : judge' = [judge EXCEPT ![p] = admin]
    /\ UNCHANGED owner

\* An approval serves the package, unless what was approved is an archival.
Approve(p) ==
    /\ Judge(p, "approved")
    /\ served' \in {served, served \cup {p}}

Refuse(p) ==
    /\ Judge(p, "refused")
    /\ UNCHANGED served

ProvenanceNext == \E p \in Packages : Propose(p) \/ Approve(p) \/ Refuse(p)

ProvenanceSpec == ProvenanceInit /\ [][ProvenanceNext]_provenanceVars
=============================================================================

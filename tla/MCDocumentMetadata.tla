------------------------- MODULE MCDocumentMetadata -------------------------
(***************************************************************************)
(* DocumentMetadata on a small instance: two documents of one family, an   *)
(* administrator and a member.                                             *)
(***************************************************************************)
EXTENDS DocumentMetadata, TLC

CONSTANTS s1, s2, family, open, closed, admin, member, hr, legal

\* The member reads open documents; the ACL file opens s1.
MCGranted == {<<member, open>>}
MCAclConfig == s1 :> open

\* Both versions in force; and the same under a policy that would hide both,
\* which load_governance rejects.
Reference == [family |-> family, gov |-> [authority |-> "reference", status |-> "active"],
              supersedes |-> {}, replaces |-> FALSE, evidence |-> FALSE]
MCConfigs ==
    {[policy |-> "all_active", docs |-> s1 :> Reference @@ s2 :> Reference],
     [policy |-> "authoritative", docs |-> s1 :> Reference @@ s2 :> Reference]}

\* s2 is to replace s1.
MCProposals == {[family |-> family, target |-> s2, replaced |-> {s1}]}

\* The two approvers are interchangeable.
Symmetry == Permutations({hr, legal})

\* A new store; one version of s1, of each document; two versions of s1.
Old(s, r) == [src |-> s, rev |-> r,
              meta |-> [gov |-> [authority |-> "unconfirmed", status |-> "active"],
                        acl |-> None]]
MCLegacyStores == {{}, {Old(s1, 1)}, {Old(s1, 1), Old(s2, 2)}, {Old(s1, 1), Old(s1, 2)}}
=============================================================================

--------------------------- MODULE MCTrustLibrary ---------------------------
(* Instances of TrustLibrary for TLC.                                      *)
EXTENDS TrustLibrary

CONSTANTS com, org, alice, bob, first, second

TwoDomains == {com, org}
\* Host 1 is the apex of com, 2 a name server of com, 3 the apex of org.
Apexes == [d \in TwoDomains |-> IF d = com THEN 1 ELSE 3]
NameServers == [h \in 1..3 |-> IF h = 1 THEN {2} ELSE {}]
Levels == {"critical", "high"}
RowOf(d, h) == [domain |-> d, importance |-> "high", host |-> h]
\* A manifest that lists the name server of com.
OneManifest == {<<RowOf(com, 0), RowOf(com, 1), RowOf(com, 2)>>}
\* A job for one domain that approves what it discovers, and one for two
\* domains that only imports them.
TwoInputs ==
    {[lines |-> <<com>>, importOnly |-> FALSE],
     [lines |-> <<com, org>>, importOnly |-> TRUE]}
NoneKnown == {}
OneUser == {alice}
TwoRuns == {first, second}
=============================================================================

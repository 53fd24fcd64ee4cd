------------------------ MODULE MCContractMigration ------------------------
(*****************************************************************************)
(* Small instances of ContractMigration: two or three historical revisions,  *)
(* one live one, and derived jobs of each kind.                              *)
(*****************************************************************************)
EXTENDS ContractMigration

CONSTANTS h1, h2, h3, l1, th1, il1, ih1, old

MCOrder == <<h1, h2, h3, l1, th1, il1, ih1, old>>
Position(x) == CHOOSE i \in DOMAIN MCOrder : MCOrder[i] = x
MCCreated == [j \in Jobs |-> Position(j)]
MCReceived == [r \in Revisions |-> Cardinality({s \in Revisions : Position(s) <= Position(r)})]
MCDayOf == [r \in Revisions |-> IF r = h1 THEN "old day" ELSE "recent day"]
MCParent == [d \in Derived |-> IF d = il1 THEN l1 ELSE IF d = th1 THEN h2 ELSE h1]

\* Rows an older release left; absent ones are those of a fresh database.
LegacyStates(j) ==
  CASE j \in {h1, h3} -> {"ABSENT", "WAITING"}
    [] j = h2 -> {"LEASED", "COMPLETED"}
    [] j = l1 -> {"ABSENT", "COMPLETED"}
    [] j = th1 -> {"WAITING", "LEASED"}
    [] j \in {il1, ih1} -> {"ABSENT", "WAITING"}
    [] OTHER -> {"WAITING", "COMPLETED"}
MCLegacies == {L \in [Jobs -> STATES] : \A j \in Jobs : L[j] \in LegacyStates(j)}
MCFresh == {[j \in Jobs |-> "ABSENT"]}
=============================================================================

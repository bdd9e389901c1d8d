------------------------------ MODULE MCLookup ------------------------------
(***************************************************************************)
(* Two stable releases, a prerelease above them, a tag that is no version, *)
(* a legacy Go tag above all and a Go pseudo-version; a list shorter than  *)
(* a page, and one of two pages that one publication makes fill every page *)
(* allowed and two take past them.                                         *)
(***************************************************************************)
EXTENDS VersionLookup

Symmetry == Permutations(Requesters) \cup Permutations(Credentials)

MCTags == {"v1", "v2", "v3rc", "v4+i", "weekly", "pseudo"}
MCRank == [t \in MCTags |-> CASE t = "v1" -> 1 [] t = "v2" -> 2 [] t = "v3rc" -> 3
                              [] t = "v4+i" -> 4 [] OTHER -> 0]
MCRetracts == [t \in MCTags |-> IF t = "v2" THEN {"v1", "v4+i"} ELSE {}]

MCDefs == {"latest", "tags", "feed", "gitlab", "go", "registry"}
MCKind == [d \in MCDefs |-> IF d = "latest" THEN "release" ELSE d]
\* The latest release may be named weekly, which passes the filter without the
\* prefix, or v4+i, which does not pass it.
MCFiltered == [d \in MCDefs |-> IF d = "latest" THEN MCTags \ {"v2", "v4+i"} ELSE MCTags]
MCPrefixed == [d \in MCDefs |-> CASE d = "latest" -> MCTags \ {"weekly"}
                                  [] d = "tags"   -> MCTags \ {"v4+i"}
                                  [] OTHER        -> MCTags]

MCLists == {<<"weekly", "v1", "v3rc">>, <<"v4+i">>}

\* Spent until 3; a secondary limit of one tick, of none, and one that names no time;
\* a plain 403.
Answer403(spent, reset, after, retry, phrase) ==
    [spent |-> spent, reset |-> reset, after |-> after, retry |-> retry, phrase |-> phrase]
MCRefusals == {Answer403(TRUE, 3, FALSE, 0, FALSE), Answer403(FALSE, 3, TRUE, 1, FALSE),
               Answer403(FALSE, 0, TRUE, 0, FALSE), Answer403(FALSE, 0, FALSE, 0, TRUE),
               Answer403(FALSE, 3, FALSE, 0, FALSE)}
=============================================================================

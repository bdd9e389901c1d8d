-------------------------- MODULE MCCatalogRefresh --------------------------
(* Two images and three published documents: one gutted, one that lost a    *)
(* required tool, and one with the second image's stamp.                    *)
EXTENDS CatalogRefresh

MCTools == {"gh", "node"}
MCDocs  == {"image1", "image2", "gutted", "lost", "fresh"}

MCGenerated ==
    [d \in MCDocs |-> CASE d = "image1" -> 1
                        [] d \in {"image2", "fresh"} -> 3
                        [] OTHER -> 2]

MCEntries ==
    [d \in MCDocs |-> CASE d = "lost"   -> [t \in MCTools |-> "listed"]
                        [] d = "gutted" -> [t \in MCTools |-> IF t = "gh" THEN "good" ELSE "absent"]
                        [] d = "fresh"  -> [t \in MCTools |-> IF t = "gh" THEN "good" ELSE "bad"]
                        [] OTHER        -> [t \in MCTools |-> "good"]]

Over(gh, node) == [t \in MCTools |-> IF t = "gh" THEN gh ELSE node]

\* A display patch, a curated entry, one that cannot install, one without its definition,
\* no file.
MCOverlays ==
    {Over("patch", "none"), Over("none", "entry"), Over("none", "flawed"),
     Over("bare", "none"), Over("unreadable", "none")}
=============================================================================

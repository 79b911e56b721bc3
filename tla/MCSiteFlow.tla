----------------------------- MODULE MCSiteFlow -----------------------------
(* An instance of SiteFlow for TLC: three websites, five trees, and what a  *)
(* migration of the components from version 1 to 2 makes of the trees.      *)
EXTENDS SiteProperties

CONSTANTS p1, p2,
          plain, text, wide, moved, kept,   \* trees
          new, keep, skip                   \* resolutions

\* `wide` has other nodes than the rest.
Shapes   == [t \in Trees |-> IF t = wide THEN wide ELSE plain]
Shows    == [t \in Trees |-> IF t \in {text, moved} THEN Datasets ELSE {}]
AllPlain == [p \in Pages |-> plain]

\* Only `plain` has a component that moved on; its conflict is resolved or left.
MergeTo  == [q \in Resolutions |->
               [t \in Trees |->
                  IF t # plain THEN t
                  ELSE CASE q = new -> moved [] q = keep -> kept [] OTHER -> plain]]
Merges   == [k \in 1..2 |-> MergeTo]
Left     == [k \in 1..2 |-> [q \in Resolutions |-> IF q = skip THEN {plain} ELSE {}]]

\* One page, edited, published and restored.
Published == [commands |-> {"create", "save", "publish", "rollback"},
              first |-> {}, later |-> {p1}, trees |-> {plain, text, wide},
              resolutions |-> {}, versions |-> 3, releases |-> 3, catalogs |-> 1]
\* Two pages, edited while a migration is applied under different resolutions.
Migrated  == [commands |-> {"save", "publish", "propose", "apply"},
              first |-> {p1, p2}, later |-> {}, trees |-> {plain, text, moved, kept},
              resolutions |-> {new, keep, skip}, versions |-> 2, releases |-> 1,
              catalogs |-> 2]
\* Two pages that nobody edits, whose migration is tried again and again.
Retried   == [commands |-> {"publish", "rollback", "propose", "apply", "delete"},
              first |-> {p1, p2}, later |-> {}, trees |-> {},
              resolutions |-> {new}, versions |-> 2, releases |-> 1, catalogs |-> 2]

Websites == {Published, Migrated, Retried}
=============================================================================

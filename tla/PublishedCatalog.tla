-------------------------- MODULE PublishedCatalog --------------------------
(***************************************************************************)
(* What the catalog of one dataset promises its readers: a growing set of  *)
(* immutable, whole partitions.  A partition appears in one step, is never *)
(* altered or withdrawn, has a stamp of its own, and an incremental one    *)
(* extends exactly the published partition it names as its prior.          *)
(***************************************************************************)
EXTENDS CatalogData

VARIABLE published

Init == published = {}

\* The prior named by a partition is itself published and faithfully extended.
PriorHonoured(m) == m.prior # 0 => \E p \in published : p.at = m.prior /\ ExtendsPartition(m, p)

Publish(m) ==
  /\ published' = published \cup {m}
  /\ \A n \in published : n.at # m.at
  /\ PriorHonoured(m)

\* Republishing what is there would be no step at all.
Next == published' # published /\ \E m \in Manifests : Publish(m)

Spec == Init /\ [][Next]_published

=============================================================================

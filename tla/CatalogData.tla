----------------------------- MODULE CatalogData -----------------------------
(***************************************************************************)
(* The data of one catalog dataset: row frames, lineage manifests, the     *)
(* catalog order and what an incremental publication owes to its prior.    *)
(* A frame maps primary keys to row payloads; a manifest is identified by  *)
(* its retrieval stamp `at`, which is unique (see SilverStore).            *)
(***************************************************************************)
EXTENDS Naturals, FiniteSets

CONSTANTS
  Keys,       \* primary keys of the dataset's rows
  Values,     \* payload of a row
  MaxClock    \* bound: number of retrieval stamps taken

ASSUME MaxClockAssumption == MaxClock \in Nat

PartialFrames == UNION {[D -> Values] : D \in SUBSET Keys}
Frames        == {f \in PartialFrames : DOMAIN f # {}}
EmptyFrame    == [k \in {} |-> k]

\* One lineage record: `raw` is the payload it was made from, `refreshed` the
\* keys replaced outright, `prior` the stamp of the partition merged with, or 0.
Manifests == [at        : 1 .. MaxClock,
              frame     : Frames,
              raw       : PartialFrames,
              refreshed : SUBSET Keys,
              prior     : 0 .. MaxClock]

\* The newest manifest in catalog order; meaningful when some manifest exists.
Newest(ms) == CHOOSE m \in ms : \A n \in ms : n.at =< m.at

\* The keys a consumer of the catalog is served.
Served(ms) == IF ms = {} THEN {} ELSE DOMAIN Newest(ms).frame

\* merge_incremental: refreshed keys leave the prior side, incoming rows win.
MergeFrames(prior, incoming, refreshed) ==
  [k \in (DOMAIN prior \ refreshed) \cup DOMAIN incoming |->
     IF k \in DOMAIN incoming THEN incoming[k] ELSE prior[k]]

\* What an incremental publication owes to the partition it names as prior:
\* rows it fetched are taken as fetched, every other row is carried over
\* unchanged, and nothing outside the refreshed keys disappears.
ExtendsPartition(m, p) ==
  /\ (DOMAIN p.frame \ m.refreshed) \subseteq DOMAIN m.frame
  /\ \A k \in DOMAIN m.raw : k \in DOMAIN m.frame /\ m.frame[k] = m.raw[k]
  /\ \A k \in DOMAIN m.frame \ DOMAIN m.raw :
       k \in DOMAIN p.frame /\ m.frame[k] = p.frame[k]

=============================================================================

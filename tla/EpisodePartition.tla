--------------------------- MODULE EpisodePartition ---------------------------
(***************************************************************************)
(* training_data.py: how the episodes of a dataset are selected and split  *)
(* into training and validation, and how the two datasets stream frames    *)
(* later, from a source that is read again.                                *)
(*                                                                         *)
(* The SHA-256 ranks are two arbitrary orders of the record IDs.  A frame  *)
(* is its episode and its index; its image and action are left out.        *)
(***************************************************************************)
EXTENDS Naturals, FiniteSetsExt

CONSTANTS
  Episodes,       \* record IDs of the source
  GroupOf,        \* the group of each
  MaxFrames,      \* bound: frames of an episode
  Ranks,          \* the orders a seed may give the IDs, for selection and split
  Settings,       \* partition settings: limit, cap (0 for none), stride, fraction
  MaxPasses       \* bound: passes over the training split

\* Equal hashes are ranked by the ID: no two episodes have the same rank.
ASSUME PartitionAssumption ==
  /\ IsFiniteSet(Episodes) /\ MaxFrames \in Nat /\ MaxPasses \in Nat
  /\ Ranks \subseteq [Episodes -> Nat]
  /\ \A r \in Ranks : \A a, b \in Episodes : r[a] = r[b] => a = b
  /\ \A s \in Settings :
       /\ s.limit \in Nat /\ s.cap \in Nat /\ s.stride \in Nat \ {0}
       /\ s.part \in Nat /\ s.whole \in Nat /\ 0 < s.part /\ s.part < s.whole
       /\ s.over \subseteq Nat

VARIABLES
  frames,       \* the source: frames of each episode, 0 for an empty one
  settings,     \* the validated settings with the two ranks
  catalog,      \* what the catalog pass found: [Episodes -> frames], 0 if not (yet) there
  manifest,     \* the episodes with split and counted frames
  reader,       \* the pass of a dataset: its split, what is left and what it yielded
  partitionAt   \* "catalog", "ready", "reading" or "refused"

partitionVars == <<frames, settings, catalog, manifest, reader, partitionAt>>

Catalogued == {e \in Episodes : catalog[e] > 0}
Gone == MaxFrames + 1
Before(rank, a, b) == rank[a] < rank[b]
FirstOf(S, rank, n) == {e \in S : Cardinality({d \in S : Before(rank, d, e)}) < n}
Ceil(a, b) == (a + b - 1) \div b
Smaller(a, b) == IF a < b THEN a ELSE b
Larger(a, b) == IF a > b THEN a ELSE b

\* The selected rows of a group, and those of them that are held out.
SelectedOf(g) ==
  LET rows == {e \in Catalogued : GroupOf[e] = g}
  IN IF settings.limit = 0 THEN rows ELSE FirstOf(rows, settings.select, settings.limit)

\* Mutant: rounded down, without the minimum of one.
ValidationCountFloor(n) == (n * settings.part) \div settings.whole

\* math.ceil of a product of floats: for the sizes in `over` it lies above the
\* whole number it stands for, 0.14 * 50 = 7.000000000000001.
FloatCeil(n) ==
  IF n \in settings.over THEN (n * settings.part) \div settings.whole + 1
                         ELSE Ceil(n * settings.part, settings.whole)

ValidationCount(n) == Smaller(n - 1, Larger(1, FloatCeil(n)))

HeldOut(g) == FirstOf(SelectedOf(g), settings.split, ValidationCount(Cardinality(SelectedOf(g))))

CountedFrames(n) ==
  LET sampled == Ceil(n, settings.stride)
  IN IF settings.cap = 0 THEN sampled ELSE Smaller(sampled, settings.cap)

\* build_episode_manifest refuses a group without two selected episodes.
Splittable ==
  LET present == {GroupOf[e] : e \in Catalogued}
  IN present # {} /\ \A g \in present : Cardinality(SelectedOf(g)) >= 2

Manifest ==
  {[id |-> e, frames |-> CountedFrames(catalog[e]),
    split |-> IF e \in HeldOut(GroupOf[e]) THEN "validation" ELSE "train"] :
     e \in {d \in Catalogued : d \in SelectedOf(GroupOf[d])}}

Counts(split) == MapThenSumSet(LAMBDA row : row.frames, {row \in manifest : row.split = split})

\* The frames raw_frames yields of an episode: every stride-th index up to the cap.
Yielded(n) ==
  LET sampled == {i \in 0..n - 1 : i % settings.stride = 0}
  IN IF settings.cap = 0 THEN sampled
     ELSE {i \in sampled : Cardinality({j \in sampled : j < i}) < settings.cap}

-----------------------------------------------------------------------------
NoReader == [split |-> "train", left |-> {}, yielded |-> 0, passes |-> 0]

PartitionInit ==
  /\ frames = [e \in Episodes |-> 0]
  /\ settings = [chosen |-> FALSE]
  /\ catalog = [e \in Episodes |-> 0]
  /\ manifest = {}
  /\ reader = NoReader
  /\ partitionAt = "open"

\* The dataset and the profile of a training job.
OpenSource ==
  /\ partitionAt = "open"
  /\ frames' \in [Episodes -> 0..MaxFrames]
  /\ \E s \in Settings, r, q \in Ranks :
       settings' = [limit |-> s.limit, cap |-> s.cap, stride |-> s.stride, part |-> s.part,
                    whole |-> s.whole, over |-> s.over, select |-> r, split |-> q, chosen |-> TRUE]
  /\ partitionAt' = "catalog"
  /\ UNCHANGED <<catalog, manifest, reader>>

\* Empty episodes stay out of the catalog.
CatalogAndSplit ==
  /\ partitionAt = "catalog"
  /\ catalog' = frames
  /\ partitionAt' = "split"
  /\ UNCHANGED <<frames, settings, manifest, reader>>

Split ==
  /\ partitionAt = "split"
  /\ IF Splittable
     THEN partitionAt' = "ready" /\ manifest' = Manifest
     ELSE partitionAt' = "refused" /\ UNCHANGED manifest
  /\ UNCHANGED <<frames, settings, catalog, reader>>

\* The source is not locked: an episode may change, or its record be gone, after
\* the catalog pass.
SourceChanges ==
  /\ partitionAt = "ready"
  /\ reader.passes = 0
  /\ \E e \in Episodes, n \in 0..Gone :
       n # frames[e] /\ frames = catalog /\ frames' = [frames EXCEPT ![e] = n]
  /\ UNCHANGED <<settings, catalog, manifest, reader, partitionAt>>

BeginPass(split) ==
  /\ partitionAt = "ready"
  /\ reader.passes < MaxPasses
  /\ reader' = [split |-> split, left |-> {row \in manifest : row.split = split}, yielded |-> 0,
                passes |-> reader.passes + 1]
  /\ partitionAt' = "reading"
  /\ UNCHANGED <<frames, settings, catalog, manifest>>

\* One episode of the pass, in the source's order; a length other than counted
\* ends the job, a record that is gone is never met.
ReadEpisode ==
  /\ partitionAt = "reading"
  /\ \E row \in reader.left :
       LET found == frames[row.id]
           n == IF found = Gone THEN 0 ELSE Cardinality(Yielded(found))
       IN /\ reader' = [reader EXCEPT !.left = @ \ {row}, !.yielded = @ + n]
          /\ partitionAt' =
               IF found = Gone \/ (found > 0 /\ n = row.frames) THEN "reading" ELSE "refused"
  /\ UNCHANGED <<frames, settings, catalog, manifest>>

\* The training dataset starts over, the validation dataset ends.
EndPass ==
  /\ partitionAt = "reading"
  /\ reader.left = {}
  /\ partitionAt' = "ready"
  /\ UNCHANGED <<frames, settings, catalog, manifest, reader>>

PartitionNext ==
  \/ OpenSource \/ CatalogAndSplit \/ Split \/ SourceChanges \/ ReadEpisode \/ EndPass
  \/ \E split \in {"train", "validation"} : BeginPass(split)

PartitionSpec == PartitionInit /\ [][PartitionNext]_partitionVars

-----------------------------------------------------------------------------
(* Properties *)

\* No episode trains and validates, both splits have an episode of every group,
\* no group exceeds its limit, and at most the requested fraction (one episode
\* more for the rounding) is held out (training_data.py, build_episode_manifest).
SplitsAreSound ==
  manifest # {} =>
    LET rows(g, split) == {row \in manifest : GroupOf[row.id] = g /\ row.split = split}
    IN /\ \A a, b \in manifest : a.id = b.id => a = b
       /\ \A row \in manifest : row.frames > 0
       /\ \A g \in {GroupOf[e] : e \in Catalogued} :
            LET n == Cardinality(rows(g, "train")) + Cardinality(rows(g, "validation"))
                held == Cardinality(rows(g, "validation"))
            IN /\ rows(g, "train") # {} /\ rows(g, "validation") # {}
               /\ settings.limit > 0 => n <= settings.limit
               /\ (held - 1) * settings.whole <= n * settings.part
               /\ held * settings.whole >= n * settings.part \/ held = n - 1

\* A pass that ends yielded exactly the frames its dataset announces as its
\* length, also when episodes of the source changed, unless a record is gone, of
\* which nobody is told (training_data.py, raw_frames).
PassesYieldTheirLength ==
  partitionAt = "reading" /\ reader.left = {} =>
    \/ reader.yielded = Counts(reader.split)
    \/ \E row \in manifest : frames[row.id] = Gone /\ reader.yielded < Counts(reader.split)

\* What is split, counted and read of a dataset agrees (training_data.py).
PartitionHolds == SplitsAreSound /\ PassesYieldTheirLength
=============================================================================

--------------------------- MODULE PublicationSlot ---------------------------
(***************************************************************************)
(* What a publication path of a host-side store promises its readers       *)
(* (DATASETS.md, "immutable, verified inputs"): nothing is there, or one   *)
(* identity is, and it is the same one for ever; a reader that trusts only *)
(* manifests sees it complete.  DatasetStore implements this module.       *)
(***************************************************************************)
CONSTANT Identities

VARIABLES
  owner,   \* the identities whose content is at the path: none or one
  ready    \* whether a manifest announces it

slotVars == <<owner, ready>>

SlotInit == owner = {} /\ ready = FALSE

\* The directory appears whole under the path.
Place ==
  /\ owner = {}
  /\ \E i \in Identities : owner' = {i}
  /\ UNCHANGED ready

\* The manifest is the last file of a publication.
Announce ==
  /\ owner # {}
  /\ ~ready
  /\ ready' = TRUE
  /\ UNCHANGED owner

SlotNext == Place \/ Announce

SlotSpec == SlotInit /\ [][SlotNext]_slotVars
=============================================================================

------------------------- MODULE PublicationRegistry -------------------------
(***************************************************************************)
(* What a host-side store that publishes by content promises: an identity  *)
(* has one entry for ever once it has one, and what refers to an identity  *)
(* does so after its entry is there, once, and never to another one.  The  *)
(* checkpoint bundles of TrainingRun, referred to by sealed runs, and the  *)
(* builds of DerivedReports, referred to by dashboards, implement it.      *)
(***************************************************************************)
CONSTANTS Identities, Entries, Readers

VARIABLES
  published,   \* the entry of each identity that has one: <<identity, entry>>
  relied       \* who refers to which identity: <<reader, identity>>

registryVars == <<published, relied>>

RegistryInit == published = {} /\ relied = {}

\* The entry appears whole, by one rename.
PublishEntry ==
  /\ \E i \in Identities, e \in Entries :
       (\A p \in published : p[1] # i) /\ published' = published \union {<<i, e>>}
  /\ UNCHANGED relied

Rely ==
  /\ \E r \in Readers, i \in Identities :
       /\ \E p \in published : p[1] = i
       /\ \A p \in relied : p[1] # r
       /\ relied' = relied \union {<<r, i>>}
  /\ UNCHANGED published

RegistryNext == PublishEntry \/ Rely

RegistrySpec == RegistryInit /\ [][RegistryNext]_registryVars
=============================================================================

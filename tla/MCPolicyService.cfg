SPECIFICATION MCSpec
CONSTANTS
  alice = alice
  bob = bob
  Clients = {alice, bob}
  NoClient = NoClient
  FailingHooks = {"reset_episode", "end_episode"}
  MaxRequests <- LongSession
CONSTRAINT FewRequests
INVARIANTS
  ClientAndServiceAgree
  PredictionsMatchObservations
PROPERTIES
  ImplementsSession

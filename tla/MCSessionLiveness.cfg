SPECIFICATION MCHangingSpec
CONSTANTS
  alice = alice
  bob = bob
  Clients = {alice, bob}
  NoClient = NoClient
  FailingHooks = {"initialize", "reset_episode", "predict"}
  MaxRequests <- ShortSession
PROPERTIES
  SessionIsReleased
  HealthIsAnswered

SPECIFICATION Spec
CONSTANTS
  alice = alice
  bob = bob
  Raw = {"ACME", "acme", "beta", "no way"}
  Canon <- CanonOf
  Labels = {"default", "acme", "beta"}
  Default = "default"
  Accounts = {alice, bob}
  Payloads <- SomePayloads
  Nil = Nil
  MaxConfigures = 3
INVARIANTS RefusedChangesNothing RegistryMatchesConfig
PROPERTIES SurvivorsStayRegistered
CHECK_DEADLOCK FALSE

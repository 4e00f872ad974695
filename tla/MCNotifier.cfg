SPECIFICATION Spec
CONSTANTS
  Surfaces = {"slack", "teams"}
  Events <- TwoEvents
  Keys <- OneKey
  Key <- SharedKey
  MaxRetries = 3
  Window = 2
PROPERTIES
  ImplementsDelivery
  EveryEventArrives

SPECIFICATION Spec
CONSTANTS
  Size = 4
  producer = producer
  consumer = consumer
  v1 = v1
  v2 = v2
  zero = zero
  Zero = zero
  Value <- Values
  Actor <- Actors
  Disciplines <- SpscOrSolo
INVARIANTS SlotExclusive FreshChecks CountAccurate
PROPERTY Linearizable

CONSTANTS
  n1 = n1
  a1 = a1
  me = me
  v1 = v1
  Hubs <- TwoHubs
  Adc <- OneAdc
  Users <- JustMe
  Me = me
SPECIFICATION Spec
INVARIANTS
  ListedIsOnline

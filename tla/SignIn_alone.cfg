SPECIFICATION SteadySpec
CONSTANTS
  People = {alice, bob}
  Nobody = Nobody
  Tabs = {t1, t2}
  MaxLogins = 2
  MaxFaults = 0
SYMMETRY Symmetry
PROPERTY SomeoneInCharge

CONSTANTS
    Channels = {c1, c2, c3}
    MaxEvents = 2
SPECIFICATION PollerSpec
SYMMETRY Symmetry
INVARIANTS RegistrationConsistent NoFreedReached

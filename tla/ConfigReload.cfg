SPECIFICATION FairSpec
CONSTANTS
    home = home
    alice = alice
    bob = bob
    plain = plain
    tuned = tuned
    broken = broken
    Names = {home}
    Editors = {alice, bob}
    Default = plain
    Valid = {plain, tuned}
    Invalid = broken
    MaxVersion = 2
    MaxLinks = 1
INVARIANTS
    VersionStandsForConfig
PROPERTIES
    VersionsGrow
    ChangesArePickedUp
CHECK_DEADLOCK FALSE

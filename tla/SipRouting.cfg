SPECIFICATION Spec
CONSTANTS
    home = home
    shop = shop
    office = office
    Names = {home, shop, office}
    Tls = {office}
    Ports = {1, 2}
    Slots = 4
    MaxRuns = 2
    MaxFailures = 2
INVARIANTS
    RoutedToReceiver
    SlotForEveryAccount
SYMMETRY UdpSymmetry
CHECK_DEADLOCK FALSE

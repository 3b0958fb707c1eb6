SPECIFICATION FairSpec
CONSTANTS
    n1 = n1
    n2 = n2
    u1 = u1
    u2 = u2
    daemon = daemon
    gendb = gendb
    Unset = Unset
    Numbers <- MCNumbers
    Acis <- MCAcis
    Openers <- MCOpeners
    Daemon = daemon
    OldRows <- MCOldRows
    PhoneLists <- MCPhoneLists
    MaxKills = 1
    MaxRows = 4
PROPERTIES
    NoRowLost
    OpensAgain
    ContactsArrive

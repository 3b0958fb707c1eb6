SPECIFICATION Spec
CONSTANTS
    p1 = p1
    p2 = p2
    a1 = a1
    a2 = a2
    n1 = n1
    None = None
    Procs <- MCProcs
    Names <- MCNames
    Numbers <- MCNumbers
    MaxCreds = 2
    MaxGens = 2
    Overlap = FALSE
SYMMETRY MCSymmetry
INVARIANTS
    CredentialKept
    KeysMatchServer
    NumberOwnedOnce
    AcceptedIsReturned
PROPERTY
    NoLiveAccountWiped

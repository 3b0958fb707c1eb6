SPECIFICATION FairSpec
CONSTANTS
    phone = phone
    tablet = tablet
    laptop = laptop
    Devices <- MCDevices
    MaxQueue = 2
PROPERTIES
    NoRepeatedFailure
    MissingDeviceIsFound

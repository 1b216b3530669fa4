SPECIFICATION Spec
CONSTANTS
    Uuid <- TwoDevices
    MaxBeacon = 2
PROPERTIES
    ListingComplete

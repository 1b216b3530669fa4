SPECIFICATION RefreshSpec
CONSTANTS
    Uuid <- TwoDevices
    MaxBeacon = 2
    MaxBlocked = 1
PROPERTIES
    RefreshKeepsListed

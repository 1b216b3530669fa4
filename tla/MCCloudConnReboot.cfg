SPECIFICATION FairSpec
CONSTANTS
    ConnectMax = 2
PROPERTIES
    AnnouncedReboot

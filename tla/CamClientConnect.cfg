SPECIFICATION Spec
CONSTANTS
    MaxInbox = 1
    MaxBacklog = 1
    MaxPort = 1
PROPERTIES
    ConnectButtonConnects

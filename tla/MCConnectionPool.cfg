SPECIFICATION Spec
CONSTANTS
    announce = announce
    command = command
    relay1 = relay1
    relay2 = relay2
    tokens = tokens
    sequence = sequence
    Commands = {command}
    Relays = {relay1, relay2}
    Announcements = {announce}
    Reads = {tokens, sequence}
    MaxConnections = 3
PROPERTY WaitersWake
CHECK_DEADLOCK FALSE

CONSTANTS
    a = a
    b = b
    c = c
    Hosts = {a, b, c}
    None = None
    Firsts = {a}
    OtherTags = {b}
    Modes = {"PRIMARY", "SECONDARY_PREFERRED"}
    TagChoices = {FALSE}
    Calls = {"find", "command", "write", "read_preference"}
    MaxFaults = 1
    MaxRounds = 2
    Retries = 2
SPECIFICATION FairSpec
PROPERTIES CallEnds ReadsRecover

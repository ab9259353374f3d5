CONSTANTS
    a = a
    b = b
    c = c
    Hosts = {a, b, c}
    None = None
    Firsts = {a, b, c}
    OtherTags = {b}
    Modes = {"PRIMARY", "PRIMARY_PREFERRED", "SECONDARY", "SECONDARY_PREFERRED"}
    TagChoices = {TRUE, FALSE}
    Calls = {"find", "read_preference"}
    MaxFaults = 2
    MaxRounds = 2
    Retries = 2
SPECIFICATION Spec
INVARIANTS TypeOK NoMemberMeansFailed PreferenceHonoured
PROPERTIES MasterConfirmed
SYMMETRY Alike

CONSTANTS
    Pids = {1, 2, 257}
    Threads = {t1, t2}
    Uses <- SomeUses
    Writers = {t1}
    PidSpace = 256
    SeqSpace = 2
    Seeds = {255}
    IdSpace = 8
    FirstIds = {1}
    MaxTime = 2
    MaxOids = 4
    MaxQueries = 3
    Word = 512
    Messages <- SomeMessages
    Pieces = {0, 1, 7, 55, 56, 64, 65, 140}
SPECIFICATION MCSpec
INVARIANTS OidsUnique OidTextFaithful AwaitsOwnReply DigestOfWhole
CHECK_DEADLOCK FALSE

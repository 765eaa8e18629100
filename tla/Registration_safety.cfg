CONSTANTS
    Servers = {s1, s2}
    BadWord = BadWord
    Path = Path
    Url = Url
    NoUrl = NoUrl
    None = None
    MaxStarts = 2
    Profiles <- MCProfiles
    Versions <- MCVersions
SPECIFICATION Spec
INVARIANTS TypeOK EntriesAreWhole ChecksMatch ToldIsTrue
CHECK_DEADLOCK FALSE

SPECIFICATION Spec
CONSTANTS
    Tags = {1, 2}
    Values <- MCValues
    Size = 13
    Sector = 16
    MaxCrashes = 1
    Absent = Absent
    Lost = Lost
INVARIANT PutIsWritten

SPECIFICATION Spec
CONSTANTS
    Tags = {1, 2}
    Values <- MCValues
    Size = 13
    Sector = 16
    MaxCrashes = 2
    Absent = Absent
    Lost = Lost
INVARIANTS TypeOK EarlierTagsSurvive NoMixture
PROPERTY ImplementsStore

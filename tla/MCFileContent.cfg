SPECIFICATION LiveSpec
CONSTANTS
    Uploads <- MCUploads
    Contents <- MCContents
    Declared <- MCDeclared
    Original = "b"
    Handlers = {1, 2}
    Nothing = Nothing
    MaxPuts = 2
    MaxRequests = 2
    MaxEdits = 1
    Saved = {"a"}
CHECK_DEADLOCK FALSE
INVARIANTS Authentic OneVersionEach OwnerKept
PROPERTIES SweepSpares OnlyProposalsCollide 

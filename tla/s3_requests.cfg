SPECIFICATION FairSpec
CONSTANTS
    Keys = {1, 2, 3, 4}
    GroupOf <- MCGroupOf
    Uploads <- MCUploads
    Sizes = {0, 2}
    DefaultMax = 3
    MaxAsked = 3
    MaxChanges = 1
INVARIANTS S3TypeOK  ListingComplete RangeAnswered 
PROPERTY SessionEnds
CHECK_DEADLOCK TRUE

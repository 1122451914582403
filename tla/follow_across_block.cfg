\* Two requests at a time, of two users who follow and block each other.
CONSTANTS
    Users = {1, 2}
    Sessions = {1, 2}
    Asked <- BothWays
    Viewed = {}
SPECIFICATION RelSpec
INVARIANT NoFollowAcrossBlock

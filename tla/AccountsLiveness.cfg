SPECIFICATION FairSpec
CONSTANTS
    Emails = {e1}
    NoEmail = NoEmail
    Senders = {s1, s2}
    Requests = {r1}
    MaxUsers = 2
    MaxTokens = 3
    KeyIds = {}
    MaxApiKeysPerUser = 1
    MaxFaults = 1
    MaxCrashes = 0
INVARIANT LinksBounded
PROPERTY LinkIsSent
CHECK_DEADLOCK FALSE

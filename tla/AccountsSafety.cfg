SPECIFICATION Spec
CONSTANTS
    Emails = {e1, e2}
    NoEmail = NoEmail
    Senders = {s1, s2}
    Requests = {r1, r2}
    MaxUsers = 2
    MaxTokens = 2
    KeyIds = {k1, k2}
    MaxApiKeysPerUser = 1
    MaxFaults = 1
    MaxCrashes = 1
SYMMETRY Symmetry
INVARIANTS VerifiedByMail JwtOfVerified MailedIsStored RedeemedOnce PasswordByMail KeyOvershoot
PROPERTY NoTokenAfterDeletion
CHECK_DEADLOCK FALSE

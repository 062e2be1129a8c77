\* The worker beside the server: its volume, the CA and both processes may be replaced, an operator may revoke it.
CONSTANTS
    w1 = w1
    w2 = w2
    Null = Null
    Workers = {w1}
    Embedded = {w1}
    Pinned = {w1}
    AutoApproved <- VolumeOfFirst
    MaxKeys = 1
    MaxCa = 1
    MaxRestarts = 3
    MaxLost = 1
    MaxInFlight = 2
    Revocable = {w1}
SPECIFICATION LiveSpec
INVARIANTS TypeOK CertMatchesKey AnswersHoldTogether
PROPERTIES EmbeddedKeepsItsRow EnrollmentCompletes

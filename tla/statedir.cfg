\* Three installations of two policies beside a server and a submission.
SPECIFICATION Spec
CONSTANTS
    Installers = {i1, i2, i3}
    Servers = {server}
    Submitters = {s1}
    Policies = {p, q}
    Default = Default
    NoFile = NoFile
    NoPolicy = NoPolicy
    MaxDeaths = 1
    MaxCrowd = 2
INVARIANTS
    TypeOK
    InForceIsWhole
    JobsKeepTheirPolicy
    ServerHoldsTheToken
SYMMETRY Symmetry
CHECK_DEADLOCK FALSE

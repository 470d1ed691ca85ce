SPECIFICATION Spec
CONSTANTS
    Names <- MCNames
    Archives <- MCArchives
    FormatVersion = 1
    MaxMembers = 6
    MaxLinkHops = 2
    StepsBase = 2
    StepsPerMember = 2
    Required <- MCRequired
INVARIANTS AcceptsOnlyBackups RefusesWithReason
PROPERTY ValidationEnds
CHECK_DEADLOCK FALSE

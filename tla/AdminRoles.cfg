SPECIFICATION RolesSpec
CONSTANTS
    Admins = {a, b, c}
    CommandHandlers = {h1, h2}
    NoOne = NoOne
INVARIANTS
    OwnersLostOnlyByOverlap

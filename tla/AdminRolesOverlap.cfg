SPECIFICATION RolesSpec
CONSTANTS
    Admins = {a, b}
    CommandHandlers = {h1, h2}
    NoOne = NoOne
INVARIANTS
    SomeOwner

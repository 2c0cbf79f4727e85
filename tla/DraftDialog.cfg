SPECIFICATION Spec
CONSTANTS
    Texts <- SmallTexts
    NoText = NoText
    Taps = {t1, t2}
    NoTap = NoTap
    Handlers = {h1, h2}
    MaxOffset = 1
    MaxTime = 1
SYMMETRY Symmetry
INVARIANTS
    TypeOK
    ConfirmationHasText
    PublishedAsOffered
    PublishedAreSound

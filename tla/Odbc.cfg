SPECIFICATION Spec
CONSTANTS
    min = min
    longer = longer
    longest = longest
    beginning = beginning
    pw = pw
    longpw = longpw
    pwbeginning = pwbeginning
    Names = {min, longer, longest}
    Passes = {pw, longpw}
    Long = {longer, longest, longpw}
    Start <- MCStart
    MaxFaults = 1
    MaxRows = 2
SYMMETRY MCSymmetry
INVARIANTS
    LoginTruthful
    SignedUpFound
PROPERTY StaysExecutable
CHECK_DEADLOCK FALSE

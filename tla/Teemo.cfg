CONSTANTS
    here = here
    there = there
    north = north
    south = south
    unset = unset
    me = me
    him = him
    Places = {here, there}
    Facings = {north, south}
    Shooters = {me, him}
    Me = me
    initialHp = 3
    MaxFlight = 2
SPECIFICATION Spec
SYMMETRY MCSymmetry
INVARIANTS
    LastWordIsHere
    KeysFollowed
    CountsAgree

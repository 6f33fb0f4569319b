CONSTANTS
    idleDelayTime = 3
    attackDelayTime = 2
    damageDelayTime = 2
    attackRange = 2
    Deltas = {1, 2}
    Distances = {1, 2, 3}
    Height = 1
    Bottom <- UnderGround
    MaxHits = 5
SPECIFICATION Spec
INVARIANTS
    DeadIffNoHp
    AnimFollows
    MundoPaced
PROPERTIES
    StunLasts
    DeadRemoved

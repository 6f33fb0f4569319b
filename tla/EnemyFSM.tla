-------------------------------- MODULE EnemyFSM --------------------------------
(***************************************************************************)
(* The behaviour of the two kinds of enemies on a client: UEnemyFSM, which  *)
(* the player's shots hit and which drives an animation, and UDrMundoFSM,   *)
(* which nothing in the repository hits (its OnDamageProcess has no caller, *)
(* so that it is never in Damage or Die).                                   *)
(*                                                                         *)
(* A tick is one call of TickComponent.  Frames have different lengths, the *)
(* player is at some distance, and shots fall between any two ticks.  Where *)
(* an enemy walks and what it plays is left out.  Enemies share nothing but *)
(* the player they look at: one of each kind stands for all.                *)
(***************************************************************************)
EXTENDS Integers

CONSTANTS
    idleDelayTime, attackDelayTime, damageDelayTime, attackRange,
    Deltas,         \* lengths of a frame
    Distances,      \* from an enemy to the player
    Height,         \* where an enemy stands
    Bottom,         \* a dead enemy below it is destroyed
    MaxHits         \* bound: hits an enemy takes

ASSUME EnemyAssumption ==
    /\ idleDelayTime \in Nat /\ attackDelayTime \in Nat /\ damageDelayTime \in Nat
    /\ attackRange \in Int
    /\ Deltas \subseteq Nat \ {0}
    /\ Distances \subseteq Int
    /\ Height \in Int /\ Bottom \in Int
    /\ MaxHits \in Nat

VARIABLES
    mState, currentTime, hp, height,
    animState, bAttackPlay, bDieDone,
    mundoState, mundoTime,
    sinceHit,       \* ghost: time since the last hit on the enemy
    sinceAttack,    \* ghost: time since DrMundo's last attack, cut at attackDelayTime + 1
    gap             \* ghost: what it was at that attack

anim == <<animState, bAttackPlay, bDieDone>>
enemy == <<mState, currentTime, hp, height, anim, sinceHit>>
mundo == <<mundoState, mundoTime, sinceAttack, gap>>
vars == <<enemy, mundo>>

EEnemyState == {"Idle", "Move", "Attack", "Damage", "Die"}

Init ==
    /\ mState = "none" /\ currentTime = 0 /\ hp = 3 /\ height = Height
    /\ animState = "Idle" /\ bAttackPlay = FALSE /\ bDieDone = FALSE
    /\ mundoState = "Idle" /\ mundoTime = 0
    /\ sinceHit = 0 /\ sinceAttack = attackDelayTime + 1 /\ gap = attackDelayTime + 1

-----------------------------------------------------------------------------
(* UEnemyFSM *)

\* ATeemo::SpawnCharacter.
SpawnCharacter ==
    /\ mState = "none" /\ mState' = "Idle"
    /\ UNCHANGED <<currentTime, hp, height, anim, sinceHit, mundo>>

IdleState(dt) ==
    /\ mState = "Idle"
    /\ IF currentTime + dt > idleDelayTime
         THEN mState' = "Move" /\ currentTime' = 0 /\ animState' = "Move"
         ELSE currentTime' = currentTime + dt /\ UNCHANGED <<mState, animState>>
    /\ UNCHANGED <<hp, height, bAttackPlay, bDieDone>>

\* Whether it walks to the player or anywhere else depends on the path finder.
MoveState(d) ==
    /\ mState = "Move"
    /\ IF d < attackRange
         THEN /\ mState' = "Attack" /\ animState' = "Attack" /\ bAttackPlay' = TRUE
              /\ currentTime' = attackDelayTime
         ELSE UNCHANGED <<mState, currentTime, animState, bAttackPlay>>
    /\ UNCHANGED <<hp, height, bDieDone>>

\* Leaving keeps the time.
AttackState(dt, d) ==
    /\ mState = "Attack"
    /\ IF currentTime + dt > attackDelayTime
         THEN currentTime' = 0 /\ bAttackPlay' = TRUE
         ELSE currentTime' = currentTime + dt /\ UNCHANGED bAttackPlay
    /\ IF d > attackRange
         THEN mState' = "Move" /\ animState' = "Move"
         ELSE UNCHANGED <<mState, animState>>
    /\ UNCHANGED <<hp, height, bDieDone>>

\* Mutant: the animation keeps what it showed before the hit.
DamageStateNoSync(dt) ==
    /\ mState = "Damage"
    /\ IF currentTime + dt > damageDelayTime
         THEN mState' = "Idle" /\ currentTime' = 0
         ELSE currentTime' = currentTime + dt /\ UNCHANGED mState
    /\ UNCHANGED <<hp, height, anim>>

DamageState(dt) ==
    /\ mState = "Damage"
    /\ IF currentTime + dt > damageDelayTime
         THEN mState' = "Idle" /\ currentTime' = 0 /\ animState' = "Idle"
         ELSE currentTime' = currentTime + dt /\ UNCHANGED <<mState, animState>>
    /\ UNCHANGED <<hp, height, bAttackPlay, bDieDone>>

\* Mutant: the test of bDieDone is the wrong way round.
DieStateReversed(dt) ==
    /\ mState = "Die"
    /\ IF ~bDieDone
         THEN /\ height' = height - dt
              /\ mState' = IF height' < Bottom THEN "gone" ELSE "Die"
              /\ animState' = "Die"
         ELSE UNCHANGED <<mState, height, animState>>
    /\ UNCHANGED <<currentTime, hp, bAttackPlay, bDieDone>>

\* Nothing until the animation is over; then down, and gone below the bottom.
DieState(dt) ==
    /\ mState = "Die"
    /\ IF bDieDone
         THEN /\ height' = height - dt
              /\ mState' = IF height' < Bottom THEN "gone" ELSE "Die"
              /\ animState' = "Die"
         ELSE UNCHANGED <<mState, height, animState>>
    /\ UNCHANGED <<currentTime, hp, bAttackPlay, bDieDone>>

TickComponent ==
    /\ \E dt \in Deltas :
         /\ \/ IdleState(dt)
            \/ \E d \in Distances : MoveState(d) \/ AttackState(dt, d)
            \/ DamageState(dt)
            \/ DieState(dt)
         /\ sinceHit' = IF mState = "Damage" THEN sinceHit + dt ELSE 0
    /\ UNCHANGED mundo

CanBeHit == mState \in EEnemyState /\ hp > 3 - MaxHits

\* Mutant: the timer goes on from whatever state was hit, as in UDrMundoFSM.
OnDamageProcessKeepsTime ==
    /\ CanBeHit
    /\ hp' = hp - 1
    /\ mState' = IF hp' > 0 THEN "Damage" ELSE "Die"
    /\ sinceHit' = 0
    /\ UNCHANGED <<currentTime, height, anim, mundo>>

\* Mutant: a hit leaves an enemy stunned unless it takes the last hit point.
OnDamageProcessAtZero ==
    /\ CanBeHit
    /\ hp' = hp - 1
    /\ mState' = IF hp' # 0 THEN "Damage" ELSE "Die"
    /\ currentTime' = 0
    /\ sinceHit' = 0
    /\ UNCHANGED <<height, anim, mundo>>

\* A shot of the player hits (InputFire).  The mesh of a dead enemy can still be hit: only
\* its capsule lets a shot through.
OnDamageProcess ==
    /\ CanBeHit
    /\ hp' = hp - 1
    /\ \/ hp' > 0 /\ mState' = "Damage" /\ currentTime' = 0
       \/ hp' <= 0 /\ mState' = "Die" /\ UNCHANGED currentTime
    /\ sinceHit' = 0
    /\ UNCHANGED <<height, anim, mundo>>

\* The animation blueprint, at the end of an attack and of the death.
OnEndAttakAnimation ==
    /\ mState \in EEnemyState
    /\ bAttackPlay /\ bAttackPlay' = FALSE
    /\ UNCHANGED <<mState, currentTime, hp, height, animState, bDieDone, sinceHit, mundo>>

DieDone ==
    /\ mState = "Die"
    /\ ~bDieDone /\ bDieDone' = TRUE
    /\ UNCHANGED <<mState, currentTime, hp, height, animState, bAttackPlay, sinceHit, mundo>>

-----------------------------------------------------------------------------
(* UDrMundoFSM *)

MundoIdle(dt) ==
    /\ mundoState = "Idle"
    /\ IF mundoTime + dt > idleDelayTime
         THEN mundoState' = "Move" /\ mundoTime' = 0
         ELSE mundoTime' = mundoTime + dt /\ UNCHANGED mundoState

\* Mutant: the wait is over when the player comes near, as in UEnemyFSM.
MundoMoveAtOnce(d) ==
    /\ mundoState = "Move"
    /\ mundoState' = IF d < attackRange THEN "Attack" ELSE "Move"
    /\ mundoTime' = IF d < attackRange THEN attackDelayTime ELSE mundoTime

MundoMove(d) ==
    /\ mundoState = "Move"
    /\ mundoState' = IF d < attackRange THEN "Attack" ELSE "Move"
    /\ UNCHANGED mundoTime

MundoAttacks(dt) == mundoState = "Attack" /\ mundoTime + dt > attackDelayTime

MundoAttack(dt, d) ==
    /\ mundoState = "Attack"
    /\ mundoTime' = IF MundoAttacks(dt) THEN 0 ELSE mundoTime + dt
    /\ mundoState' = IF d > attackRange THEN "Move" ELSE "Attack"

Cut(t) == IF t > attackDelayTime THEN attackDelayTime + 1 ELSE t

MundoTick ==
    /\ \E dt \in Deltas :
         /\ \/ MundoIdle(dt)
            \/ \E d \in Distances : MundoMove(d) \/ MundoAttack(dt, d)
         /\ IF MundoAttacks(dt)
              THEN sinceAttack' = 0 /\ gap' = Cut(sinceAttack + dt)
              ELSE sinceAttack' = Cut(sinceAttack + dt) /\ UNCHANGED gap
    /\ UNCHANGED enemy

-----------------------------------------------------------------------------

Next ==
    \/ SpawnCharacter \/ TickComponent \/ OnDamageProcess \/ OnEndAttakAnimation \/ DieDone
    \/ MundoTick

\* Every component ticks in every frame and an animation that has begun ends.
Fairness == WF_vars(TickComponent) /\ WF_vars(DieDone)

Spec == Init /\ [][Next]_vars /\ Fairness

-----------------------------------------------------------------------------
(* Properties *)

TypeOK ==
    /\ mState \in EEnemyState \cup {"none", "gone"}
    /\ currentTime \in Nat /\ sinceHit \in Nat
    /\ hp \in Int /\ hp <= 3
    /\ height \in Int
    /\ animState \in EEnemyState \ {"Damage"}
    /\ bAttackPlay \in BOOLEAN /\ bDieDone \in BOOLEAN
    /\ mundoState \in {"Idle", "Move", "Attack"}
    /\ mundoTime \in Nat /\ sinceAttack \in 0 .. attackDelayTime + 1
    /\ gap \in 0 .. attackDelayTime + 1

\* An enemy is dying or gone exactly when its hit points are used up, however often it is
\* shot while it dies (OnDamageProcess counts on below zero).
DeadIffNoHp == mState \in {"Die", "gone"} <=> hp <= 0

\* The animation is the one of the state, except from a hit until the stun is over (Damage is
\* a montage of its own) and until the death animation is done.
AnimFollows == mState \in {"Idle", "Move", "Attack"} => animState = mState

\* A stunned enemy stays so for more than damageDelayTime after the last hit it took, in
\* whatever state and however far into its delay that hit found it.
StunLasts == [][mState = "Damage" /\ mState' = "Idle" => sinceHit' > damageDelayTime]_vars

\* Between two attacks of DrMundo lies more than attackDelayTime, also when the player steps
\* out of its range and back.
MundoPaced == gap > attackDelayTime

\* A dead enemy is taken out of the level.
DeadRemoved == mState = "Die" ~> mState = "gone"

=============================================================================

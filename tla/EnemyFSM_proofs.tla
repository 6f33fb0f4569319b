----------------------------- MODULE EnemyFSM_proofs -----------------------------
(* Theorems about EnemyFSM, with their proofs. *)
EXTENDS EnemyFSM, TLAPS

EnemyTypes ==
    /\ mState \in EEnemyState \cup {"none", "gone"}
    /\ currentTime \in Nat /\ sinceHit \in Nat
    /\ hp \in Int /\ hp <= 3
    /\ height \in Int
    /\ animState \in EEnemyState \ {"Damage"}
    /\ bAttackPlay \in BOOLEAN /\ bDieDone \in BOOLEAN

MundoTypes ==
    /\ mundoState \in {"Idle", "Move", "Attack"}
    /\ mundoTime \in Nat /\ sinceAttack \in 0 .. attackDelayTime + 1
    /\ gap \in 0 .. attackDelayTime + 1

\* The timer of a stunned enemy started at the last hit.
TimerSinceHit == mState = "Damage" => currentTime = sinceHit

\* DrMundo's timer runs only while it attacks and starts at its last attack.
TimerSinceAttack == mundoState \in {"Move", "Attack"} => mundoTime <= sinceAttack

\* What is not there yet shows what it will be in.
ShowsIdleFirst == mState = "none" => animState = "Idle"

EnemyInv == EnemyTypes /\ DeadIffNoHp /\ AnimFollows /\ ShowsIdleFirst /\ TimerSinceHit
MundoInv == MundoTypes /\ MundoPaced /\ TimerSinceAttack
IInv == EnemyInv /\ MundoInv

LEMMA TypeParts == TypeOK <=> EnemyTypes /\ MundoTypes
BY DEF TypeOK, EnemyTypes, MundoTypes

LEMMA InitIInv == Init => IInv
<1> SUFFICES ASSUME Init PROVE IInv
  OBVIOUS
<1>1. EnemyInv
  <2>1. EnemyTypes
    <3>1. bAttackPlay \in BOOLEAN /\ bDieDone \in BOOLEAN
      BY DEF Init
    <3>2. mState = "none" /\ currentTime = 0 /\ hp = 3 /\ height = Height /\ animState = "Idle" /\ sinceHit = 0
      BY DEF Init
    <3> QED
      BY <3>1, <3>2, EnemyAssumption DEF EnemyTypes, EEnemyState
  <2>2. DeadIffNoHp
    <3>1. mState = "none" /\ hp = 3
      BY DEF Init
    <3> QED
      BY <3>1 DEF DeadIffNoHp
  <2>3. AnimFollows /\ ShowsIdleFirst /\ TimerSinceHit
    BY DEF Init, AnimFollows, ShowsIdleFirst, TimerSinceHit
  <2> QED
    BY <2>1, <2>2, <2>3 DEF EnemyInv
<1>2. MundoInv
  BY EnemyAssumption DEF Init, MundoInv, MundoTypes, TimerSinceAttack, MundoPaced
<1> QED
  BY <1>1, <1>2 DEF IInv

\* One tick of an enemy.
LEMMA TickKeepsEnemy == EnemyInv /\ TickComponent => EnemyInv'
<1> SUFFICES ASSUME EnemyInv, TickComponent PROVE EnemyInv'
  OBVIOUS
<1> USE EnemyAssumption
<1> USE DEF EnemyInv, EnemyTypes, DeadIffNoHp, AnimFollows, ShowsIdleFirst, TimerSinceHit, EEnemyState
<1>1. PICK dt \in Deltas :
        /\ \/ IdleState(dt)
           \/ \E d \in Distances : MoveState(d) \/ AttackState(dt, d)
           \/ DamageState(dt)
           \/ DieState(dt)
        /\ sinceHit' = IF mState = "Damage" THEN sinceHit + dt ELSE 0
  BY DEF TickComponent
<1>2. dt \in Nat /\ sinceHit' \in Nat
  BY <1>1
<1>3. CASE IdleState(dt)
  BY <1>1, <1>2, <1>3 DEF IdleState
<1>4. CASE \E d \in Distances : MoveState(d) \/ AttackState(dt, d)
  <2>1. PICK d \in Distances : MoveState(d) \/ AttackState(dt, d)
    BY <1>4
  <2>2. CASE MoveState(d)
    BY <1>1, <1>2, <2>2 DEF MoveState
  <2>3. CASE AttackState(dt, d)
    <3>1. mState = "Attack" /\ currentTime' \in Nat /\ bAttackPlay' \in BOOLEAN
      <4>1. mState = "Attack" /\ (bAttackPlay' = TRUE \/ bAttackPlay' = bAttackPlay)
        BY <2>3 DEF AttackState
      <4>2. currentTime' = 0 \/ currentTime' = currentTime + dt
        BY <2>3 DEF AttackState
      <4>3. currentTime' \in Nat
        BY <1>2, <4>2
      <4>4. bAttackPlay' \in BOOLEAN
        BY <4>1
      <4> QED
        BY <4>1, <4>3, <4>4
    <3>2. \/ mState' = "Move" /\ animState' = "Move"
          \/ mState' = mState /\ animState' = animState
      BY <2>3 DEF AttackState
    <3>3. UNCHANGED <<hp, height, bDieDone>>
      BY <2>3 DEF AttackState
    <3>4. mState' \in {"Attack", "Move"} /\ animState' = mState'
      BY <3>1, <3>2
    <3>5. sinceHit' \in Nat /\ hp > 0 /\ hp' = hp /\ height' = height /\ bDieDone' = bDieDone
      BY <1>2, <3>1, <3>3
    <3> QED
      BY <3>1, <3>4, <3>5
  <2> QED
    BY <2>1, <2>2, <2>3
<1>5. CASE DamageState(dt)
  BY <1>1, <1>2, <1>5 DEF DamageState
<1>6. CASE DieState(dt)
  <2>1. mState = "Die" /\ mState' \in {"Die", "gone"} /\ height' \in Int
    BY <1>2, <1>6 DEF DieState
  <2> QED
    BY <1>1, <1>2, <1>6, <2>1 DEF DieState
<1> QED
  BY <1>1, <1>3, <1>4, <1>5, <1>6

LEMMA HitKeepsEnemy == EnemyInv /\ OnDamageProcess => EnemyInv'
BY DEF EnemyInv, EnemyTypes, DeadIffNoHp, AnimFollows, ShowsIdleFirst, TimerSinceHit, EEnemyState,
       OnDamageProcess, CanBeHit, anim, mundo

LEMMA OthersKeepEnemy ==
    EnemyInv /\ (SpawnCharacter \/ OnEndAttakAnimation \/ DieDone \/ UNCHANGED enemy) => EnemyInv'
<1> USE DEF EnemyInv, EnemyTypes, DeadIffNoHp, AnimFollows, ShowsIdleFirst, TimerSinceHit, EEnemyState, anim
<1>1. EnemyInv /\ SpawnCharacter => EnemyInv'
  BY DEF SpawnCharacter
<1>2. EnemyInv /\ OnEndAttakAnimation => EnemyInv'
  BY DEF OnEndAttakAnimation
<1>3. EnemyInv /\ DieDone => EnemyInv'
  BY DEF DieDone
<1>4. EnemyInv /\ UNCHANGED enemy => EnemyInv'
  BY DEF enemy
<1> QED
  BY <1>1, <1>2, <1>3, <1>4

LEMMA TickKeepsMundo == MundoInv /\ MundoTick => MundoInv'
<1> SUFFICES ASSUME MundoInv, MundoTick PROVE MundoInv'
  OBVIOUS
<1> USE EnemyAssumption
<1> USE DEF MundoInv, MundoTypes, MundoPaced, TimerSinceAttack
<1>1. PICK dt \in Deltas :
        /\ \/ MundoIdle(dt)
           \/ \E d \in Distances : MundoMove(d) \/ MundoAttack(dt, d)
        /\ IF MundoAttacks(dt)
             THEN sinceAttack' = 0 /\ gap' = Cut(sinceAttack + dt)
             ELSE sinceAttack' = Cut(sinceAttack + dt) /\ UNCHANGED gap
  BY DEF MundoTick
<1>2. dt \in Nat
  BY <1>1
<1>3. sinceAttack' \in 0 .. attackDelayTime + 1 /\ gap' \in 0 .. attackDelayTime + 1
  BY <1>1, <1>2 DEF Cut
<1>4. CASE MundoIdle(dt)
  BY <1>1, <1>2, <1>3, <1>4 DEF MundoIdle, MundoAttacks
<1>5. CASE \E d \in Distances : MundoMove(d) \/ MundoAttack(dt, d)
  <2>1. PICK d \in Distances : MundoMove(d) \/ MundoAttack(dt, d)
    BY <1>5
  <2>2. CASE MundoMove(d)
    BY <1>1, <1>2, <1>3, <2>2 DEF MundoMove, MundoAttacks, Cut
  <2>3. CASE MundoAttack(dt, d)
    BY <1>1, <1>2, <1>3, <2>3 DEF MundoAttack, MundoAttacks, Cut
  <2> QED
    BY <2>1, <2>2, <2>3
<1> QED
  BY <1>1, <1>4, <1>5

LEMMA OthersKeepMundo == MundoInv /\ UNCHANGED mundo => MundoInv'
BY DEF MundoInv, MundoTypes, MundoPaced, TimerSinceAttack, mundo

LEMMA NextIInv == IInv /\ [Next]_vars => IInv'
<1> SUFFICES ASSUME IInv, [Next]_vars PROVE IInv'
  OBVIOUS
<1>1. CASE TickComponent
  BY <1>1, TickKeepsEnemy, OthersKeepMundo DEF IInv, TickComponent
<1>2. CASE OnDamageProcess
  BY <1>2, HitKeepsEnemy, OthersKeepMundo DEF IInv, OnDamageProcess, mundo
<1>3. CASE SpawnCharacter \/ OnEndAttakAnimation \/ DieDone
  BY <1>3, OthersKeepEnemy, OthersKeepMundo DEF IInv, SpawnCharacter, OnEndAttakAnimation, DieDone, mundo
<1>4. CASE MundoTick
  BY <1>4, TickKeepsMundo, OthersKeepEnemy DEF IInv, MundoTick
<1>5. CASE UNCHANGED vars
  BY <1>5, OthersKeepEnemy, OthersKeepMundo DEF IInv, vars
<1> QED
  BY <1>1, <1>2, <1>3, <1>4, <1>5 DEF Next

\* What holds of the two kinds of enemies in every state (IInv).
THEOREM EnemyInvariance == Spec => []IInv
<1>1. Init => IInv
  BY InitIInv
<1>2. IInv /\ [Next]_vars => IInv'
  BY NextIInv
<1> QED
  BY <1>1, <1>2, PTL DEF Spec

\* TypeOK: states, timers and hit points keep their types for all delays and frame lengths.
THEOREM EnemyTypeCorrect == Spec => []TypeOK
<1>1. IInv => TypeOK
  BY TypeParts DEF IInv, EnemyInv, MundoInv
<1> QED
  BY <1>1, EnemyInvariance, PTL

\* DeadIffNoHp: no number of hits brings an enemy back that has no hit points.
THEOREM DeadStayDead == Spec => []DeadIffNoHp
<1>1. IInv => DeadIffNoHp
  BY DEF IInv, EnemyInv
<1> QED
  BY <1>1, EnemyInvariance, PTL

\* AnimFollows: whatever a hit interrupted, an enemy that idles, walks or attacks looks so.
THEOREM AnimationFollows == Spec => []AnimFollows
<1>1. IInv => AnimFollows
  BY DEF IInv, EnemyInv
<1> QED
  BY <1>1, EnemyInvariance, PTL

\* MundoPaced: for all delays and frame lengths two attacks of DrMundo are more than
\* attackDelayTime apart.
THEOREM MundoKeepsPace == Spec => []MundoPaced
<1>1. IInv => MundoPaced
  BY DEF IInv, MundoInv
<1> QED
  BY <1>1, EnemyInvariance, PTL

LEMMA StunStep ==
    IInv /\ [Next]_vars => [mState = "Damage" /\ mState' = "Idle" => sinceHit' > damageDelayTime]_vars
<1> SUFFICES ASSUME IInv, Next, mState = "Damage", mState' = "Idle"
             PROVE  sinceHit' > damageDelayTime
  OBVIOUS
<1>1. CASE TickComponent
  <2>1. PICK dt \in Deltas :
          /\ \/ IdleState(dt)
             \/ \E d \in Distances : MoveState(d) \/ AttackState(dt, d)
             \/ DamageState(dt)
             \/ DieState(dt)
          /\ sinceHit' = IF mState = "Damage" THEN sinceHit + dt ELSE 0
    BY <1>1 DEF TickComponent
  <2>2. DamageState(dt)
    BY <2>1 DEF IdleState, MoveState, AttackState, DieState
  <2>3. currentTime + dt > damageDelayTime
    BY <2>2 DEF DamageState
  <2>4. currentTime = sinceHit
    BY DEF IInv, EnemyInv, TimerSinceHit
  <2> QED
    BY <2>1, <2>3, <2>4
<1>2. CASE OnDamageProcess
  BY <1>2 DEF OnDamageProcess
<1>3. CASE SpawnCharacter \/ OnEndAttakAnimation \/ DieDone
  BY <1>3 DEF SpawnCharacter, OnEndAttakAnimation, DieDone
<1>4. CASE MundoTick
  BY <1>4 DEF MundoTick, enemy
<1> QED
  BY <1>1, <1>2, <1>3, <1>4 DEF Next

\* StunLasts: for all delays and frame lengths a stun lasts its whole delay from the last hit.
THEOREM StunLastsFromLastHit == Spec => StunLasts
<1>1. IInv /\ [Next]_vars => [mState = "Damage" /\ mState' = "Idle" => sinceHit' > damageDelayTime]_vars
  BY StunStep
<1> QED
  BY <1>1, EnemyInvariance, PTL DEF Spec, StunLasts

=============================================================================

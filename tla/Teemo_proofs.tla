------------------------------- MODULE Teemo_proofs -------------------------------
(* Theorems about Teemo, with their proofs. *)
EXTENDS Teemo, TLAPS

PlaceTypes ==
    /\ phase \in {"input", "move", "tick", "timers"}
    /\ Location \in Places /\ OldLocation \in Places
    /\ Rotation \in Facings /\ OldRotator \in Facings
    /\ in_game_check_ \in BOOLEAN /\ timer_destroy_sw \in BOOLEAN
    /\ told \in (Places \X (Facings \cup {unset})) \cup {<<"nothing">>}

KeyTypes ==
    /\ bUsingGrenadeGun \in BOOLEAN /\ bSniperAim \in BOOLEAN /\ running \in BOOLEAN
    /\ aimKey \in BOOLEAN /\ runKey \in BOOLEAN
    /\ aimHeld \in BOOLEAN /\ runHeld \in BOOLEAN /\ swapped \in BOOLEAN

OtherTypes ==
    /\ view \in [Shooters -> 1 .. 3] /\ hp \in 1 .. 3
    /\ hits \in 0 .. MaxFlight
    /\ shot \subseteq Shooters /\ drift \in 0 .. 2

Said(at, facing) == told \in {<<at, facing>>, <<at, unset>>}

\* What the server was told last is what Tick compares with, and between two frames it is
\* also where the player is.
ToldIsOld ==
    Report =>
        /\ Said(OldLocation, OldRotator)
        /\ phase \in {"timers", "input"} => Said(Location, Rotation) /\ OldLocation = Location

\* Who has not hit the other player has the count it began with, and so has he as long as
\* nobody has.
CountsBegin ==
    /\ \A s \in Shooters \ shot : view[s] = 3
    /\ shot = {} => hp = 3 /\ hits = 0 /\ drift = 0

PlaceInv == PlaceTypes /\ ToldIsOld
KeyInv == KeyTypes /\ KeysFollowed
OtherInv == OtherTypes /\ CountsBegin /\ CountsAgree
IInv == PlaceInv /\ KeyInv /\ OtherInv

LEMMA TypeParts == TypeOK <=> PlaceTypes /\ KeyTypes /\ OtherTypes
BY DEF TypeOK, PlaceTypes, KeyTypes, OtherTypes

LEMMA InitIInv == Init => IInv
<1> SUFFICES ASSUME Init PROVE IInv
  OBVIOUS
<1>1. PlaceInv
  BY DEF Init, PlaceInv, PlaceTypes, ToldIsOld, Report
<1>2. KeyInv
  BY DEF Init, KeyInv, KeyTypes, KeysFollowed
<1>3. OtherInv
  <2>1. /\ view = [s \in Shooters |-> 3] /\ hp = 3 /\ hits = 0 /\ shot = {} /\ drift = 0
    BY TeemoAssumption DEF Init
  <2>3. OtherTypes
    BY <2>1, TeemoAssumption DEF OtherTypes
  <2>4. CountsBegin /\ CountsAgree
    BY <2>1 DEF CountsBegin, CountsAgree
  <2> QED
    BY <2>3, <2>4 DEF OtherInv
<1> QED
  BY <1>1, <1>2, <1>3 DEF IInv

-----------------------------------------------------------------------------
(* What an action does not touch stays as it was. *)

LEMMA PlaceStays == PlaceInv /\ UNCHANGED <<phase, place>> => PlaceInv'
BY DEF PlaceInv, PlaceTypes, ToldIsOld, Said, Report, place

LEMMA KeysStay == KeyInv /\ UNCHANGED keys => KeyInv'
BY DEF KeyInv, KeyTypes, KeysFollowed, keys

LEMMA OtherStays == OtherInv /\ UNCHANGED other => OtherInv'
BY DEF OtherInv, OtherTypes, CountsBegin, CountsAgree, other

-----------------------------------------------------------------------------
(* Reports *)

LEMMA KeepPlace ==
    PlaceInv /\ (ForwordCharacter \/ InputDone \/ CharacterMoves \/ Tick \/ SetPositionInit \/ TimersDone)
        => PlaceInv'
<1> USE DEF PlaceInv, PlaceTypes
<1>1. PlaceInv /\ ForwordCharacter => PlaceInv'
  BY DEF ForwordCharacter, ToldIsOld, Said, Report
<1>2. PlaceInv /\ InputDone => PlaceInv'
  BY DEF InputDone, place, ToldIsOld, Said, Report
<1>3. PlaceInv /\ CharacterMoves => PlaceInv'
  BY DEF CharacterMoves, ToldIsOld, Said, Report
<1>4. PlaceInv /\ Tick => PlaceInv'
  <2> SUFFICES ASSUME PlaceInv, Tick PROVE PlaceInv'
    OBVIOUS
  <2>1. CASE Report /\ (OldLocation # Location \/ OldRotator # Rotation)
    BY <2>1 DEF Tick, ToldIsOld, Said, Report
  <2>2. CASE ~(Report /\ (OldLocation # Location \/ OldRotator # Rotation))
    BY <2>2 DEF Tick, ToldIsOld, Said, Report
  <2> QED
    BY <2>1, <2>2
<1>5. PlaceInv /\ SetPositionInit => PlaceInv'
  BY DEF SetPositionInit, ToldIsOld, Said, Report
<1>6. PlaceInv /\ TimersDone => PlaceInv'
  BY DEF TimersDone, place, ToldIsOld, Said, Report
<1> QED
  BY <1>1, <1>2, <1>3, <1>4, <1>5, <1>6

-----------------------------------------------------------------------------
(* Keys *)

LEMMA ChangeKeeps == ASSUME NEW g \in BOOLEAN, KeyInv, ChangeGun(g) PROVE KeyInv'
<1>1. /\ bUsingGrenadeGun' = g /\ swapped' = (swapped \/ (aimKey # aimHeld /\ bUsingGrenadeGun # g))
      /\ UNCHANGED <<bSniperAim, running, aimKey, runKey, aimHeld, runHeld>>
  BY DEF ChangeGun
<1>2. KeyTypes'
  BY <1>1 DEF KeyInv, KeyTypes
<1>3. ~swapped' => (bSniperAim' <=> aimKey' # aimHeld' /\ ~bUsingGrenadeGun')
  <2>1. CASE aimKey # aimHeld /\ bUsingGrenadeGun # g
    BY <1>1, <2>1
  <2>2. CASE aimKey # aimHeld /\ bUsingGrenadeGun = g
    BY <1>1, <2>2 DEF KeyInv, KeysFollowed
  <2>3. CASE aimKey = aimHeld
    BY <1>1, <2>3 DEF KeyInv, KeysFollowed
  <2> QED
    BY <2>1, <2>2, <2>3
<1>4. running' <=> runKey' # runHeld'
  BY <1>1 DEF KeyInv, KeysFollowed
<1> QED
  BY <1>2, <1>3, <1>4 DEF KeyInv, KeysFollowed

\* A stroke of a key turns round whether it is as it was first.
LEMMA Stroke ==
    ASSUME NEW key \in BOOLEAN, NEW held \in BOOLEAN PROVE (~key # held) <=> ~(key # held)
<1>1. CASE key = TRUE
  BY <1>1
<1>2. CASE key = FALSE
  BY <1>2
<1> QED
  BY <1>1, <1>2

LEMMA AimKeeps == KeyInv /\ SniperAim => KeyInv'
<1> SUFFICES ASSUME KeyInv, SniperAim PROVE KeyInv'
  OBVIOUS
<1>1. /\ aimKey' = ~aimKey /\ bSniperAim' = IF bUsingGrenadeGun THEN bSniperAim ELSE ~bSniperAim
      /\ UNCHANGED <<bUsingGrenadeGun, running, runKey, aimHeld, runHeld, swapped>>
  BY DEF SniperAim
<1>4. (aimKey' # aimHeld') <=> ~(aimKey # aimHeld)
  BY <1>1, Stroke DEF KeyInv, KeyTypes
<1>2. CASE bUsingGrenadeGun
  <2>1. bSniperAim' = bSniperAim
    BY <1>1, <1>2
  <2>2. KeyTypes'
    BY <1>1, <2>1 DEF KeyInv, KeyTypes
  <2>3. KeysFollowed'
    BY <1>1, <1>2, <2>1 DEF KeyInv, KeysFollowed
  <2> QED
    BY <2>2, <2>3 DEF KeyInv
<1>3. CASE ~bUsingGrenadeGun
  <2>1. bSniperAim' <=> ~bSniperAim
    BY <1>1, <1>3
  <2>2. KeyTypes'
    BY <1>1, <2>1 DEF KeyInv, KeyTypes
  <2>3. KeysFollowed'
    BY <1>1, <1>3, <1>4, <2>1 DEF KeyInv, KeysFollowed
  <2> QED
    BY <2>2, <2>3 DEF KeyInv
<1> QED
  BY <1>2, <1>3

LEMMA KeepKeys == KeyInv /\ (ChangeToGrenadeGun \/ ChangeToSniperGun \/ SniperAim \/ InputRun) => KeyInv'
<1>1. KeyInv /\ InputRun => KeyInv'
  <2> SUFFICES ASSUME KeyInv, InputRun PROVE KeyInv'
    OBVIOUS
  <2>1. /\ runKey' = ~runKey /\ running' = ~running
        /\ UNCHANGED <<bUsingGrenadeGun, bSniperAim, aimKey, aimHeld, runHeld, swapped>>
    BY DEF InputRun
  <2>2. KeyTypes'
    BY <2>1 DEF KeyInv, KeyTypes
  <2>3. (runKey' # runHeld') <=> ~(runKey # runHeld)
    BY <2>1, Stroke DEF KeyInv, KeyTypes
  <2>4. KeysFollowed'
    BY <2>1, <2>3 DEF KeyInv, KeysFollowed
  <2> QED
    BY <2>2, <2>4 DEF KeyInv
<1> QED
  BY <1>1, ChangeKeeps, AimKeeps DEF ChangeToGrenadeGun, ChangeToSniperGun

-----------------------------------------------------------------------------
(* Hits *)

\* What CountsAgree claims to be a multiple of three.
Count(s) == hp - view[s] - hits - drift

\* The remainder does not change by threes.
LEMMA Thirds ==
    ASSUME NEW a \in Int, NEW b \in Int, a % 3 = 0, b \in {a - 3, a, a + 3} PROVE b % 3 = 0
OBVIOUS

LEMMA HitKeepsCounts ==
    ASSUME NEW s \in Shooters, OtherInv, OnDamageProcess(s) PROVE OtherInv'
<1> USE TeemoAssumption
<1>1. /\ view \in [Shooters -> 1 .. 3] /\ hp \in 1 .. 3 /\ hits \in 0 .. MaxFlight
      /\ shot \subseteq Shooters /\ drift \in 0 .. 2
  BY DEF OtherInv, OtherTypes
<1>2. /\ hits < MaxFlight /\ hits' = hits + 1 /\ hp' = hp /\ drift' = drift
      /\ view' = [view EXCEPT ![s] = IF view[s] = 1 THEN 3 ELSE view[s] - 1]
      /\ shot' = shot \cup {s}
  BY DEF OnDamageProcess
<1>3. view'[s] = (IF view[s] = 1 THEN 3 ELSE view[s] - 1) /\ view[s] \in 1 .. 3
  BY <1>1, <1>2
<1>4. view'[s] \in 1 .. 3
  BY <1>3
<1>5. OtherTypes'
  BY <1>1, <1>2, <1>4 DEF OtherTypes
<1>6. CountsBegin'
  <2>1. \A t \in Shooters \ shot' : t # s /\ t \notin shot /\ view'[t] = view[t]
    BY <1>1, <1>2
  <2>2. shot' # {}
    BY <1>2
  <2> QED
    BY <1>2, <2>1, <2>2 DEF OtherInv, CountsBegin
<1>7. CountsAgree'
  <2> SUFFICES ASSUME NEW t \in Shooters, shot' = {t}
               PROVE  (hp' - view'[t] - hits' - drift') % 3 = 0
    BY DEF CountsAgree
  <2>1. t = s /\ (shot = {} \/ shot = {s})
    BY <1>2
  <2>2. (hp - view[s] - hits - drift) % 3 = 0
    <3>1. CASE shot = {}
      <4>1. view[s] = 3 /\ hp = 3 /\ hits = 0 /\ drift = 0
        BY <2>1, <3>1 DEF OtherInv, CountsBegin
      <4> QED
        BY <4>1
    <3>2. CASE shot = {s}
      BY <2>1, <3>2 DEF OtherInv, CountsAgree
    <3> QED
      BY <2>1, <3>1, <3>2
  <2>3. (hp - view'[s] - (hits + 1) - drift) % 3 = 0
    <3> DEFINE a == hp - view[s] - hits - drift
               b == hp - view'[s] - (hits + 1) - drift
    <3>1. a \in Int /\ b \in Int /\ b \in {a - 3, a}
      BY <1>1, <1>3
    <3> HIDE DEF a, b
    <3>2. a % 3 = 0 => b % 3 = 0
      BY <3>1, Thirds
    <3> QED
      BY <2>2, <3>2 DEF a, b
  <2> QED
    BY <1>2, <2>1, <2>3
<1> QED
  BY <1>5, <1>6, <1>7 DEF OtherInv

LEMMA EventKeepsCounts == OtherInv /\ OnHitEvent => OtherInv'
<1> SUFFICES ASSUME OtherInv, OnHitEvent PROVE OtherInv'
  OBVIOUS
<1> USE TeemoAssumption
<1>1. /\ view \in [Shooters -> 1 .. 3] /\ hp \in 1 .. 3 /\ hits \in 0 .. MaxFlight
      /\ shot \subseteq Shooters /\ drift \in 0 .. 2
  BY DEF OtherInv, OtherTypes
<1>2. PICK again \in BOOLEAN :
        /\ hits > 0 /\ hits' = IF again THEN hits ELSE hits - 1
        /\ drift' = IF again THEN (drift + 2) % 3 ELSE drift
        /\ hp' = IF hp = 1 THEN 3 ELSE hp - 1
        /\ UNCHANGED <<view, shot>>
  BY <1>1 DEF OnHitEvent
<1>3. hp' \in 1 .. 3 /\ hits' \in 0 .. MaxFlight /\ drift' \in 0 .. 2
  BY <1>1, <1>2
<1>4. OtherTypes'
  BY <1>1, <1>2, <1>3 DEF OtherTypes
<1>5. shot # {}
  BY <1>1, <1>2 DEF OtherInv, CountsBegin
<1>6. CountsBegin'
  BY <1>2, <1>5 DEF OtherInv, CountsBegin
<1>7. /\ hp' = hp - 1 \/ hp' = hp + 2
      /\ \/ hits' = hits /\ (drift' = drift - 1 \/ drift' = drift + 2)
         \/ hits' = hits - 1 /\ drift' = drift
  BY <1>1, <1>2
<1>8. CountsAgree'
  <2> SUFFICES ASSUME NEW t \in Shooters, shot' = {t} PROVE Count(t)' % 3 = 0
    BY DEF CountsAgree, Count
  <2>1. view[t] \in 1 .. 3 /\ view' = view
    BY <1>1, <1>2
  <2>2. Count(t) \in Int /\ Count(t)' \in Int /\ Count(t)' \in {Count(t) - 3, Count(t), Count(t) + 3}
    BY <1>1, <1>3, <1>7, <2>1 DEF Count
  <2>3. Count(t) % 3 = 0
    BY <1>2 DEF OtherInv, CountsAgree, Count
  <2> QED
    BY <2>2, <2>3, Thirds
<1> QED
  BY <1>4, <1>6, <1>8 DEF OtherInv

LEMMA LostKeepsCounts == OtherInv /\ HitLost => OtherInv'
<1> SUFFICES ASSUME OtherInv, HitLost PROVE OtherInv'
  OBVIOUS
<1> USE TeemoAssumption
<1>1. /\ view \in [Shooters -> 1 .. 3] /\ hp \in 1 .. 3 /\ hits \in 0 .. MaxFlight
      /\ shot \subseteq Shooters /\ drift \in 0 .. 2
  BY DEF OtherInv, OtherTypes
<1>2. /\ hits > 0 /\ hits' = hits - 1 /\ drift' = (drift + 1) % 3
      /\ UNCHANGED <<view, hp, shot>>
  BY DEF HitLost
<1>3. hits' \in 0 .. MaxFlight /\ drift' \in 0 .. 2 /\ (drift' = drift + 1 \/ drift' = drift - 2)
  BY <1>1, <1>2
<1>4. OtherTypes'
  BY <1>1, <1>2, <1>3 DEF OtherTypes
<1>5. CountsBegin'
  BY <1>1, <1>2 DEF OtherInv, CountsBegin
<1>6. CountsAgree'
  <2> SUFFICES ASSUME NEW t \in Shooters, shot' = {t} PROVE Count(t)' % 3 = 0
    BY DEF CountsAgree, Count
  <2>1. view[t] \in 1 .. 3 /\ view' = view /\ hp' = hp /\ hits' = hits - 1
    BY <1>1, <1>2
  <2>2. Count(t) \in Int /\ Count(t)' \in Int /\ Count(t)' \in {Count(t), Count(t) + 3}
    BY <1>1, <1>3, <2>1 DEF Count
  <2>3. Count(t) % 3 = 0
    BY <1>2 DEF OtherInv, CountsAgree, Count
  <2> QED
    BY <2>2, <2>3, Thirds
<1> QED
  BY <1>4, <1>5, <1>6 DEF OtherInv

LEMMA BeginKeepsCounts == OtherInv /\ OtherBegins => OtherInv'
<1> SUFFICES ASSUME OtherInv, OtherBegins PROVE OtherInv'
  OBVIOUS
<1> USE TeemoAssumption
<1>1. /\ view \in [Shooters -> 1 .. 3] /\ hp \in 1 .. 3 /\ hits \in 0 .. MaxFlight
      /\ shot \subseteq Shooters /\ drift \in 0 .. 2
  BY DEF OtherInv, OtherTypes
<1>2. /\ hp' = 3 /\ drift' = (drift + (3 - hp)) % 3
      /\ UNCHANGED <<view, hits, shot>>
  BY DEF OtherBegins
<1>3. drift' \in 0 .. 2 /\ (drift' = drift + (3 - hp) \/ drift' = drift + (3 - hp) - 3)
  BY <1>1, <1>2
<1>4. OtherTypes'
  BY <1>1, <1>2, <1>3 DEF OtherTypes
<1>5. CountsBegin'
  BY <1>1, <1>2 DEF OtherInv, CountsBegin
<1>6. CountsAgree'
  <2> SUFFICES ASSUME NEW t \in Shooters, shot' = {t} PROVE Count(t)' % 3 = 0
    BY DEF CountsAgree, Count
  <2>1. view[t] \in 1 .. 3 /\ view' = view /\ hp' = 3 /\ hits' = hits
    BY <1>1, <1>2
  <2>2. Count(t) \in Int /\ Count(t)' \in Int /\ Count(t)' \in {Count(t), Count(t) + 3}
    BY <1>1, <1>3, <2>1 DEF Count
  <2>3. Count(t) % 3 = 0
    BY <1>2 DEF OtherInv, CountsAgree, Count
  <2> QED
    BY <2>2, <2>3, Thirds
<1> QED
  BY <1>4, <1>5, <1>6 DEF OtherInv

-----------------------------------------------------------------------------

LEMMA NextIInv == IInv /\ [Next]_vars => IInv'
<1> SUFFICES ASSUME IInv, [Next]_vars PROVE IInv'
  OBVIOUS
<1> USE DEF IInv
<1>1. CASE ChangeToGrenadeGun \/ ChangeToSniperGun \/ SniperAim \/ InputRun
  <2>1. UNCHANGED <<phase, place, other>>
    BY <1>1 DEF ChangeToGrenadeGun, ChangeToSniperGun, ChangeGun, SniperAim, InputRun
  <2> QED
    BY <1>1, <2>1, KeepKeys, PlaceStays, OtherStays
<1>2. CASE ForwordCharacter \/ InputDone \/ CharacterMoves \/ Tick \/ SetPositionInit \/ TimersDone
  <2>1. UNCHANGED <<keys, other>>
    BY <1>2 DEF ForwordCharacter, InputDone, CharacterMoves, Tick, SetPositionInit, TimersDone
  <2> QED
    BY <1>2, <2>1, KeepPlace, KeysStay, OtherStays
<1>3. CASE InputFire \/ OtherFires
  <2>1. PICK s \in Shooters : OnDamageProcess(s)
    BY <1>3, TeemoAssumption DEF InputFire, OtherFires
  <2>2. UNCHANGED <<phase, place, keys>>
    BY <2>1 DEF OnDamageProcess
  <2> QED
    BY <2>1, <2>2, HitKeepsCounts, PlaceStays, KeysStay
<1>4. CASE OnHitEvent
  <2>1. UNCHANGED <<phase, place, keys>>
    BY <1>4 DEF OnHitEvent
  <2> QED
    BY <1>4, <2>1, EventKeepsCounts, PlaceStays, KeysStay
<1>5. CASE HitLost \/ OtherBegins
  <2>1. UNCHANGED <<phase, place, keys>>
    BY <1>5 DEF HitLost, OtherBegins
  <2> QED
    BY <1>5, <2>1, LostKeepsCounts, BeginKeepsCounts, PlaceStays, KeysStay
<1>6. CASE UNCHANGED vars
  BY <1>6, PlaceStays, KeysStay, OtherStays DEF vars
<1> QED
  BY <1>1, <1>2, <1>3, <1>4, <1>5, <1>6 DEF Next

\* What holds of reports, keys and counts in every state (IInv).
THEOREM TeemoInvariance == Spec => []IInv
<1>1. Init => IInv
  BY InitIInv
<1>2. IInv /\ [Next]_vars => IInv'
  BY NextIInv
<1> QED
  BY <1>1, <1>2, PTL DEF Spec

\* TypeOK: the player's members keep their types, and hit points stay between one and three.
THEOREM TeemoTypeCorrect == Spec => []TypeOK
<1>1. IInv => TypeOK
  BY TypeParts DEF IInv, PlaceInv, KeyInv, OtherInv
<1> QED
  BY <1>1, TeemoInvariance, PTL

\* LastWordIsHere: for any set of places and rotations, between two frames the server has
\* been told where a player in the game stands.
THEOREM ServerToldWhere == Spec => []LastWordIsHere
<1>1. IInv => LastWordIsHere
  BY DEF IInv, PlaceInv, ToldIsOld, Said, LastWordIsHere
<1> QED
  BY <1>1, TeemoInvariance, PTL

\* KeysFollowed: running follows its key, and aiming too unless the gun was changed between the
\* two halves of a key stroke; a key held before it was bound means the opposite.
THEOREM TogglesFollowKeys == Spec => []KeysFollowed
<1>1. IInv => KeysFollowed
  BY DEF IInv, KeyInv
<1> QED
  BY <1>1, TeemoInvariance, PTL

\* CountsAgree: for any number of clients and of messages on their way, the count of the only
\* client that hits a player differs from his by the hits he has not heard of and those he has heard of twice.
THEOREM SoleShooterAgrees == Spec => []CountsAgree
<1>1. IInv => CountsAgree
  BY DEF IInv, OtherInv
<1> QED
  BY <1>1, TeemoInvariance, PTL

=============================================================================

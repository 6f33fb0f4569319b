---------------------------------- MODULE Teemo ----------------------------------
(***************************************************************************)
(* The player of a client (ATeemo), frame by frame: the keys, the engine's  *)
(* movement, Tick with its report to the server, and the timers, in which   *)
(* the entry into the game arrives.  And the hits: each client counts the   *)
(* hit points of a remote player itself (UTeemo_Remote_FSM) and the player  *)
(* counts his own (ATeemo::OnHitEvent); between the two the server passes   *)
(* a message on.                                                           *)
(*                                                                         *)
(* The engine's order within a frame is external: input, movement, Tick,    *)
(* timers.  client_index and in_game_ are in GameClient, what a hit does to *)
(* an enemy in EnemyFSM; cameras, sounds and animations are left out, and   *)
(* so are the actors the test keys spawn and the grenades, which hurt       *)
(* nobody.                                                                  *)
(***************************************************************************)
EXTENDS Integers

CONSTANTS
    Places, Facings,
    unset,          \* a facing that is not in Facings: what nobody wrote into a packet
    Shooters, Me,   \* the clients that shoot at one other player; this one
    initialHp,
    MaxFlight       \* bound: messages about hits on their way

ASSUME TeemoAssumption ==
    /\ unset \notin Facings
    /\ Me \in Shooters
    /\ initialHp = 3
    /\ MaxFlight \in Nat

VARIABLES
    phase,          \* of the frame
    Location, Rotation, OldLocation, OldRotator,
    in_game_check_, timer_destroy_sw,
    told,           \* the last move report sent
    bUsingGrenadeGun, bSniperAim, running,
    aimKey, runKey, \* held down
    aimHeld, runHeld,   \* ghost: the key was down before it was bound
    swapped,        \* ghost: the gun was changed between two strokes of the aim key
    view,           \* hit points of the other player, as each client counts them
    hp,             \* as he counts them
    hits,           \* messages about hits on their way to him
    shot,           \* ghost: who has hit him
    drift           \* ghost: hits his count has lost, less those it has twice (modulo 3)

place == <<Location, Rotation, OldLocation, OldRotator, in_game_check_, timer_destroy_sw, told>>
keys == <<bUsingGrenadeGun, bSniperAim, running, aimKey, runKey, aimHeld, runHeld, swapped>>
other == <<view, hp, hits, shot, drift>>
vars == <<phase, place, keys, other>>

\* BeginPlay of the player and of the other one.
Init ==
    /\ phase = "input"
    /\ Location \in Places /\ Rotation \in Facings
    /\ OldLocation \in Places /\ OldRotator \in Facings
    /\ in_game_check_ = FALSE /\ timer_destroy_sw \in BOOLEAN
    /\ told = <<"nothing">>
    /\ bUsingGrenadeGun = FALSE /\ bSniperAim = FALSE /\ running = FALSE
    /\ aimKey \in BOOLEAN /\ runKey \in BOOLEAN
    /\ aimHeld = aimKey /\ runHeld = runKey /\ swapped = FALSE
    /\ view = [s \in Shooters |-> 3] /\ hp = initialHp
    /\ hits = 0 /\ shot = {} /\ drift = 0

-----------------------------------------------------------------------------
(* Input *)

ChangeGun(grenade) ==
    /\ phase = "input"
    /\ bUsingGrenadeGun' = grenade
    /\ swapped' = (swapped \/ (aimKey # aimHeld /\ bUsingGrenadeGun # grenade))
    /\ UNCHANGED <<phase, place, bSniperAim, running, aimKey, runKey, aimHeld, runHeld, other>>

ChangeToGrenadeGun == ChangeGun(TRUE)
ChangeToSniperGun == ChangeGun(FALSE)

\* Mutant: the gun is not asked for.
SniperAimAnyGun ==
    /\ phase = "input"
    /\ aimKey' = ~aimKey
    /\ bSniperAim' = ~bSniperAim
    /\ UNCHANGED <<phase, place, bUsingGrenadeGun, running, runKey, aimHeld, runHeld, swapped, other>>

\* Bound to the press and to the release of the key alike.
SniperAim ==
    /\ phase = "input"
    /\ aimKey' = ~aimKey
    /\ bSniperAim' = IF bUsingGrenadeGun THEN bSniperAim ELSE ~bSniperAim
    /\ UNCHANGED <<phase, place, bUsingGrenadeGun, running, runKey, aimHeld, runHeld, swapped, other>>

InputRun ==
    /\ phase = "input"
    /\ runKey' = ~runKey
    /\ running' = ~running
    /\ UNCHANGED <<phase, place, bUsingGrenadeGun, bSniperAim, aimKey, aimHeld, runHeld, swapped, other>>

\* A test key: a report with no rotation in it, which Tick does not learn of.
ForwordCharacter ==
    /\ phase = "input"
    /\ told' = <<Location, unset>>
    /\ UNCHANGED <<phase, Location, Rotation, OldLocation, OldRotator, in_game_check_,
                   timer_destroy_sw, keys, other>>

-----------------------------------------------------------------------------
(* Hits *)

\* Mutant: the remote player dies with a hit point left.
OnDamageProcessEarly(s) ==
    /\ hits < MaxFlight
    /\ hits' = hits + 1
    /\ view' = [view EXCEPT ![s] = IF @ <= 2 THEN 3 ELSE @ - 1]
    /\ shot' = shot \cup {s}
    /\ UNCHANGED <<phase, place, keys, hp, drift>>

\* UTeemo_Remote_FSM::OnDamageProcess on the client of s.
OnDamageProcess(s) ==
    /\ hits < MaxFlight
    /\ hits' = hits + 1
    /\ view' = [view EXCEPT ![s] = IF @ = 1 THEN 3 ELSE @ - 1]
    /\ shot' = shot \cup {s}
    /\ UNCHANGED <<phase, place, keys, hp, drift>>

\* Only the sniper gun's line trace finds somebody.
InputFire ==
    /\ phase = "input" /\ ~bUsingGrenadeGun
    /\ OnDamageProcess(Me)

OtherFires == \E s \in Shooters \ {Me} : OnDamageProcess(s)

\* The queue's entries point to the one variable that receive writes (GameClient): a hit
\* that has overwritten an earlier packet is dispatched for each of them.
OnHitEvent ==
    \E again \in BOOLEAN :
        /\ hits > 0 /\ hits' = IF again THEN hits ELSE hits - 1
        /\ drift' = IF again THEN (drift + 2) % 3 ELSE drift
        /\ hp' = IF hp - 1 <= 0 THEN 3 ELSE hp - 1
        /\ UNCHANGED <<phase, place, keys, view, shot>>

\* And a hit that was overwritten is not dispatched.
HitLost ==
    /\ hits > 0 /\ hits' = hits - 1
    /\ drift' = (drift + 1) % 3
    /\ UNCHANGED <<phase, place, keys, view, hp, shot>>

\* He connects again: BeginPlay of a new ATeemo, with the hits forgotten; nobody's count of
\* him starts anew.
OtherBegins ==
    /\ hp' = initialHp
    /\ drift' = (drift + (initialHp - hp)) % 3
    /\ UNCHANGED <<phase, place, keys, view, hits, shot>>

-----------------------------------------------------------------------------
(* The frame *)

InputDone == phase = "input" /\ phase' = "move" /\ UNCHANGED <<place, keys, other>>

\* What the input of the last frame made of it (Move, Turn, LookUp, InputJump), and falling.
CharacterMoves ==
    /\ phase = "move" /\ phase' = "tick"
    /\ Location' \in Places /\ Rotation' \in Facings
    /\ UNCHANGED <<OldLocation, OldRotator, in_game_check_, timer_destroy_sw, told, keys, other>>

Report == timer_destroy_sw /\ in_game_check_

\* Mutant: reports are sent when both have changed.
TickBoth ==
    /\ phase = "tick" /\ phase' = "timers"
    /\ IF Report /\ OldLocation # Location /\ OldRotator # Rotation
         THEN /\ told' = <<Location, Rotation>>
              /\ OldLocation' = Location /\ OldRotator' = Rotation
         ELSE UNCHANGED <<told, OldLocation, OldRotator>>
    /\ UNCHANGED <<Location, Rotation, in_game_check_, timer_destroy_sw, keys, other>>

Tick ==
    /\ phase = "tick" /\ phase' = "timers"
    /\ IF Report /\ (OldLocation # Location \/ OldRotator # Rotation)
         THEN /\ told' = <<Location, Rotation>>
              /\ OldLocation' = Location /\ OldRotator' = Rotation
         ELSE UNCHANGED <<told, OldLocation, OldRotator>>
    /\ UNCHANGED <<Location, Rotation, in_game_check_, timer_destroy_sw, keys, other>>

\* The answer to IN_GAME_REQUEST, from ClientTimerInGameProcessPacket.  The report has no
\* rotation in it and OldRotator stays.  IN_GAME_REMOTE_REQUEST follows.
SetPositionInit ==
    /\ phase = "timers"
    /\ Location' \in Places /\ Rotation' \in Facings
    /\ OldLocation' = Location'
    /\ in_game_check_' = TRUE
    /\ told' = <<OldLocation', unset>>
    /\ UNCHANGED <<phase, OldRotator, timer_destroy_sw, keys, other>>

TimersDone == phase = "timers" /\ phase' = "input" /\ UNCHANGED <<place, keys, other>>

-----------------------------------------------------------------------------

Next ==
    \/ ChangeToGrenadeGun \/ ChangeToSniperGun \/ SniperAim \/ InputRun \/ ForwordCharacter
    \/ InputFire \/ OtherFires \/ OnHitEvent \/ HitLost \/ OtherBegins
    \/ InputDone \/ CharacterMoves \/ Tick \/ SetPositionInit \/ TimersDone

Spec == Init /\ [][Next]_vars

-----------------------------------------------------------------------------
(* Properties *)

TypeOK ==
    /\ phase \in {"input", "move", "tick", "timers"}
    /\ Location \in Places /\ OldLocation \in Places
    /\ Rotation \in Facings /\ OldRotator \in Facings
    /\ in_game_check_ \in BOOLEAN /\ timer_destroy_sw \in BOOLEAN
    /\ told \in (Places \X (Facings \cup {unset})) \cup {<<"nothing">>}
    /\ bUsingGrenadeGun \in BOOLEAN /\ bSniperAim \in BOOLEAN /\ running \in BOOLEAN
    /\ aimKey \in BOOLEAN /\ runKey \in BOOLEAN
    /\ aimHeld \in BOOLEAN /\ runHeld \in BOOLEAN /\ swapped \in BOOLEAN
    /\ view \in [Shooters -> 1 .. 3] /\ hp \in 1 .. 3
    /\ hits \in 0 .. MaxFlight
    /\ shot \subseteq Shooters /\ drift \in 0 .. 2

\* Between two frames the server's last word on a player in the game is where he stands,
\* whoever reported last: Tick, the entry into the game or the test key.  The last two leave
\* the packet's rotation as it was on the stack, which the server stores and passes on: of
\* them only the place is claimed.
LastWordIsHere ==
    Report /\ phase \in {"timers", "input"} => told \in {<<Location, Rotation>>, <<Location, unset>>}

\* Press and release both toggle, so the player aims and runs while the key is down; a key
\* that was down before it was bound turns its meaning round for ever.  The aim follows the
\* key with the sniper gun in the hand, unless the gun was ever changed between the two
\* strokes: the stroke that the grenade gun swallows is missing from then on.
KeysFollowed ==
    /\ ~swapped => (bSniperAim <=> aimKey # aimHeld /\ ~bUsingGrenadeGun)
    /\ running <=> runKey # runHeld

\* When one client alone has hit a player, its count of his hit points is his own less the
\* hits on their way, those that were lost or that he forgot when he connected again, and
\* with those he was dispatched twice (both counts start again at three): nothing else comes
\* between.  With two clients, no client's count is his.
CountsAgree ==
    \A s \in Shooters : shot = {s} => (hp - view[s] - hits - drift) % 3 = 0

=============================================================================

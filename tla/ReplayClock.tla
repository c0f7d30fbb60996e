----------------------------- MODULE ReplayClock ----------------------------
(***************************************************************************)
(* ReplayClock (engines/replay/clock.py): replayed time is real time times *)
(* the speed, kept as what has elapsed up to the last look at the clock.   *)
(* pause() and resume() both restart the interval that is measured, and    *)
(* nothing remembers that the clock is paused.                             *)
(***************************************************************************)
EXTENDS Integers

CONSTANTS
    Speeds,        \* multipliers
    MaxTime        \* bound: real time in a run

ClockConstants == Speeds \subseteq Nat \ {0} /\ Speeds # {} /\ MaxTime \in Nat

VARIABLES
    real,          \* the caller's clock
    since,         \* _start_time, or None
    elapsed,       \* _elapsed
    speed,         \* the multiplier
    paused,        \* auxiliary: the caller has paused
    played,        \* auxiliary: replayed time while not paused
    disturbed      \* auxiliary: the clock was looked at while paused

vars == <<real, since, elapsed, speed, paused, played, disturbed>>

None == -1

TypeOK ==
    /\ real \in 0..MaxTime /\ since \in {None} \cup 0..MaxTime
    /\ elapsed \in Nat /\ played \in Nat
    /\ speed \in Speeds
    /\ paused \in BOOLEAN /\ disturbed \in BOOLEAN

Init ==
    /\ real = 0 /\ since = None /\ elapsed = 0
    /\ speed = CHOOSE s \in Speeds : \A t \in Speeds : s <= t
    /\ paused = FALSE /\ played = 0 /\ disturbed = FALSE

(* _update_elapsed *)
UpdatedElapsed == IF since = None THEN elapsed ELSE elapsed + (real - since) * speed
UpdatedSince == IF since = None THEN None ELSE real

TimePasses ==
    /\ real < MaxTime
    /\ real' = real + 1
    /\ played' = IF since = None \/ paused THEN played ELSE played + speed
    /\ UNCHANGED <<since, elapsed, speed, paused, disturbed>>

Start ==
    /\ since' = real /\ elapsed' = 0
    /\ played' = 0 /\ paused' = FALSE /\ disturbed' = FALSE
    /\ UNCHANGED <<real, speed>>

(* The caller pauses a clock it has not paused, and resumes one it has. *)

(* Mutant: what has passed since the last look is dropped. *)
PauseUncounted ==
    /\ ~paused
    /\ since' = UpdatedSince
    /\ paused' = TRUE
    /\ UNCHANGED <<real, elapsed, speed, played, disturbed>>

Pause ==
    /\ ~paused
    /\ elapsed' = UpdatedElapsed /\ since' = UpdatedSince
    /\ paused' = TRUE
    /\ UNCHANGED <<real, speed, played, disturbed>>

Resume ==
    /\ paused
    /\ since' = real
    /\ paused' = FALSE
    /\ UNCHANGED <<real, elapsed, speed, played, disturbed>>

(* change_speed: starts the interval anew, also before start() *)
ChangeSpeed(s) ==
    /\ elapsed' = UpdatedElapsed /\ since' = real
    /\ speed' = s
    /\ disturbed' = (disturbed \/ (paused /\ since # real))
    /\ UNCHANGED <<real, paused, played>>

(* elapsed(), current_time() *)
Look ==
    /\ elapsed' = UpdatedElapsed /\ since' = UpdatedSince
    /\ disturbed' = (disturbed \/ (paused /\ since # real))
    /\ UNCHANGED <<real, speed, paused, played>>

Next == TimePasses \/ Start \/ Pause \/ Resume \/ Look \/ \E s \in Speeds : ChangeSpeed(s)

Spec == Init /\ [][Next]_vars

-----------------------------------------------------------------------------
(* Over any pauses, speed changes and looks, the clock shows the time that *)
(* was played at the speeds it was played at, provided nobody looked or    *)
(* changed the speed during a pause: that counts the pause as played.      *)
ClockShowsPlayed ==
    ~disturbed => played = IF paused THEN elapsed ELSE UpdatedElapsed
=============================================================================

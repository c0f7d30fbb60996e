---------------------------- MODULE ReplayProofs ----------------------------
(***************************************************************************)
(* What the run of replay and of the paper session checks, proved for      *)
(* every tape of ticks and candles, any number of tasks that control the   *)
(* replay or trade on the session, and any speeds and sizers.              *)
(***************************************************************************)
EXTENDS MCReplay, PaperExchangeProofs

-----------------------------------------------------------------------------
(***************************************************************************)
(* The scheduler.                                                          *)
(***************************************************************************)

(* What a task has published is the tape from its start, up to the tick it *)
(* is at; the current time is of that tick as long as it is the only task. *)
PlaysFrom(l) ==
    LET first == {i \in DOMAIN TickTime : TickTime[i] >= from[l]} IN
    \A i \in DOMAIN published[l] :
        published[l][i] \in first /\ published[l][i] = Scheduler!Min(first) + i - 1

AtLastTick(l) == loop[l].tick = IF published[l] = <<>> THEN 0 ELSE published[l][Len(published[l])]

TimeOfTask(l) == sNow = IF published[l] = <<>> THEN from[l] ELSE TickTime[loop[l].tick]

SchedulerSafe ==
    /\ Scheduler!TypeOK
    /\ \A l \in Scheduler!Loops :
           /\ AtLastTick(l)
           /\ l > made => loop[l].at = "none" /\ published[l] = <<>>
    /\ ~crossed =>
           /\ \A l \in Scheduler!Loops :
                  /\ PlaysFrom(l)
                  /\ Scheduler!Alive(l) => l = made /\ TimeOfTask(l)
           /\ stopping \in {0, made}
           /\ sState = "stopped" => \A l \in Scheduler!Loops : ~Scheduler!Alive(l)

-----------------------------------------------------------------------------
(***************************************************************************)
(* The clock.                                                              *)
(***************************************************************************)
ClockSafe ==
    /\ Clock!TypeOK /\ Clock!ClockShowsPlayed
    /\ since # Clock!None => since <= real

-----------------------------------------------------------------------------
(***************************************************************************)
(* The controller.                                                         *)
(***************************************************************************)

(* An item that start() found in the buffer is still to be played. *)
Waits(k) == stale[k] # 0 /\ played[k] = <<>>

(* Nothing was played before, or beyond what was looked at; what is in the *)
(* buffer comes after what was played.                                     *)
InOrderSoFar(k) ==
    LET items == Player!Fresh(k) IN
    /\ stale[k] # 0 /\ played[k] # <<>> => played[k][1] = stale[k]
    /\ \A i \in DOMAIN items : items[i] \in Player!FromOrigin(k) /\ items[i] <= iter[k]
    /\ \A i, j \in DOMAIN items : i < j => items[i] < items[j]
    /\ Waits(k) => buffer[k] = stale[k]
    /\ buffer[k] # 0 => buffer[k] \in Player!FromOrigin(k)
    /\ buffer[k] # 0 /\ ~Waits(k) =>
           buffer[k] = iter[k] /\ \A i \in DOMAIN items : items[i] < buffer[k]

(* As long as only this kind is stepped the next item is the one after the *)
(* last, and the current time is the last one's.                           *)
NoGapSoFar(k) ==
    LET first == Player!Min(Player!FromOrigin(k))
        n     == Len(played[k])
    IN
    stale[k] = 0 =>
        /\ \A i \in 1..n : played[k][i] = first + i - 1
        /\ (\A other \in Player!Kind \ {k} : played[other] = <<>>) =>
               /\ now = IF n = 0 THEN origin ELSE Player!Time(k)[played[k][n]]
               /\ buffer[k] # 0 => buffer[k] = first + n
               /\ buffer[k] = 0 => iter[k] = Len(Player!Time(k))
                                   \/ IF n = 0 THEN iter[k] <= 0 ELSE iter[k] = played[k][n]

PlayerSafe ==
    /\ Player!TypeOK
    /\ iter \in [Player!Kind -> Int] /\ buffer \in [Player!Kind -> Nat] /\ stale \in [Player!Kind -> Nat]
    /\ played \in [Player!Kind -> Seq(Nat)]
    /\ origin \in Nat /\ StartTime <= origin /\ origin <= now
    /\ \A k \in Player!Kind : InOrderSoFar(k)
    /\ ~mixed => /\ \A k, other \in Player!Kind : k # other => played[k] = <<>> \/ played[other] = <<>>
                 /\ \A k \in Player!Kind : NoGapSoFar(k)
-----------------------------------------------------------------------------
(* A set of numbers has a least member, and a first item of a tape is the  *)
(* only one that is in it and not above any other.                         *)
LEMMA LeastExists ==
    ASSUME NEW S \in SUBSET Nat, S # {}
    PROVE  \E x \in S : \A y \in S : x <= y
<1>1. PICK x \in S : \A y \in S : ~(<<y, x>> \in OpToRel(<, Nat))
  BY NatLessThanWellFounded, WFMin
<1>2. ASSUME NEW y \in S, y < x PROVE FALSE
  <2>1. <<y, x>> \in OpToRel(<, Nat)
    BY <1>2 DEF OpToRel
  <2> QED BY <2>1, <1>1
<1> QED
  <2>1. \A y \in S : ~(y < x) /\ y \in Nat
    BY <1>2
  <2> QED BY <2>1

(* A sequence with one more. *)
LEMMA OneMore ==
    ASSUME NEW S, NEW seq \in Seq(S), NEW e \in S
    PROVE  /\ Append(seq, e) \in Seq(S) /\ Append(seq, e) # <<>>
           /\ Len(Append(seq, e)) = Len(seq) + 1 /\ Append(seq, e)[Len(seq) + 1] = e
           /\ \A j \in 1..Len(seq) : Append(seq, e)[j] = seq[j]
           /\ DOMAIN Append(seq, e) = 1..(Len(seq) + 1) /\ DOMAIN seq = 1..Len(seq)
           /\ Len(seq) \in Nat
OBVIOUS

LEMMA OneLess ==
    ASSUME NEW S, NEW seq \in Seq(S), seq # <<>>
    PROVE  Tail(seq) \in Seq(S)
OBVIOUS

LEMMA FirstTick ==
    ASSUME NEW S \in SUBSET Nat, S # {}
    PROVE  Scheduler!Min(S) \in S /\ \A y \in S : Scheduler!Min(S) <= y
BY LeastExists DEF Scheduler!Min

LEMMA FirstItem ==
    ASSUME NEW S \in SUBSET Nat, S # {}
    PROVE  Player!Min(S) \in S /\ \A y \in S : Player!Min(S) <= y
BY LeastExists DEF Player!Min

(* The next tick of a task that has the time to itself is the one after    *)
(* its last, and its first the first from the time it was made at.         *)
LEMMA NextTick ==
    ASSUME SchedulerSafe, ~crossed, NEW l \in Scheduler!Loops, Scheduler!Alive(l),
           Scheduler!Later(l) # {}
    PROVE  LET i == Scheduler!Min(Scheduler!Later(l))
               first == {j \in DOMAIN TickTime : TickTime[j] >= from[l]}
           IN /\ i \in DOMAIN TickTime /\ i > loop[l].tick /\ TickTime[i] >= sNow
              /\ i = Scheduler!Min(first) + Len(published[l])
<1>. DEFINE i == Scheduler!Min(Scheduler!Later(l))
            first == {j \in DOMAIN TickTime : TickTime[j] >= from[l]}
            n == Len(published[l])
<1>0. /\ TickTime \in Seq(Nat) /\ \A a, b \in DOMAIN TickTime : a < b => TickTime[a] <= TickTime[b]
      /\ loop[l].tick \in 0..Len(TickTime) /\ published[l] \in Seq(DOMAIN TickTime)
      /\ sNow \in Nat /\ from[l] \in Nat /\ n \in Nat
      /\ DOMAIN TickTime = 1..Len(TickTime)
  BY ReplayInstance DEF SchedulerSafe, Scheduler!TypeOK, Scheduler!SchedulerConstants
<1>1. /\ AtLastTick(l) /\ PlaysFrom(l) /\ TimeOfTask(l)
  BY DEF SchedulerSafe
<1>2. i \in Scheduler!Later(l) /\ \A y \in Scheduler!Later(l) : i <= y
  <2>1. Scheduler!Later(l) \in SUBSET Nat
    BY <1>0 DEF Scheduler!Later
  <2> QED BY <2>1, FirstTick
<1>3. i \in DOMAIN TickTime /\ i > loop[l].tick /\ TickTime[i] >= sNow
  BY <1>2 DEF Scheduler!Later
<1>4. i = Scheduler!Min(first) + n
  <2>1. CASE published[l] = <<>>
    <3>1. loop[l].tick = 0 /\ sNow = from[l] /\ n = 0
      BY <1>1, <2>1 DEF AtLastTick, TimeOfTask
    <3>2. Scheduler!Later(l) = first
      BY <3>1, <1>0 DEF Scheduler!Later
    <3>3. i = Scheduler!Min(first) /\ i \in Nat
      BY <3>2, <1>3, <1>0
    <3> QED BY <3>1, <3>3
  <2>2. CASE published[l] # <<>>
    <3>. DEFINE prev == published[l][n]
    <3>1. n \in 1..n /\ DOMAIN published[l] = 1..n /\ prev \in DOMAIN TickTime
      BY <1>0, <2>2
    <3>2. loop[l].tick = prev /\ sNow = TickTime[prev]
      BY <1>1, <2>2, <3>1 DEF AtLastTick, TimeOfTask
    <3>3. prev = Scheduler!Min(first) + n - 1 /\ prev \in first
      BY <1>1, <3>1 DEF PlaysFrom
    <3>. HIDE DEF prev, n
    <3>4. prev \in Nat /\ i \in Nat /\ prev + 1 <= i /\ prev + 1 \in DOMAIN TickTime
      BY <1>0, <1>3, <3>1, <3>2
    <3>5. TickTime[prev + 1] >= sNow
      <4>1. TickTime[prev] <= TickTime[prev + 1]
        BY <1>0, <3>1, <3>4
      <4> QED BY <4>1, <3>2
    <3>6. prev + 1 \in Scheduler!Later(l)
      BY <3>2, <3>4, <3>5 DEF Scheduler!Later
    <3>7. i = prev + 1
      BY <3>4, <3>6, <1>2
    <3>8. Scheduler!Min(first) \in Nat
      <4>1. prev \in first /\ first \in SUBSET Nat
        BY <3>3, <1>0
      <4> QED BY <4>1, FirstTick
    <3> QED BY <3>3, <3>7, <3>8, <1>0, <3>4
  <2> QED BY <2>1, <2>2
<1> QED BY <1>3, <1>4

LEMMA SchedulerStarts == Scheduler!Init => SchedulerSafe
<1> SUFFICES ASSUME Scheduler!Init PROVE SchedulerSafe
  OBVIOUS
<1>0. StartTime \in Nat /\ MaxLoops \in Nat /\ TickTime \in Seq(Nat)
  BY ReplayInstance DEF Scheduler!SchedulerConstants
<1>1. Scheduler!TypeOK
  <2>1. loop \in [Scheduler!Loops -> [at : {"none", "ready", "publishing", "completing", "over", "failed"},
                                      tick : 0..Len(TickTime)]]
    <3>1. [at |-> "none", tick |-> 0] \in [at : {"none", "ready", "publishing", "completing", "over", "failed"},
                                           tick : 0..Len(TickTime)]
      BY <1>0
    <3> QED BY <3>1, Zenon DEF Scheduler!Init
  <2>2. published \in [Scheduler!Loops -> Seq(DOMAIN TickTime)] /\ from \in [Scheduler!Loops -> Nat]
    BY <1>0 DEF Scheduler!Init
  <2>3. stopping \in 0..made /\ made \in 0..MaxLoops
    BY <1>0 DEF Scheduler!Init
  <2>4. sState \in {"stopped", "running", "paused", "completed"} /\ sNow \in Nat
        /\ stopEvent \in BOOLEAN /\ crossed \in BOOLEAN
    BY <1>0 DEF Scheduler!Init
  <2> QED BY <2>1, <2>2, <2>3, <2>4 DEF Scheduler!TypeOK
<1>2. \A l \in Scheduler!Loops : loop[l].at = "none" /\ loop[l].tick = 0 /\ published[l] = <<>>
  BY DEF Scheduler!Init
<1>3. \A l \in Scheduler!Loops : AtLastTick(l) /\ PlaysFrom(l) /\ ~Scheduler!Alive(l)
  BY <1>2 DEF AtLastTick, PlaysFrom, Scheduler!Alive
<1> QED
  BY <1>1, <1>2, <1>3 DEF SchedulerSafe, Scheduler!Init

(* A step that publishes nothing leaves what was published as it was. *)
LEMMA SchedulerQuiet ==
    ASSUME SchedulerSafe, UNCHANGED <<published, sNow>>,
           NEW l \in Scheduler!Loops, loop'[l].tick = loop[l].tick
    PROVE  /\ AtLastTick(l)'
           /\ from'[l] = from[l] /\ ~crossed => PlaysFrom(l)'
           /\ from'[l] = from[l] /\ ~crossed /\ Scheduler!Alive(l) => TimeOfTask(l)'
<1>1. AtLastTick(l)'
  BY DEF SchedulerSafe, AtLastTick
<1>2. from'[l] = from[l] /\ ~crossed => PlaysFrom(l)'
  BY DEF SchedulerSafe, PlaysFrom
<1>3. from'[l] = from[l] /\ ~crossed /\ Scheduler!Alive(l) => TimeOfTask(l)'
  BY DEF SchedulerSafe, TimeOfTask
<1> QED BY <1>1, <1>2, <1>3

(* So does one after which the tasks that are alive were alive before, no  *)
(* task is new, and none of them is alive if the replay has just stopped.  *)
LEMMA SchedulerIdles ==
    ASSUME SchedulerSafe, UNCHANGED <<published, sNow, made, from, crossed>>, Scheduler!TypeOK',
           \A l \in Scheduler!Loops :
               /\ loop'[l].tick = loop[l].tick
               /\ loop[l].at = "none" => loop'[l].at = "none"
               /\ Scheduler!Alive(l)' => Scheduler!Alive(l),
           ~crossed => stopping' \in {0, made},
           sState' # "stopped" \/ sState = "stopped"
               \/ (~crossed => \A l \in Scheduler!Loops : ~Scheduler!Alive(l)')
    PROVE  SchedulerSafe'
<1>1. ASSUME NEW l \in Scheduler!Loops
      PROVE  AtLastTick(l)' /\ (l > made' => loop'[l].at = "none" /\ published'[l] = <<>>)
  <2>1. l > made => loop[l].at = "none" /\ published[l] = <<>>
    BY DEF SchedulerSafe
  <2> QED BY <2>1, <1>1, SchedulerQuiet
<1>2. ASSUME ~crossed', NEW l \in Scheduler!Loops
      PROVE  PlaysFrom(l)' /\ (Scheduler!Alive(l)' => l = made' /\ TimeOfTask(l)')
  <2>1. Scheduler!Alive(l) => l = made
    BY <1>2 DEF SchedulerSafe
  <2> QED BY <2>1, <1>2, SchedulerQuiet
<1>3. ~crossed' => stopping' \in {0, made'}
  OBVIOUS
<1>4. ASSUME ~crossed', sState' = "stopped", NEW l \in Scheduler!Loops
      PROVE  ~Scheduler!Alive(l)'
  BY <1>4 DEF SchedulerSafe
<1> QED BY <1>1, <1>2, <1>3, <1>4 DEF SchedulerSafe

(* A start that meets no task and no stop makes the only task alive; it    *)
(* plays from the current time.                                            *)
LEMMA SchedulerStart == SchedulerSafe /\ Scheduler!Start => SchedulerSafe'
<1> SUFFICES ASSUME SchedulerSafe, Scheduler!Start PROVE SchedulerSafe'
  OBVIOUS
<1>. DEFINE new == made + 1
<1>0. /\ made \in 0..MaxLoops /\ made < MaxLoops /\ MaxLoops \in Nat /\ new \in 1..MaxLoops
      /\ Scheduler!Loops = 1..MaxLoops /\ new # made /\ TickTime \in Seq(Nat)
      /\ loop \in [Scheduler!Loops -> [at : {"none", "ready", "publishing", "completing", "over", "failed"},
                           tick : 0..Len(TickTime)]]
      /\ published \in [Scheduler!Loops -> Seq(DOMAIN TickTime)]
      /\ sNow \in Nat /\ from \in [Scheduler!Loops -> Nat]
  BY ReplayInstance DEF SchedulerSafe, Scheduler!TypeOK, Scheduler!SchedulerConstants,
     Scheduler!Loops, Scheduler!Start
<1>1. /\ loop' = [loop EXCEPT ![new].at = "ready"] /\ from' = [from EXCEPT ![new] = sNow]
      /\ made' = new /\ sState' = "running"
      /\ UNCHANGED <<sNow, stopping, published>>
      /\ crossed' = (crossed \/ stopping # 0 \/ \E l \in Scheduler!Loops : Scheduler!Alive(l))
  BY DEF Scheduler!Start
<1>. HIDE DEF new
<1>2. /\ \A l \in Scheduler!Loops : loop'[l].tick = loop[l].tick
      /\ \A l \in Scheduler!Loops : l # new => loop'[l] = loop[l] /\ from'[l] = from[l]
      /\ loop'[new].at = "ready" /\ from'[new] = sNow
  BY <1>0, <1>1
<1>3. Scheduler!TypeOK'
  <2>1. loop' \in [Scheduler!Loops -> [at : {"none", "ready", "publishing", "completing", "over", "failed"},
                           tick : 0..Len(TickTime)]]
    BY <1>0, <1>1
  <2>2. stopping' \in 0..made' /\ made' \in 0..MaxLoops
    BY <1>0, <1>1 DEF SchedulerSafe, Scheduler!TypeOK, new
  <2>3. crossed' \in BOOLEAN /\ stopEvent' \in BOOLEAN
    BY <1>1 DEF Scheduler!Start
  <2>4. published' \in [Scheduler!Loops -> Seq(DOMAIN TickTime)] /\ sNow' \in Nat
        /\ from' \in [Scheduler!Loops -> Nat] /\ sState' = "running"
    BY <1>0, <1>1
  <2> QED BY <2>1, <2>2, <2>3, <2>4 DEF Scheduler!TypeOK
<1>4. ASSUME NEW l \in Scheduler!Loops
      PROVE  AtLastTick(l)' /\ (l > made' => loop'[l].at = "none" /\ published'[l] = <<>>)
  <2>1. l > new => l > made /\ l # new
    BY <1>0, <1>4 DEF new
  <2>2. l > made => loop[l].at = "none" /\ published[l] = <<>>
    BY DEF SchedulerSafe
  <2>3. loop'[l].tick = loop[l].tick
    BY <1>2
  <2> QED BY <2>1, <2>2, <2>3, <1>1, <1>2, SchedulerQuiet
<1>5. published[new] = <<>>
  BY <1>0 DEF SchedulerSafe, new
<1>6. ASSUME ~crossed', NEW l \in Scheduler!Loops
      PROVE  PlaysFrom(l)' /\ (Scheduler!Alive(l)' => l = made' /\ TimeOfTask(l)')
  <2>1. ~crossed /\ ~Scheduler!Alive(l)
    BY <1>1, <1>6
  <2>2. CASE l = new
    BY <2>2, <1>1, <1>2, <1>5 DEF PlaysFrom, TimeOfTask
  <2>3. CASE l # new
    BY <2>1, <2>3, <1>1, <1>2, SchedulerQuiet DEF Scheduler!Alive
  <2> QED BY <2>2, <2>3
<1>7. ~crossed' => stopping' \in {0, made'}
  BY <1>1
<1> QED BY <1>1, <1>3, <1>4, <1>6, <1>7 DEF SchedulerSafe

(* A task that publishes plays the next tick. *)
LEMMA SchedulerPublishes ==
    ASSUME SchedulerSafe, NEW l \in Scheduler!Loops, Scheduler!PublishNext(l)
    PROVE  SchedulerSafe'
<1>. DEFINE i == Scheduler!Min(Scheduler!Later(l))
            n == Len(published[l])
            first == {j \in DOMAIN TickTime : TickTime[j] >= from[l]}
            Place0 == [at : {"none", "ready", "publishing", "completing", "over", "failed"},
                       tick : 0..Len(TickTime)]
<1>0. /\ Scheduler!Loops = 1..MaxLoops /\ TickTime \in Seq(Nat)
      /\ loop \in [Scheduler!Loops -> Place0]
      /\ published \in [Scheduler!Loops -> Seq(DOMAIN TickTime)] /\ published[l] \in Seq(DOMAIN TickTime)
      /\ sNow \in Nat /\ from \in [Scheduler!Loops -> Nat] /\ n \in Nat
      /\ DOMAIN TickTime = 1..Len(TickTime)
  BY ReplayInstance DEF SchedulerSafe, Scheduler!TypeOK, Scheduler!SchedulerConstants, Scheduler!Loops
<1>1. /\ Scheduler!Alive(l) /\ Scheduler!Later(l) # {} /\ sState = "running"
      /\ loop' = [loop EXCEPT ![l] = [at |-> "publishing", tick |-> i]]
      /\ sNow' = TickTime[i] /\ published' = [published EXCEPT ![l] = Append(published[l], i)]
      /\ UNCHANGED <<sState, stopEvent, made, stopping, from, crossed>>
  BY DEF Scheduler!PublishNext, Scheduler!MayGoOn
<1>2. i \in DOMAIN TickTime
  <2>1. Scheduler!Later(l) \in SUBSET Nat /\ Scheduler!Later(l) \subseteq DOMAIN TickTime
    BY <1>0 DEF Scheduler!Later
  <2> QED BY <2>1, <1>1, FirstTick
<1>3. ~crossed => TickTime[i] >= sNow /\ i = Scheduler!Min(first) + n
  BY <1>1, NextTick
<1>. HIDE DEF i
<1>10. published'[l] = Append(published[l], i)
  BY <1>0, <1>1
<1>4. /\ published'[l] = Append(published[l], i) /\ Len(published'[l]) = n + 1
      /\ published'[l][n + 1] = i /\ published'[l] # <<>>
      /\ \A j \in 1..n : published'[l][j] = published[l][j]
      /\ DOMAIN published'[l] = 1..(n + 1) /\ DOMAIN published[l] = 1..n
  <2>. DEFINE more == Append(published[l], i)
  <2>1. /\ more # <<>> /\ Len(more) = n + 1 /\ more[n + 1] = i
        /\ \A j \in 1..n : more[j] = published[l][j]
        /\ DOMAIN more = 1..(n + 1) /\ DOMAIN published[l] = 1..n
    <3>1. published[l] \in Seq(DOMAIN TickTime) /\ i \in DOMAIN TickTime
      BY <1>0, <1>2
    <3>2. more # <<>> /\ Len(more) = n + 1
      BY <3>1, OneMore
    <3>3. more[n + 1] = i
      BY <3>1, OneMore
    <3>4. \A j \in 1..n : more[j] = published[l][j]
      BY <3>1, OneMore
    <3>5. DOMAIN more = 1..(n + 1) /\ DOMAIN published[l] = 1..n
      BY <3>1, OneMore
    <3> QED BY <3>2, <3>3, <3>4, <3>5
  <2>2. published'[l] = more
    BY <1>10
  <2>. HIDE DEF more, n
  <2> QED BY <1>10, <2>1, <2>2 DEF more
<1>. HIDE DEF n
<1>5. /\ loop'[l].tick = i /\ loop'[l].at = "publishing"
      /\ \A k \in Scheduler!Loops : k # l => loop'[k] = loop[k] /\ published'[k] = published[k]
  BY <1>0, <1>1
<1>6. Scheduler!TypeOK'
  <2>1. loop' \in [Scheduler!Loops -> Place0]
    <3>1. [at |-> "publishing", tick |-> i] \in Place0
      BY <1>0, <1>2
    <3> QED BY <3>1, <1>0, <1>1, Zenon
  <2>2. published' \in [Scheduler!Loops -> Seq(DOMAIN TickTime)]
    <3>1. Append(published[l], i) \in Seq(DOMAIN TickTime)
      BY <1>0, <1>2
    <3> QED BY <3>1, <1>0, <1>1, Zenon
  <2>3. sNow' \in Nat
    BY <1>0, <1>1, <1>2
  <2> QED BY <2>1, <2>2, <2>3, <1>1 DEF SchedulerSafe, Scheduler!TypeOK
<1>7. ASSUME NEW k \in Scheduler!Loops
      PROVE  AtLastTick(k)' /\ (k > made' => loop'[k].at = "none" /\ published'[k] = <<>>)
  <2>0. AtLastTick(k) /\ (k > made => loop[k].at = "none" /\ published[k] = <<>>)
    BY DEF SchedulerSafe
  <2>1. CASE k = l
    <3>1. ~(l > made)
      BY <1>1, <2>0, <2>1 DEF Scheduler!Alive
    <3> QED BY <3>1, <2>1, <1>1, <1>4, <1>5 DEF AtLastTick
  <2>2. CASE k # l
    BY <2>0, <2>2, <1>1, <1>5 DEF AtLastTick
  <2> QED BY <2>1, <2>2
<1>8. ASSUME ~crossed', NEW k \in Scheduler!Loops
      PROVE  PlaysFrom(k)' /\ (Scheduler!Alive(k)' => k = made' /\ TimeOfTask(k)')
  <2>0. ~crossed /\ PlaysFrom(k) /\ PlaysFrom(l) /\ TimeOfTask(l)
        /\ (Scheduler!Alive(k) => k = made) /\ l = made
    BY <1>1, <1>8 DEF SchedulerSafe
  <2>1. CASE k = l
    <3>1. i \in first
      <4>1. sNow >= from[l]
        <5>1. CASE published[l] = <<>>
          BY <2>0, <5>1, <1>0 DEF TimeOfTask
        <5>2. CASE published[l] # <<>>
          <6>1. n \in DOMAIN published[l] /\ loop[l].tick = published[l][n]
            BY <5>2, <1>0, <1>4, <1>8 DEF SchedulerSafe, AtLastTick, n
          <6>2. published[l][n] \in first
            BY <6>1, <2>0 DEF PlaysFrom
          <6>3. sNow = TickTime[loop[l].tick]
            BY <5>2, <2>0 DEF TimeOfTask
          <6> QED BY <6>1, <6>2, <6>3
        <5> QED BY <5>1, <5>2
      <4>2. TickTime[i] \in Nat /\ from[l] \in Nat
        BY <1>0, <1>2
      <4> QED BY <4>1, <4>2, <1>0, <1>2, <1>3, <2>0
    <3>2. i = Scheduler!Min(first) + (n + 1) - 1
      <4>1. first \in SUBSET Nat /\ first # {}
        BY <3>1, <1>0
      <4> QED BY <4>1, FirstTick, <1>0, <1>3, <2>0
    <3>3. PlaysFrom(l)'
      <4>1. ASSUME NEW j \in DOMAIN published'[l]
            PROVE  published'[l][j] \in first /\ published'[l][j] = Scheduler!Min(first) + j - 1
        <5>1. CASE j = n + 1
          BY <5>1, <1>4, <3>1, <3>2
        <5>2. CASE j # n + 1
          <6>1. j \in 1..n
            BY <5>2, <4>1, <1>0, <1>4
          <6> QED BY <6>1, <2>0, <1>4 DEF PlaysFrom
        <5> QED BY <5>1, <5>2
      <4> QED BY <4>1, <1>1 DEF PlaysFrom
    <3> QED BY <2>0, <2>1, <3>3, <1>1, <1>4, <1>5 DEF TimeOfTask
  <2>2. CASE k # l
    BY <2>0, <2>2, <1>1, <1>5 DEF PlaysFrom, Scheduler!Alive
  <2> QED BY <2>1, <2>2
<1>9. (~crossed' => stopping' \in {0, made'}) /\ sState' # "stopped"
  BY <1>1 DEF SchedulerSafe
<1> QED BY <1>6, <1>7, <1>8, <1>9 DEF SchedulerSafe

(* The places a task can be at but alive. *)
LEMMA SchedulerNext == SchedulerSafe /\ [Scheduler!Next]_schedulerVars => SchedulerSafe'
<1> SUFFICES ASSUME SchedulerSafe, [Scheduler!Next]_schedulerVars PROVE SchedulerSafe'
  OBVIOUS
<1>. DEFINE Place0 == [at : {"none", "ready", "publishing", "completing", "over", "failed"},
                       tick : 0..Len(TickTime)]
<1>0. /\ made \in 0..MaxLoops /\ Scheduler!Loops = 1..MaxLoops /\ MaxLoops \in Nat
      /\ loop \in [Scheduler!Loops -> Place0] /\ Scheduler!TypeOK
      /\ ~crossed => stopping \in {0, made}
  BY ReplayInstance DEF SchedulerSafe, Scheduler!TypeOK, Scheduler!SchedulerConstants, Scheduler!Loops
<1>1. CASE Scheduler!Start
  BY <1>1, SchedulerStart
<1>2. CASE Scheduler!Pause \/ Scheduler!Resume
  <2>1. /\ UNCHANGED <<published, sNow, made, from, crossed, loop, stopping, stopEvent>>
        /\ sState' \in {"paused", "running"}
    BY <1>2 DEF Scheduler!Pause, Scheduler!Resume
  <2>2. Scheduler!TypeOK'
    BY <2>1, <1>0 DEF Scheduler!TypeOK
  <2> QED BY <2>1, <2>2, <1>0, SchedulerIdles DEF Scheduler!Alive
<1>3. CASE Scheduler!Stop
  <2>1. /\ UNCHANGED <<published, sNow, made, from, crossed, loop>>
        /\ \/ made = 0 /\ sState' = "stopped" /\ stopping' = stopping
           \/ stopping' = made /\ sState' = sState
        /\ stopEvent' = TRUE /\ stopping = 0
    BY <1>3 DEF Scheduler!Stop
  <2>4. stopping' \in 0..made' /\ sState' \in {"stopped", sState}
    BY <2>1, <1>0
  <2>2. Scheduler!TypeOK'
    BY <2>1, <2>4, <1>0 DEF Scheduler!TypeOK
  <2>3. made = 0 => \A l \in Scheduler!Loops : ~Scheduler!Alive(l)'
    <3>1. made = 0 => \A l \in Scheduler!Loops : loop[l].at = "none"
      BY <1>0 DEF SchedulerSafe
    <3> QED BY <3>1, <2>1 DEF Scheduler!Alive
  <2> QED BY <2>1, <2>2, <2>3, <1>0, SchedulerIdles DEF Scheduler!Alive
<1>4. CASE Scheduler!StopEnds
  <2>1. /\ UNCHANGED <<published, sNow, made, from, crossed, loop, stopEvent>>
        /\ sState' \in {"stopped", sState} /\ stopping # 0 /\ stopping' = 0
        /\ loop[stopping].at \in {"over", "failed"}
    BY <1>4 DEF Scheduler!StopEnds
  <2>2. Scheduler!TypeOK'
    BY <2>1, <1>0 DEF Scheduler!TypeOK
  <2>3. ASSUME ~crossed, NEW l \in Scheduler!Loops
        PROVE  ~Scheduler!Alive(l)'
    <3>1. Scheduler!Alive(l) => l = made
      BY <2>3 DEF SchedulerSafe
    <3>2. stopping = made
      BY <2>1, <2>3, <1>0
    <3> QED BY <3>1, <3>2, <2>1 DEF Scheduler!Alive
  <2> QED BY <2>1, <2>2, <2>3, <1>0, SchedulerIdles DEF Scheduler!Alive
<1>5. ASSUME NEW l \in Scheduler!Loops, Scheduler!PublishNext(l)
      PROVE  SchedulerSafe'
  BY <1>5, SchedulerPublishes
<1>6. ASSUME NEW l \in Scheduler!Loops,
             Scheduler!LoopEnds(l) \/ Scheduler!CompletionTold(l) \/ Scheduler!HandlerRaises(l)
      PROVE  SchedulerSafe'
  <2>1. /\ UNCHANGED <<published, sNow, made, from, crossed, stopping, stopEvent>>
        /\ sState' \in {"completed", sState} /\ loop[l].at # "none"
        /\ \E place \in {"completing", "over", "failed"} : loop' = [loop EXCEPT ![l].at = place]
    BY <1>6 DEF Scheduler!LoopEnds, Scheduler!CompletionTold, Scheduler!HandlerRaises, Scheduler!Alive
  <2>2. PICK place \in {"completing", "over", "failed"} : loop' = [loop EXCEPT ![l].at = place]
    BY <2>1
  <2>3. loop' \in [Scheduler!Loops -> Place0]
    BY <2>2, <1>0
  <2>4. Scheduler!TypeOK'
    BY <2>1, <2>3, <1>0 DEF Scheduler!TypeOK
  <2>5. \A k \in Scheduler!Loops :
            /\ loop'[k].tick = loop[k].tick
            /\ loop[k].at = "none" => loop'[k].at = "none"
            /\ Scheduler!Alive(k)' => Scheduler!Alive(k)
    BY <2>1, <2>2, <1>0 DEF Scheduler!Alive
  <2> QED BY <2>1, <2>4, <2>5, <1>0, SchedulerIdles
<1>7. CASE UNCHANGED schedulerVars
  <2>1. UNCHANGED <<sState, published, sNow, made, from, crossed, loop, stopping, stopEvent>>
    BY <1>7 DEF schedulerVars
  <2>2. Scheduler!TypeOK'
    BY <2>1, <1>0 DEF Scheduler!TypeOK
  <2> QED BY <2>1, <2>2, <1>0, SchedulerIdles DEF Scheduler!Alive
<1> QED
  BY <1>1, <1>2, <1>3, <1>4, <1>5, <1>6, <1>7 DEF Scheduler!Next, Scheduler!Run

-----------------------------------------------------------------------------
LEMMA Stretched ==
    ASSUME NEW d \in Nat, NEW s \in Nat
    PROVE  d * s \in Nat /\ (d + 1) * s = d * s + s /\ 0 * s = 0
OBVIOUS

LEMMA ClockStarts == Clock!Init => ClockSafe
<1> SUFFICES ASSUME Clock!Init PROVE ClockSafe
  OBVIOUS
<1>1. Speeds \subseteq Nat \ {0} /\ Speeds # {} /\ MaxTime \in Nat
  BY ReplayInstance DEF Clock!ClockConstants
<1>2. PICK s \in Speeds : \A t \in Speeds : s <= t
  <2>1. Speeds \in SUBSET Nat
    BY <1>1
  <2> QED BY <2>1, <1>1, LeastExists
<1>3. cSpeed \in Speeds
  BY <1>2 DEF Clock!Init
<1>4. real = 0 /\ since = -1 /\ elapsed = 0 /\ cPlayed = 0 /\ paused = FALSE /\ disturbed = FALSE
  BY DEF Clock!Init, Clock!None
<1>5. Clock!TypeOK
  <2>1. real \in 0..MaxTime /\ since \in {-1} \cup 0..MaxTime
    BY <1>1, <1>4
  <2>2. elapsed \in Nat /\ cPlayed \in Nat /\ paused \in BOOLEAN /\ disturbed \in BOOLEAN
    BY <1>4
  <2> QED BY <2>1, <2>2, <1>3 DEF Clock!TypeOK, Clock!None
<1>6. Clock!ClockShowsPlayed
  BY <1>4 DEF Clock!ClockShowsPlayed, Clock!UpdatedElapsed, Clock!None
<1> QED
  BY <1>4, <1>5, <1>6 DEF ClockSafe, Clock!None

LEMMA ClockNext == ClockSafe /\ [Clock!Next]_clockVars => ClockSafe'
<1> SUFFICES ASSUME ClockSafe, [Clock!Next]_clockVars PROVE ClockSafe'
  OBVIOUS
<1>. DEFINE gone == (real - since) * cSpeed
            goneThen == (real' - since') * cSpeed'
<1>0. /\ real \in 0..MaxTime /\ since \in {-1} \cup 0..MaxTime /\ MaxTime \in Nat /\ real \in Nat
      /\ elapsed \in Nat /\ cPlayed \in Nat /\ cSpeed \in Speeds /\ cSpeed \in Nat
      /\ Speeds \subseteq Nat /\ paused \in BOOLEAN /\ disturbed \in BOOLEAN
      /\ since # -1 => since \in Nat /\ real - since \in Nat
      /\ ~disturbed => cPlayed = IF paused THEN elapsed ELSE IF since = -1 THEN elapsed ELSE elapsed + gone
  BY ReplayInstance
     DEF ClockSafe, Clock!TypeOK, Clock!None, Clock!ClockConstants, Clock!ClockShowsPlayed, Clock!UpdatedElapsed
<1>1. since # -1 => gone \in Nat /\ ((real + 1) - since) * cSpeed = gone + cSpeed
  <2>1. since # -1 => ((real - since) + 1) * cSpeed = gone + cSpeed /\ gone \in Nat
    BY <1>0, Stretched
  <2>2. since # -1 => (real + 1) - since = (real - since) + 1
    BY <1>0
  <2> QED BY <2>1, <2>2
<1>2. Clock!UpdatedElapsed = (IF since = -1 THEN elapsed ELSE elapsed + gone)
      /\ Clock!UpdatedElapsed \in Nat
      /\ Clock!UpdatedSince = (IF since = -1 THEN -1 ELSE real)
      /\ (since = real => Clock!UpdatedElapsed = elapsed)
  <2>1. since = real => gone = 0
    <3>1. since = real => real - since = 0
      BY <1>0
    <3> QED BY <3>1, <1>0, Stretched
  <2>2. Clock!UpdatedElapsed = (IF since = -1 THEN elapsed ELSE elapsed + gone)
        /\ Clock!UpdatedSince = IF since = -1 THEN -1 ELSE real
    BY DEF Clock!UpdatedElapsed, Clock!UpdatedSince, Clock!None
  <2>. HIDE DEF gone
  <2> QED BY <2>1, <2>2, <1>0, <1>1
<1>3. ClockSafe' <=>
          /\ real' \in 0..MaxTime /\ since' \in {-1} \cup 0..MaxTime
          /\ elapsed' \in Nat /\ cPlayed' \in Nat /\ cSpeed' \in Speeds
          /\ paused' \in BOOLEAN /\ disturbed' \in BOOLEAN
          /\ since' # -1 => since' <= real'
          /\ ~disturbed' => cPlayed' = IF paused' THEN elapsed' ELSE
                 IF since' = -1 THEN elapsed' ELSE elapsed' + goneThen
  BY DEF ClockSafe, Clock!TypeOK, Clock!None, Clock!ClockShowsPlayed, Clock!UpdatedElapsed
<1>4. \A s \in Speeds : (real - real) * s = 0
  <2>1. real - real = 0
    BY <1>0
  <2> QED BY <2>1, <1>0, Stretched
<1>. HIDE DEF gone
<1>5. CASE Clock!TimePasses
  <2>1. /\ real < MaxTime /\ real' = real + 1
        /\ cPlayed' = IF since = -1 \/ paused THEN cPlayed ELSE cPlayed + cSpeed
        /\ UNCHANGED <<since, elapsed, cSpeed, paused, disturbed>>
    BY <1>5 DEF Clock!TimePasses, Clock!None
  <2>2. since' # -1 => since' <= real'
    BY <2>1, <1>0
  <2>3. ~disturbed' => cPlayed' = IF paused' THEN elapsed' ELSE
                 IF since' = -1 THEN elapsed' ELSE elapsed' + goneThen
    <3>1. since # -1 => goneThen = gone + cSpeed
      BY <2>1, <1>1
    <3>. HIDE DEF goneThen
    <3> QED BY <3>1, <2>1, <1>0, <1>1
  <2>4. real' \in 0..MaxTime /\ cPlayed' \in Nat
    BY <2>1, <1>0
  <2>. HIDE DEF goneThen
  <2> QED BY <2>1, <2>2, <2>3, <2>4, <1>0, <1>3
<1>6. CASE Clock!Start
  <2>1. /\ since' = real /\ elapsed' = 0 /\ cPlayed' = 0 /\ paused' = FALSE /\ disturbed' = FALSE
        /\ UNCHANGED <<real, cSpeed>>
    BY <1>6 DEF Clock!Start
  <2>2. goneThen = 0
    BY <2>1, <1>0, <1>4
  <2>. HIDE DEF goneThen
  <2>3. /\ real' \in 0..MaxTime /\ since' \in {-1} \cup 0..MaxTime
        /\ elapsed' \in Nat /\ cPlayed' \in Nat /\ cSpeed' \in Speeds
        /\ paused' \in BOOLEAN /\ disturbed' \in BOOLEAN
    BY <2>1, <1>0
  <2>4. since' # -1 => since' <= real'
    BY <2>1, <1>0
  <2>5. cPlayed' = elapsed' /\ elapsed' + goneThen = elapsed'
    BY <2>1, <2>2
  <2> QED BY <2>3, <2>4, <2>5, <1>3
<1>7. CASE Clock!Pause
  <2>1. /\ ~paused /\ elapsed' = Clock!UpdatedElapsed /\ since' = Clock!UpdatedSince
        /\ paused' = TRUE /\ UNCHANGED <<real, cSpeed, cPlayed, disturbed>>
    BY <1>7 DEF Clock!Pause
  <2>. HIDE DEF goneThen
  <2> QED BY <2>1, <1>0, <1>2, <1>3
<1>8. CASE Clock!Resume
  <2>1. /\ paused /\ since' = real /\ paused' = FALSE
        /\ UNCHANGED <<real, elapsed, cSpeed, cPlayed, disturbed>>
    BY <1>8 DEF Clock!Resume
  <2>2. goneThen = 0
    BY <2>1, <1>0, <1>4
  <2>. HIDE DEF goneThen
  <2>3. /\ real' \in 0..MaxTime /\ since' \in {-1} \cup 0..MaxTime
        /\ elapsed' \in Nat /\ cPlayed' \in Nat /\ cSpeed' \in Speeds
        /\ paused' \in BOOLEAN /\ disturbed' \in BOOLEAN
    BY <2>1, <1>0
  <2>4. since' # -1 => since' <= real'
    BY <2>1, <1>0
  <2>5. ~disturbed' => cPlayed' = elapsed' /\ elapsed' + goneThen = elapsed'
    BY <2>1, <2>2, <1>0
  <2>6. ~disturbed' => cPlayed' = IF paused' THEN elapsed' ELSE
                 IF since' = -1 THEN elapsed' ELSE elapsed' + goneThen
    BY <2>5
  <2> QED BY <2>3, <2>4, <2>6, <1>3
<1>9. ASSUME NEW s \in Speeds, Clock!ChangeSpeed(s)
      PROVE  ClockSafe'
  <2>1. /\ elapsed' = Clock!UpdatedElapsed /\ since' = real /\ cSpeed' = s
        /\ disturbed' = (disturbed \/ (paused /\ since # real))
        /\ UNCHANGED <<real, paused, cPlayed>>
    BY <1>9 DEF Clock!ChangeSpeed
  <2>2. goneThen = 0
    BY <2>1, <1>0, <1>4
  <2>. HIDE DEF goneThen
  <2>3. /\ real' \in 0..MaxTime /\ since' \in {-1} \cup 0..MaxTime
        /\ elapsed' \in Nat /\ cPlayed' \in Nat /\ cSpeed' \in Speeds
        /\ paused' \in BOOLEAN /\ disturbed' \in BOOLEAN
    BY <2>1, <1>0, <1>2
  <2>4. since' # -1 => since' <= real'
    BY <2>1, <1>0
  <2>5. ~disturbed' => cPlayed' = elapsed'
    <3>1. ASSUME ~disturbed' PROVE ~disturbed /\ (paused => since = real)
      BY <2>1, <3>1
    <3> QED BY <3>1, <2>1, <1>0, <1>2
  <2>7. elapsed' \in Nat
    BY <2>3
  <2>6. elapsed' + goneThen = elapsed'
    <3>1. \A x \in Nat : x + 0 = x
      OBVIOUS
    <3> QED BY <3>1, <2>2, <2>7
  <2> QED BY <2>3, <2>4, <2>5, <2>6, <1>3
<1>10. CASE Clock!Look
  <2>1. /\ elapsed' = Clock!UpdatedElapsed /\ since' = Clock!UpdatedSince
        /\ disturbed' = (disturbed \/ (paused /\ since # real))
        /\ UNCHANGED <<real, cSpeed, paused, cPlayed>>
    BY <1>10 DEF Clock!Look
  <2>2. since # -1 => goneThen = 0
    <3>1. since # -1 => real' = real /\ since' = real /\ cSpeed' \in Speeds
      BY <2>1, <1>0, <1>2
    <3> QED BY <3>1, <1>4
  <2>. HIDE DEF goneThen
  <2> QED BY <2>1, <2>2, <1>0, <1>2, <1>3
<1>11. CASE UNCHANGED clockVars
  BY <1>11 DEF clockVars, ClockSafe, Clock!TypeOK, Clock!None, Clock!ClockShowsPlayed, Clock!UpdatedElapsed
<1> QED BY <1>5, <1>6, <1>7, <1>8, <1>9, <1>10, <1>11 DEF Clock!Next

-----------------------------------------------------------------------------
(* What holds of one kind of data and of what was looked at and played.    *)
LEMMA KindFacts ==
    ASSUME Player!TypeOK, NEW k \in Player!Kind
    PROVE  /\ Player!Time(k) \in Seq(Nat) /\ DOMAIN Player!Time(k) = 1..Len(Player!Time(k))
           /\ Len(Player!Time(k)) \in Nat
           /\ \A i, j \in DOMAIN Player!Time(k) : i < j => Player!Time(k)[i] <= Player!Time(k)[j]
           /\ iter[k] \in {-1} \cup 0..Len(Player!Time(k)) /\ iter[k] \in Int
           /\ buffer[k] \in 0..Len(Player!Time(k)) /\ stale[k] \in 0..Len(Player!Time(k))
           /\ played[k] \in Seq(DOMAIN Player!Time(k)) /\ now \in Nat /\ Len(played[k]) \in Nat
<1>1. Player!Time(k) \in Seq(Nat)
      /\ \A i, j \in DOMAIN Player!Time(k) : i < j => Player!Time(k)[i] <= Player!Time(k)[j]
  BY ReplayInstance DEF Player!ReplayConstants, Player!Time
<1>2. /\ iter[k] \in {-1} \cup 0..Len(Player!Time(k))
      /\ buffer[k] \in 0..Len(Player!Time(k)) /\ stale[k] \in 0..Len(Player!Time(k))
      /\ played[k] \in Seq(DOMAIN Player!Time(k)) /\ now \in Nat
  BY DEF Player!TypeOK, Player!None
<1>3. iter[k] \in Int /\ Len(played[k]) \in Nat /\ Len(Player!Time(k)) \in Nat
  BY <1>1, <1>2
<1> QED BY <1>1, <1>2, <1>3

LEMMA FreshFacts ==
    ASSUME Player!TypeOK, NEW k \in Player!Kind
    PROVE  /\ Player!Fresh(k) \in Seq(DOMAIN Player!Time(k))
           /\ DOMAIN Player!Fresh(k) = 1..Len(Player!Fresh(k)) /\ Len(Player!Fresh(k)) \in Nat
           /\ played[k] = <<>> \/ stale[k] = 0 => Player!Fresh(k) = played[k]
<1>1. played[k] \in Seq(DOMAIN Player!Time(k))
  BY KindFacts
<1>2. Player!Fresh(k) = IF stale[k] # 0 /\ played[k] # <<>> THEN Tail(played[k]) ELSE played[k]
  BY DEF Player!Fresh
<1>3. Player!Fresh(k) \in Seq(DOMAIN Player!Time(k))
  <2>1. played[k] # <<>> => Tail(played[k]) \in Seq(DOMAIN Player!Time(k))
    BY <1>1, OneLess
  <2>2. Player!Fresh(k) = played[k] \/ (played[k] # <<>> /\ Player!Fresh(k) = Tail(played[k]))
    BY <1>2
  <2> QED BY <2>1, <2>2, <1>1
<1>4. DOMAIN Player!Fresh(k) = 1..Len(Player!Fresh(k)) /\ Len(Player!Fresh(k)) \in Nat
  BY <1>3
<1>5. played[k] = <<>> \/ stale[k] = 0 => Player!Fresh(k) = played[k]
  BY <1>2
<1> QED BY <1>3, <1>4, <1>5

(* One more item played is one more item that start() did not find in the  *)
(* buffer, but for the one it found.                                       *)
LEMMA FreshAfter ==
    ASSUME Player!TypeOK, NEW k \in Player!Kind, NEW item \in DOMAIN Player!Time(k),
           played'[k] = Append(played[k], item), stale'[k] = stale[k]
    PROVE  Player!Fresh(k)' = IF Waits(k) THEN <<>> ELSE Append(Player!Fresh(k), item)
<1>. DEFINE p == played[k]
<1>1. p \in Seq(DOMAIN Player!Time(k))
  BY KindFacts
<1>2. Append(p, item) # <<>>
  BY <1>1, OneMore
<1>3. p # <<>> => Tail(Append(p, item)) = Append(Tail(p), item)
  BY <1>1
<1>4. p = <<>> => Tail(Append(p, item)) = <<>>
  BY <1>1
<1> QED BY <1>2, <1>3, <1>4 DEF Player!Fresh, Waits

(* A kind of which nothing is looked at and nothing played, and the time   *)
(* the others are measured by.                                             *)
LEMMA SameKind ==
    ASSUME NEW k \in Player!Kind, InOrderSoFar(k),
           UNCHANGED <<origin, stale>>, iter'[k] = iter[k], buffer'[k] = buffer[k], played'[k] = played[k]
    PROVE  /\ InOrderSoFar(k)'
           /\ NoGapSoFar(k) /\ now' = now
              /\ (\A other \in Player!Kind : played'[other] = played[other]) => NoGapSoFar(k)'
           /\ NoGapSoFar(k) /\ (\E other \in Player!Kind \ {k} : played'[other] # <<>>)
              => NoGapSoFar(k)'
<1>1. Player!Fresh(k)' = Player!Fresh(k) /\ Player!FromOrigin(k)' = Player!FromOrigin(k)
      /\ Waits(k)' = Waits(k)
  BY DEF Player!Fresh, Player!FromOrigin, Waits
<1>2. InOrderSoFar(k)'
  BY <1>1 DEF InOrderSoFar
<1>3. NoGapSoFar(k) /\ now' = now
      /\ (\A other \in Player!Kind : played'[other] = played[other]) => NoGapSoFar(k)'
  BY <1>1 DEF NoGapSoFar
<1>4. NoGapSoFar(k) /\ (\E other \in Player!Kind \ {k} : played'[other] # <<>>) => NoGapSoFar(k)'
  BY <1>1 DEF NoGapSoFar
<1> QED BY <1>2, <1>3, <1>4

(* What the iterator yields is after all that was played, and the next     *)
(* item as long as this is the only kind that is stepped.                  *)
LEMMA NextItem ==
    ASSUME PlayerSafe, NEW k \in Player!Kind, buffer[k] = 0, Player!Ahead(k, now) # 0
    PROVE  LET item  == Player!Ahead(k, now)
               first == Player!Min(Player!FromOrigin(k))
           IN /\ item \in DOMAIN Player!Time(k) /\ item \in Nat /\ item > iter[k]
              /\ item \in Player!FromOrigin(k) /\ ~Waits(k)
              /\ \A i \in DOMAIN Player!Fresh(k) : Player!Fresh(k)[i] < item
              /\ ~mixed /\ stale[k] = 0 /\ (\A other \in Player!Kind \ {k} : played[other] = <<>>) =>
                     item = first + Len(played[k])
<1>. DEFINE item  == Player!Ahead(k, now)
            first == Player!Min(Player!FromOrigin(k))
            time  == Player!Time(k)
            later == {i \in DOMAIN time : i > iter[k] /\ time[i] >= now}
            items == Player!Fresh(k)
            n     == Len(played[k])
<1>0. /\ time \in Seq(Nat) /\ DOMAIN time = 1..Len(time) /\ Len(time) \in Nat
      /\ \A i, j \in DOMAIN time : i < j => time[i] <= time[j]
      /\ iter[k] \in Int /\ now \in Nat /\ played[k] \in Seq(DOMAIN time) /\ n \in Nat
      /\ items \in Seq(DOMAIN time) /\ DOMAIN items = 1..Len(items)
      /\ iter[k] \in {-1} \cup 0..Len(time)
  BY KindFacts, FreshFacts DEF PlayerSafe
<1>1. InOrderSoFar(k) /\ origin \in Nat /\ origin <= now /\ (~mixed => NoGapSoFar(k))
  BY DEF PlayerSafe
<1>2. later # {} /\ item = Player!Min(later)
  BY DEF Player!Ahead
<1>3. item \in later /\ \A y \in later : item <= y
  <2>1. later \in SUBSET Nat
    BY <1>0
  <2>. HIDE DEF later
  <2> QED BY <2>1, <1>2, FirstItem
<1>. HIDE DEF item
<1>4. item \in DOMAIN time /\ item \in Nat /\ item > iter[k] /\ time[item] >= now /\ time[item] \in Nat
  BY <1>0, <1>3
<1>5. item \in Player!FromOrigin(k)
  BY <1>1, <1>4, <1>0 DEF Player!FromOrigin
<1>6. ~Waits(k)
  BY <1>1 DEF InOrderSoFar, Waits
<1>7. ASSUME NEW i \in DOMAIN items PROVE items[i] < item
  <2>1. items[i] <= iter[k]
    BY <1>1, <1>7 DEF InOrderSoFar
  <2>2. items[i] \in DOMAIN time
    BY <1>0, <1>7
  <2> QED BY <2>1, <2>2, <1>0, <1>4
<1>8. ASSUME ~mixed, stale[k] = 0, \A other \in Player!Kind \ {k} : played[other] = <<>>
      PROVE  item = first + n
  <2>1. /\ \A i \in 1..n : played[k][i] = first + i - 1
        /\ now = IF n = 0 THEN origin ELSE time[played[k][n]]
        /\ iter[k] = Len(time) \/ IF n = 0 THEN iter[k] <= 0 ELSE iter[k] = played[k][n]
    BY <1>1, <1>8 DEF NoGapSoFar
  <2>2. iter[k] # Len(time)
    BY <1>0, <1>4
  <2>3. first \in Nat
    <3>1. Player!FromOrigin(k) \in SUBSET Nat
      BY <1>0 DEF Player!FromOrigin
    <3> QED BY <3>1, <1>5, FirstItem
  <2>4. CASE n = 0
    <3>1. later = Player!FromOrigin(k)
      BY <2>1, <2>2, <2>4, <1>0 DEF Player!FromOrigin
    <3>2. item = first
      BY <3>1, <1>2
    <3> QED BY <3>2, <2>3, <2>4
  <2>5. CASE n # 0
    <3>. DEFINE prev == played[k][n]
    <3>1. n \in 1..n /\ prev \in DOMAIN time
      BY <2>5, <1>0
    <3>2. prev = first + n - 1 /\ now = time[prev] /\ iter[k] = prev
      BY <3>1, <2>1, <2>2, <2>5
    <3>. HIDE DEF prev, n, first
    <3>3. prev + 1 \in DOMAIN time /\ prev + 1 <= item /\ prev < prev + 1 /\ prev \in Nat
      BY <3>1, <3>2, <1>0, <1>4
    <3>4. time[prev] <= time[prev + 1]
      BY <3>1, <3>3, <1>0
    <3>5. prev + 1 \in later
      BY <3>2, <3>3, <3>4
    <3>6. item <= prev + 1
      BY <3>5, <1>3
    <3>7. item = prev + 1
      BY <3>3, <3>6, <1>4
    <3> QED BY <3>2, <3>3, <3>7, <2>3, <1>0
  <2> QED BY <2>4, <2>5
<1> QED BY <1>4, <1>5, <1>6, <1>7, <1>8 DEF item

(* A step that repositions nothing and lets one kind go on. *)
LEMMA KindMoves ==
    ASSUME PlayerSafe, NEW k \in Player!Kind, NEW it \in {-1} \cup 0..Len(Player!Time(k)),
           NEW b \in 0..Len(Player!Time(k)), NEW p \in Seq(DOMAIN Player!Time(k)),
           iter' = [iter EXCEPT ![k] = it], buffer' = [buffer EXCEPT ![k] = b],
           played' = [played EXCEPT ![k] = p], UNCHANGED <<origin, stale, speed, moves>>,
           rState' \in {"stopped", "running", "paused", "completed"}, now' \in Nat, origin <= now',
           at' \in [Controllers -> {"idle", "tick", "candle", "restart"}], mixed' \in BOOLEAN,
           InOrderSoFar(k)',
           ~mixed' => /\ ~mixed /\ NoGapSoFar(k)'
                      /\ \/ p = played[k] /\ now' = now
                         \/ p # <<>> /\ \A other \in Player!Kind \ {k} : played[other] = <<>>
    PROVE  PlayerSafe'
<1>0. /\ Player!TypeOK
      /\ iter \in [Player!Kind -> Int] /\ buffer \in [Player!Kind -> Nat] /\ stale \in [Player!Kind -> Nat]
      /\ played \in [Player!Kind -> Seq(Nat)] /\ origin \in Nat /\ StartTime <= origin
      /\ it \in Int /\ b \in Nat /\ p \in Seq(Nat)
  <2>1. Player!Time(k) \in Seq(Nat) /\ DOMAIN Player!Time(k) = 1..Len(Player!Time(k))
    BY KindFacts DEF PlayerSafe
  <2>2. p \in Seq(Nat) /\ it \in Int /\ b \in Nat
    BY <2>1
  <2> QED BY <2>2 DEF PlayerSafe
<1>1. /\ iter'[k] = it /\ buffer'[k] = b /\ played'[k] = p
      /\ \A other \in Player!Kind \ {k} : iter'[other] = iter[other] /\ buffer'[other] = buffer[other]
                                          /\ played'[other] = played[other]
  BY <1>0
<1>2. Player!TypeOK'
  <2>1. ASSUME NEW kind \in Player!Kind
        PROVE  /\ iter'[kind] \in {-1} \cup 0..Len(Player!Time(kind))
               /\ buffer'[kind] \in 0..Len(Player!Time(kind))
               /\ played'[kind] \in Seq(DOMAIN Player!Time(kind))
               /\ stale'[kind] \in 0..Len(Player!Time(kind))
    <3>1. /\ iter[kind] \in {-1} \cup 0..Len(Player!Time(kind))
          /\ buffer[kind] \in 0..Len(Player!Time(kind)) /\ stale[kind] \in 0..Len(Player!Time(kind))
          /\ played[kind] \in Seq(DOMAIN Player!Time(kind))
      BY <1>0, KindFacts
    <3>2. CASE kind = k
      BY <3>1, <3>2, <1>1
    <3>3. CASE kind # k
      BY <3>1, <3>3, <1>1
    <3> QED BY <3>2, <3>3
  <2>2. speed' \in Player!PlaybackSpeeds /\ moves' \in 0..MaxMoves
    BY <1>0 DEF Player!TypeOK
  <2> QED BY <2>1, <2>2 DEF Player!TypeOK, Player!None, Player!Time
<1>3. /\ iter' \in [Player!Kind -> Int] /\ buffer' \in [Player!Kind -> Nat]
      /\ stale' \in [Player!Kind -> Nat] /\ played' \in [Player!Kind -> Seq(Nat)]
  BY <1>0
<1>4. ASSUME NEW kind \in Player!Kind PROVE InOrderSoFar(kind)'
  <2>1. CASE kind = k
    BY <2>1
  <2>2. CASE kind # k
    <3>1. InOrderSoFar(kind)
      BY DEF PlayerSafe
    <3> QED BY <3>1, <2>2, <1>1, SameKind
  <2> QED BY <2>1, <2>2
<1>5. ASSUME ~mixed', NEW kind \in Player!Kind PROVE NoGapSoFar(kind)'
  <2>1. CASE kind = k
    BY <2>1, <1>5
  <2>2. CASE kind # k
    <3>1. InOrderSoFar(kind) /\ NoGapSoFar(kind) /\ k \in Player!Kind \ {kind}
      BY <1>5, <2>2 DEF PlayerSafe
    <3>2. CASE p = played[k] /\ now' = now
      <4>1. \A other \in Player!Kind : played'[other] = played[other]
        BY <1>1, <3>2
      <4> QED BY <3>1, <3>2, <4>1, <2>2, <1>1, SameKind
    <3>3. CASE p # <<>>
      <4>1. \E other \in Player!Kind \ {kind} : played'[other] # <<>>
        BY <1>1, <3>1, <3>3
      <4> QED BY <3>1, <4>1, <2>2, <1>1, SameKind
    <3> QED BY <3>2, <3>3, <1>5
  <2> QED BY <2>1, <2>2
<1>6. ASSUME ~mixed', NEW kind \in Player!Kind, NEW other \in Player!Kind, kind # other
      PROVE  played'[kind] = <<>> \/ played'[other] = <<>>
  <2>1. played[kind] = <<>> \/ played[other] = <<>>
    BY <1>6 DEF PlayerSafe
  <2>2. CASE p = played[k]
    BY <2>1, <2>2, <1>1, <1>6
  <2>3. CASE \A third \in Player!Kind \ {k} : played[third] = <<>>
    BY <2>3, <1>1, <1>6
  <2> QED BY <2>2, <2>3, <1>6
<1>7. origin' \in Nat /\ StartTime <= origin' /\ origin' <= now'
  BY <1>0
<1> QED BY <1>2, <1>3, <1>4, <1>5, <1>6, <1>7 DEF PlayerSafe

(* A step that touches neither data nor time. *)
LEMMA PlayerIdles ==
    ASSUME PlayerSafe, UNCHANGED <<now, iter, buffer, origin, stale, mixed, played>>,
           rState' \in {"stopped", "running", "paused", "completed"}, speed' \in Player!PlaybackSpeeds,
           at' \in [Controllers -> {"idle", "tick", "candle", "restart"}], moves' \in 0..MaxMoves
    PROVE  PlayerSafe'
<1>1. Player!TypeOK'
  BY DEF PlayerSafe, Player!TypeOK, Player!Time
<1>2. \A k \in Player!Kind : InOrderSoFar(k)' /\ (~mixed => NoGapSoFar(k)')
  BY SameKind DEF PlayerSafe
<1> QED BY <1>1, <1>2 DEF PlayerSafe

(* New iterators: nothing is played yet, and what is in the buffers was    *)
(* left there by a start.                                                  *)
LEMMA PlayerRepositions ==
    ASSUME PlayerSafe, NEW time \in Nat, StartTime <= time, NEW kept,
           (kept = buffer /\ time = StartTime) \/ kept = Player!Nothing,
           Player!Reposition(time, kept),
           rState' \in {"stopped", "running", "paused", "completed"}, speed' \in Player!PlaybackSpeeds,
           at' \in [Controllers -> {"idle", "tick", "candle", "restart"}], moves' \in 0..MaxMoves
    PROVE  PlayerSafe'
<1>0. /\ now' = time /\ iter' = [k \in Player!Kind |-> 0] /\ buffer' = kept /\ origin' = time
      /\ stale' = kept /\ mixed' = FALSE /\ played' = [k \in Player!Kind |-> <<>>]
  BY DEF Player!Reposition, Player!Rewound
<1>1. ASSUME NEW k \in Player!Kind
      PROVE  /\ kept[k] \in 0..Len(Player!Time(k)) /\ Len(Player!Time(k)) \in Nat
             /\ iter'[k] = 0 /\ played'[k] = <<>> /\ buffer'[k] = kept[k] /\ stale'[k] = kept[k]
             /\ played'[k] \in Seq(DOMAIN Player!Time(k))
  <2>1. kept[k] = buffer[k] \/ kept[k] = 0
    BY DEF Player!Nothing
  <2>2. buffer[k] \in 0..Len(Player!Time(k)) /\ Len(Player!Time(k)) \in Nat
    BY KindFacts DEF PlayerSafe
  <2>3. iter'[k] = 0 /\ played'[k] = <<>> /\ buffer'[k] = kept[k] /\ stale'[k] = kept[k]
    BY <1>0
  <2>4. played'[k] \in Seq(DOMAIN Player!Time(k))
    BY <2>3
  <2> QED BY <2>1, <2>2, <2>3, <2>4
<1>2. Player!TypeOK'
  <2>1. ASSUME NEW k \in Player!Kind
        PROVE  /\ iter'[k] \in {-1} \cup 0..Len(Player!Time(k))
               /\ buffer'[k] \in 0..Len(Player!Time(k))
               /\ played'[k] \in Seq(DOMAIN Player!Time(k))
               /\ stale'[k] \in 0..Len(Player!Time(k))
    BY <1>1
  <2>2. now' \in Nat /\ mixed' \in BOOLEAN
    BY <1>0
  <2> QED BY <2>1, <2>2 DEF Player!TypeOK, Player!None, Player!Time
<1>3. /\ iter' \in [Player!Kind -> Int] /\ buffer' \in [Player!Kind -> Nat]
      /\ stale' \in [Player!Kind -> Nat] /\ played' \in [Player!Kind -> Seq(Nat)]
  <2>1. kept \in [Player!Kind -> Nat]
    BY DEF Player!Nothing, PlayerSafe
  <2>2. <<>> \in Seq(Nat)
    OBVIOUS
  <2> QED BY <2>1, <2>2, <1>0
<1>4. ASSUME NEW k \in Player!Kind PROVE InOrderSoFar(k)' /\ NoGapSoFar(k)'
  <2>1. Player!Fresh(k)' = <<>> /\ DOMAIN Player!Fresh(k)' = {}
    BY <1>1 DEF Player!Fresh
  <2>2. Waits(k)' <=> kept[k] # 0
    BY <1>1 DEF Waits
  <2>3. kept[k] # 0 => kept[k] \in Player!FromOrigin(k)'
    <3>1. ASSUME kept[k] # 0
          PROVE  kept[k] \in Player!FromOrigin(k) /\ time = StartTime /\ StartTime <= origin
      BY <3>1 DEF Player!Nothing, PlayerSafe, InOrderSoFar
    <3>2. \A i \in DOMAIN Player!Time(k) : Player!Time(k)[i] \in Nat
      BY KindFacts DEF PlayerSafe
    <3>3. StartTime \in Nat /\ origin \in Nat
      BY ReplayInstance DEF Player!ReplayConstants, PlayerSafe
    <3> QED BY <3>1, <3>2, <3>3, <1>0 DEF Player!FromOrigin, Player!Time
  <2>4. InOrderSoFar(k)'
    BY <1>1, <2>1, <2>2, <2>3 DEF InOrderSoFar
  <2>5. NoGapSoFar(k)'
    BY <1>0, <1>1 DEF NoGapSoFar
  <2> QED BY <2>4, <2>5
<1>5. \A k \in Player!Kind : played'[k] = <<>>
  BY <1>1
<1>6. origin' \in Nat /\ StartTime <= origin' /\ origin' <= now'
  BY <1>0
<1> QED BY <1>2, <1>3, <1>4, <1>5, <1>6 DEF PlayerSafe

(* An iterator that is exhausted is put past the last item. *)
LEMMA IteratorEnds ==
    ASSUME PlayerSafe, NEW k \in Player!Kind, buffer[k] = 0,
           UNCHANGED <<origin, stale>>, buffer'[k] = 0, played'[k] = played[k],
           iter'[k] = Len(Player!Time(k))
    PROVE  InOrderSoFar(k)' /\ (~mixed /\ UNCHANGED <<now, played>> => NoGapSoFar(k)')
<1>. DEFINE items == Player!Fresh(k)
<1>0. /\ InOrderSoFar(k) /\ (~mixed => NoGapSoFar(k))
      /\ items \in Seq(DOMAIN Player!Time(k)) /\ DOMAIN items = 1..Len(items)
      /\ DOMAIN Player!Time(k) = 1..Len(Player!Time(k)) /\ Len(Player!Time(k)) \in Nat
  BY KindFacts, FreshFacts DEF PlayerSafe
<1>1. Player!Fresh(k)' = items /\ Player!FromOrigin(k)' = Player!FromOrigin(k)
      /\ Waits(k)' = Waits(k) /\ ~Waits(k)
  BY <1>0 DEF Player!Fresh, Player!FromOrigin, Waits, InOrderSoFar
<1>2. \A i \in DOMAIN items : items[i] <= Len(Player!Time(k))
  BY <1>0
<1>3. InOrderSoFar(k)'
  BY <1>0, <1>1, <1>2 DEF InOrderSoFar
<1>4. ASSUME ~mixed, UNCHANGED <<now, played>>
      PROVE  NoGapSoFar(k)'
  BY <1>0, <1>1, <1>4 DEF NoGapSoFar
<1> QED BY <1>3, <1>4

(* What is looked ahead at is what the iterator yields. *)
LEMMA ItemLooked ==
    ASSUME PlayerSafe, NEW k \in Player!Kind, buffer[k] = 0, Player!Ahead(k, now) # 0,
           UNCHANGED <<now, origin, stale, mixed, played>>,
           buffer'[k] = Player!Ahead(k, now), iter'[k] = Player!Ahead(k, now)
    PROVE  InOrderSoFar(k)' /\ (~mixed => NoGapSoFar(k)')
<1>. DEFINE items == Player!Fresh(k)
            item  == Player!Ahead(k, now)
            first == Player!Min(Player!FromOrigin(k))
<1>0. /\ InOrderSoFar(k) /\ (~mixed => NoGapSoFar(k))
      /\ items \in Seq(DOMAIN Player!Time(k)) /\ DOMAIN items = 1..Len(items)
      /\ DOMAIN Player!Time(k) = 1..Len(Player!Time(k)) /\ Len(Player!Time(k)) \in Nat
  BY KindFacts, FreshFacts DEF PlayerSafe
<1>1. /\ item \in Nat /\ item # 0 /\ item \in Player!FromOrigin(k) /\ ~Waits(k)
      /\ \A i \in DOMAIN items : items[i] < item
      /\ ~mixed /\ stale[k] = 0 /\ (\A other \in Player!Kind \ {k} : played[other] = <<>>) =>
             item = first + Len(played[k])
  BY NextItem
<1>2. Player!Fresh(k)' = items /\ Player!FromOrigin(k)' = Player!FromOrigin(k)
      /\ Waits(k)' = Waits(k)
  BY DEF Player!Fresh, Player!FromOrigin, Waits
<1>. HIDE DEF item
<1>3. \A i \in DOMAIN items : items[i] <= item
  <2>1. \A i \in DOMAIN items : items[i] \in Nat
    BY <1>0
  <2> QED BY <2>1, <1>1
<1>4. InOrderSoFar(k)'
  BY <1>0, <1>1, <1>2, <1>3 DEF InOrderSoFar, item
<1>5. ASSUME ~mixed PROVE NoGapSoFar(k)'
  BY <1>0, <1>1, <1>2, <1>5 DEF NoGapSoFar, item
<1> QED BY <1>4, <1>5

(* What is played is what was looked ahead at, or what the iterator        *)
(* yields: it comes after all that was played, and next if only this kind  *)
(* is stepped.                                                             *)
LEMMA ItemToPlay ==
    ASSUME PlayerSafe, NEW k \in Player!Kind, NEW item,
           \/ buffer[k] # 0 /\ item = buffer[k] /\ iter'[k] = iter[k]
           \/ buffer[k] = 0 /\ item = Player!Ahead(k, now) /\ item # 0 /\ iter'[k] = item
    PROVE  /\ item \in DOMAIN Player!Time(k) /\ Player!Time(k)[item] \in Nat
           /\ Waits(k) => item = stale[k]
           /\ item \in Player!FromOrigin(k)
           /\ ~Waits(k) => /\ item = iter'[k]
                           /\ \A i \in DOMAIN Player!Fresh(k) :
                                  Player!Fresh(k)[i] < item /\ Player!Fresh(k)[i] <= iter'[k]
           /\ ~mixed /\ stale[k] = 0 /\ (\A other \in Player!Kind \ {k} : played[other] = <<>>) =>
                  item = Player!Min(Player!FromOrigin(k)) + Len(played[k])
<1>0. /\ InOrderSoFar(k) /\ (~mixed => NoGapSoFar(k))
      /\ DOMAIN Player!Time(k) = 1..Len(Player!Time(k)) /\ Player!Time(k) \in Seq(Nat)
      /\ Player!Fresh(k) \in Seq(DOMAIN Player!Time(k)) /\ Len(Player!Time(k)) \in Nat
  BY KindFacts, FreshFacts DEF PlayerSafe
<1>1. CASE buffer[k] # 0 /\ item = buffer[k] /\ iter'[k] = iter[k]
  <2>1. item \in Player!FromOrigin(k)
    BY <1>0, <1>1 DEF InOrderSoFar
  <2>2. Waits(k) => item = stale[k]
    BY <1>0, <1>1 DEF InOrderSoFar
  <2>3. ~Waits(k) => item = iter[k] /\ \A i \in DOMAIN Player!Fresh(k) : Player!Fresh(k)[i] < item
    BY <1>0, <1>1 DEF InOrderSoFar
  <2>4. \A i \in DOMAIN Player!Fresh(k) : Player!Fresh(k)[i] <= iter[k]
    BY <1>0 DEF InOrderSoFar
  <2>5. ASSUME ~mixed, stale[k] = 0, \A other \in Player!Kind \ {k} : played[other] = <<>>
        PROVE  item = Player!Min(Player!FromOrigin(k)) + Len(played[k])
    BY <1>0, <1>1, <2>5 DEF NoGapSoFar
  <2>6. item \in DOMAIN Player!Time(k) /\ Player!Time(k)[item] \in Nat
    BY <2>1, <1>0 DEF Player!FromOrigin
  <2> QED BY <2>1, <2>2, <2>3, <2>4, <2>5, <2>6, <1>1
<1>2. CASE buffer[k] = 0 /\ item = Player!Ahead(k, now) /\ item # 0 /\ iter'[k] = item
  <2>1. /\ item \in Player!FromOrigin(k) /\ ~Waits(k)
        /\ \A i \in DOMAIN Player!Fresh(k) : Player!Fresh(k)[i] < item
        /\ ~mixed /\ stale[k] = 0 /\ (\A other \in Player!Kind \ {k} : played[other] = <<>>) =>
                  item = Player!Min(Player!FromOrigin(k)) + Len(played[k])
    BY <1>2, NextItem
  <2>2. item \in DOMAIN Player!Time(k) /\ Player!Time(k)[item] \in Nat /\ item \in Nat
    BY <2>1, <1>0 DEF Player!FromOrigin
  <2>3. \A i \in DOMAIN Player!Fresh(k) : Player!Fresh(k)[i] <= item
    <3>1. \A i \in DOMAIN Player!Fresh(k) : Player!Fresh(k)[i] \in Nat
      BY <1>0
    <3> QED BY <3>1, <2>1, <2>2
  <2> QED BY <2>1, <2>2, <2>3, <1>2
<1> QED BY <1>1, <1>2

LEMMA ItemPlayed ==
    ASSUME PlayerSafe, NEW k \in Player!Kind, NEW item,
           \/ buffer[k] # 0 /\ item = buffer[k] /\ iter'[k] = iter[k]
           \/ buffer[k] = 0 /\ item = Player!Ahead(k, now) /\ item # 0 /\ iter'[k] = item,
           UNCHANGED <<origin, stale>>, buffer'[k] = 0,
           played'[k] = Append(played[k], item), now' = Player!Time(k)[item],
           mixed' = (mixed \/ \E other \in Player!Kind \ {k} : played[other] # <<>>)
    PROVE  InOrderSoFar(k)' /\ (~mixed' => NoGapSoFar(k)')
<1>. DEFINE items == Player!Fresh(k)
            first == Player!Min(Player!FromOrigin(k))
            p     == played[k]
            n     == Len(p)
<1>0. /\ InOrderSoFar(k) /\ (~mixed => NoGapSoFar(k)) /\ Player!TypeOK
      /\ items \in Seq(DOMAIN Player!Time(k)) /\ DOMAIN items = 1..Len(items)
      /\ p \in Seq(DOMAIN Player!Time(k)) /\ n \in Nat
      /\ DOMAIN Player!Time(k) = 1..Len(Player!Time(k)) /\ Player!Time(k) \in Seq(Nat)
  BY KindFacts, FreshFacts DEF PlayerSafe
<1>1. /\ item \in DOMAIN Player!Time(k)
      /\ Waits(k) => item = stale[k]
      /\ item \in Player!FromOrigin(k)
      /\ ~Waits(k) => /\ item = iter'[k]
                      /\ \A i \in DOMAIN items : items[i] < item /\ items[i] <= iter'[k]
      /\ ~mixed /\ stale[k] = 0 /\ (\A other \in Player!Kind \ {k} : played[other] = <<>>) =>
             item = first + n
  BY ItemToPlay
<1>2. Player!Fresh(k)' = (IF Waits(k) THEN <<>> ELSE Append(items, item))
  BY <1>0, <1>1, FreshAfter
<1>3. /\ played'[k] # <<>> /\ Len(played'[k]) = n + 1 /\ played'[k][n + 1] = item
      /\ \A i \in 1..n : played'[k][i] = p[i]
  <2>. DEFINE more == Append(p, item)
  <2>1. p \in Seq(DOMAIN Player!Time(k)) /\ item \in DOMAIN Player!Time(k)
    BY <1>0, <1>1
  <2>2. more # <<>> /\ Len(more) = n + 1
    BY <2>1, OneMore
  <2>3. more[n + 1] = item
    BY <2>1, OneMore
  <2>4. \A i \in 1..n : more[i] = p[i]
    BY <2>1, OneMore
  <2>5. played'[k] = more
    OBVIOUS
  <2>. HIDE DEF more, n, p
  <2> QED BY <2>2, <2>3, <2>4, <2>5
<1>4. ~Waits(k)' /\ Player!FromOrigin(k)' = Player!FromOrigin(k)
  BY <1>3 DEF Waits, Player!FromOrigin
<1>5. stale[k] # 0 => played'[k][1] = stale[k]
  <2>1. CASE Waits(k)
    BY <2>1, <1>1, <1>3, <1>0 DEF Waits
  <2>2. CASE ~Waits(k) /\ stale[k] # 0
    <3>1. p # <<>> /\ p[1] = stale[k]
      BY <2>2, <1>0 DEF Waits, InOrderSoFar
    <3>2. 1 \in 1..n
      BY <3>1, <1>0
    <3> QED BY <3>1, <3>2, <1>3
  <2> QED BY <2>1, <2>2
<1>6. /\ \A i \in DOMAIN Player!Fresh(k)' :
             Player!Fresh(k)'[i] \in Player!FromOrigin(k) /\ Player!Fresh(k)'[i] <= iter'[k]
      /\ \A i, j \in DOMAIN Player!Fresh(k)' : i < j => Player!Fresh(k)'[i] < Player!Fresh(k)'[j]
  <2>1. CASE Waits(k)
    <3>1. Player!Fresh(k)' = <<>>
      BY <2>1, <1>2
    <3> QED BY <3>1
  <2>2. CASE ~Waits(k)
    <3>. DEFINE more == Append(items, item)
                m    == Len(items)
    <3>1. /\ Player!Fresh(k)' = more /\ item = iter'[k]
          /\ \A i \in DOMAIN items : items[i] < item /\ items[i] <= iter'[k]
      BY <2>2, <1>1, <1>2
    <3>2. /\ DOMAIN more = 1..(m + 1) /\ DOMAIN items = 1..m /\ m \in Nat
          /\ more[m + 1] = item /\ \A i \in 1..m : more[i] = items[i]
      BY <1>0, <1>1, OneMore
    <3>3. /\ \A i \in DOMAIN items : items[i] \in Player!FromOrigin(k)
          /\ \A i, j \in DOMAIN items : i < j => items[i] < items[j]
      BY <1>0 DEF InOrderSoFar
    <3>4. item \in Nat
      BY <1>0, <1>1
    <3>. HIDE DEF more, m
    <3>5. ASSUME NEW i \in DOMAIN more
          PROVE  more[i] \in Player!FromOrigin(k) /\ more[i] <= iter'[k]
      <4>1. CASE i = m + 1
        BY <4>1, <3>1, <3>2, <3>4, <1>1
      <4>2. CASE i # m + 1
        <5>1. i \in 1..m
          BY <4>2, <3>2, <3>5
        <5> QED BY <5>1, <3>1, <3>2, <3>3
      <4> QED BY <4>1, <4>2
    <3>6. ASSUME NEW i \in DOMAIN more, NEW j \in DOMAIN more, i < j
          PROVE  more[i] < more[j]
      <4>1. i \in 1..m
        BY <3>2, <3>6
      <4>2. CASE j = m + 1
        BY <4>1, <4>2, <3>1, <3>2
      <4>3. CASE j # m + 1
        <5>1. j \in 1..m
          BY <4>3, <3>2, <3>6
        <5> QED BY <5>1, <4>1, <3>2, <3>3, <3>6
      <4> QED BY <4>2, <4>3
    <3> QED BY <3>1, <3>5, <3>6
  <2> QED BY <2>1, <2>2
<1>7. InOrderSoFar(k)'
  BY <1>3, <1>4, <1>5, <1>6 DEF InOrderSoFar
<1>8. ASSUME ~mixed' PROVE NoGapSoFar(k)'
  <2>1. ~mixed /\ \A other \in Player!Kind \ {k} : played[other] = <<>>
    BY <1>8
  <2>2. ASSUME stale[k] = 0
        PROVE  /\ item = first + n
               /\ \A i \in 1..n : p[i] = first + i - 1
               /\ iter'[k] = item
    <3>1. ~Waits(k)
      BY <2>2 DEF Waits
    <3> QED BY <2>1, <2>2, <3>1, <1>0, <1>1 DEF NoGapSoFar
  <2>3. first \in Nat
    <3>1. Player!FromOrigin(k) \in SUBSET Nat
      BY <1>0 DEF Player!FromOrigin
    <3> QED BY <3>1, <1>1, FirstItem
  <2>. HIDE DEF first, n
  <2>4. ASSUME stale[k] = 0, NEW i \in 1..(n + 1)
        PROVE  played'[k][i] = first + i - 1
    <3>1. CASE i = n + 1
      BY <3>1, <2>2, <2>3, <2>4, <1>0, <1>3
    <3>2. CASE i # n + 1
      <4>1. i \in 1..n
        BY <3>2, <2>4, <1>0
      <4> QED BY <4>1, <2>2, <2>4, <1>3
    <3> QED BY <3>1, <3>2
  <2>5. n + 1 # 0 /\ stale'[k] = stale[k] /\ Player!Min(Player!FromOrigin(k)') = first
    BY <1>0, <1>4 DEF first
  <2>6. Player!Time(k)' = Player!Time(k)
    BY DEF Player!Time
  <2> QED BY <2>2, <2>4, <2>5, <2>6, <1>3, <1>4 DEF NoGapSoFar, first
<1> QED BY <1>7, <1>8

LEMMA PlayerSteps ==
    ASSUME PlayerSafe, NEW c \in Controllers, NEW k \in Player!Kind, Player!Step(c, k)
    PROVE  PlayerSafe'
<1>. DEFINE item == IF buffer[k] # 0 THEN buffer[k] ELSE Player!Ahead(k, now)
            len  == Len(Player!Time(k))
<1>0. /\ Player!TypeOK /\ iter \in [Player!Kind -> Int] /\ buffer \in [Player!Kind -> Nat]
      /\ played \in [Player!Kind -> Seq(Nat)] /\ origin \in Nat /\ origin <= now
      /\ iter[k] \in {-1} \cup 0..len /\ buffer[k] \in 0..len /\ len \in Nat
      /\ played[k] \in Seq(DOMAIN Player!Time(k))
      /\ at \in [Controllers -> {"idle", "tick", "candle", "restart"}]
      /\ k \in {"tick", "candle"} /\ now \in Nat
  BY KindFacts DEF PlayerSafe, Player!TypeOK, Player!Kind
<1>1. /\ rState = "running" /\ buffer' = [buffer EXCEPT ![k] = 0]
      /\ iter' = (IF buffer[k] # 0 THEN iter ELSE Player!Advanced(k, item))
      /\ IF item = 0
         THEN rState' = "completed" /\ UNCHANGED <<now, at, mixed, played>>
         ELSE /\ now' = Player!Time(k)[item] /\ at' = [at EXCEPT ![c] = k]
              /\ mixed' = (mixed \/ \E other \in Player!Kind \ {k} : played[other] # <<>>)
              /\ played' = [played EXCEPT ![k] = Append(played[k], item)] /\ UNCHANGED rState
      /\ UNCHANGED <<speed, moves, origin, stale>>
  BY DEF Player!Step, Player!history, Player!Complete
<1>2. CASE item = 0
  <2>1. buffer[k] = 0 /\ iter' = [iter EXCEPT ![k] = len] /\ rState' = "completed"
        /\ UNCHANGED <<now, at, mixed, played>>
    BY <1>1, <1>2 DEF Player!Advanced
  <2>2. played' = [played EXCEPT ![k] = played[k]] /\ played'[k] = played[k] /\ iter'[k] = len
        /\ buffer'[k] = 0
    BY <2>1, <1>0, <1>1
  <2>3. InOrderSoFar(k)' /\ (~mixed => NoGapSoFar(k)')
    BY <2>1, <2>2, <1>1, IteratorEnds
  <2>4. len \in {-1} \cup 0..len /\ 0 \in 0..len
    BY <1>0
  <2>5. /\ mixed' \in BOOLEAN /\ now' \in Nat /\ origin <= now'
        /\ at' \in [Controllers -> {"idle", "tick", "candle", "restart"}]
    BY <2>1, <1>0 DEF Player!TypeOK
  <2>. HIDE DEF item, len
  <2> QED BY <2>1, <2>2, <2>3, <2>4, <2>5, <1>0, <1>1, KindMoves DEF len
<1>3. CASE item # 0
  <2>1. /\ now' = Player!Time(k)[item] /\ at' = [at EXCEPT ![c] = k]
        /\ mixed' = (mixed \/ \E other \in Player!Kind \ {k} : played[other] # <<>>)
        /\ played' = [played EXCEPT ![k] = Append(played[k], item)] /\ UNCHANGED rState
    BY <1>1, <1>3
  <2>2. /\ buffer[k] # 0 => item = buffer[k] /\ iter' = [iter EXCEPT ![k] = iter[k]]
        /\ buffer[k] = 0 => item = Player!Ahead(k, now) /\ iter' = [iter EXCEPT ![k] = item]
    BY <1>0, <1>1, <1>3 DEF Player!Advanced
  <2>. HIDE DEF item
  <2>3. played'[k] = Append(played[k], item) /\ buffer'[k] = 0
        /\ (buffer[k] # 0 => iter'[k] = iter[k]) /\ (buffer[k] = 0 => iter'[k] = item)
    BY <2>1, <2>2, <1>0, <1>1
  <2>4. item \in DOMAIN Player!Time(k) /\ Player!Time(k)[item] \in Nat /\ item \in Player!FromOrigin(k)
    BY <2>2, <2>3, <1>3, ItemToPlay
  <2>5. InOrderSoFar(k)' /\ (~mixed' => NoGapSoFar(k)')
    BY <2>1, <2>2, <2>3, <1>1, <1>3, ItemPlayed
  <2>6. Append(played[k], item) \in Seq(DOMAIN Player!Time(k)) /\ Append(played[k], item) # <<>>
    BY <2>4, <1>0, OneMore
  <2>7. item \in 0..len /\ 0 \in 0..len
    BY <2>4, <1>0, KindFacts
  <2>8. /\ mixed' \in BOOLEAN /\ now' \in Nat /\ origin <= now'
        /\ at' \in [Controllers -> {"idle", "tick", "candle", "restart"}]
        /\ rState' \in {"stopped", "running", "paused", "completed"}
    <3>1. mixed' \in BOOLEAN
      BY <2>1
    <3>2. now' \in Nat /\ origin <= now'
      BY <2>1, <2>4 DEF Player!FromOrigin
    <3>3. at' \in [Controllers -> {"idle", "tick", "candle", "restart"}]
      BY <2>1, <1>0
    <3> QED BY <3>1, <3>2, <3>3, <2>1, <1>1
  <2>9. PICK it \in {-1} \cup 0..len : iter' = [iter EXCEPT ![k] = it]
    BY <2>2, <2>7, <1>0
  <2>10. ~mixed' => ~mixed /\ \A other \in Player!Kind \ {k} : played[other] = <<>>
    BY <2>1
  <2> QED BY <2>1, <2>5, <2>6, <2>7, <2>8, <2>9, <2>10, <1>1, KindMoves
<1> QED BY <1>2, <1>3

LEMMA PlayerLooksAhead ==
    ASSUME PlayerSafe, NEW c \in Controllers, Player!LookAhead(c)
    PROVE  PlayerSafe'
<1>. PICK k \in Player!Kind : k = at[c]
  BY DEF Player!LookAhead
<1>. DEFINE item == IF buffer[k] # 0 THEN buffer[k] ELSE Player!Ahead(k, now)
            len  == Len(Player!Time(k))
<1>1. /\ at' = [at EXCEPT ![c] = "idle"]
      /\ iter' = (IF buffer[k] # 0 THEN iter ELSE Player!Advanced(k, item))
      /\ buffer' = [buffer EXCEPT ![k] = item]
      /\ rState' = "completed" \/ rState' = rState
      /\ UNCHANGED <<now, speed, moves, origin, stale, mixed, played>>
  BY DEF Player!LookAhead, Player!history, Player!Complete
<1>0. /\ Player!TypeOK /\ iter \in [Player!Kind -> Int] /\ buffer \in [Player!Kind -> Nat]
      /\ played \in [Player!Kind -> Seq(Nat)] /\ origin \in Nat /\ origin <= now
      /\ iter[k] \in {-1} \cup 0..len /\ buffer[k] \in 0..len /\ len \in Nat
      /\ at \in [Controllers -> {"idle", "tick", "candle", "restart"}]
      /\ now \in Nat
  BY <1>1, KindFacts DEF PlayerSafe, Player!TypeOK
<1>2. /\ rState' \in {"stopped", "running", "paused", "completed"}
      /\ at' \in [Controllers -> {"idle", "tick", "candle", "restart"}]
      /\ speed' \in Player!PlaybackSpeeds /\ moves' \in 0..MaxMoves
      /\ mixed' \in BOOLEAN
  <2>1. at' \in [Controllers -> {"idle", "tick", "candle", "restart"}]
    BY <1>0, <1>1
  <2> QED BY <2>1, <1>0, <1>1 DEF Player!TypeOK
<1>3. CASE buffer[k] # 0
  <2>1. UNCHANGED <<iter, buffer>>
    BY <1>0, <1>1, <1>3
  <2> QED BY <2>1, <1>1, <1>2, PlayerIdles
<1>4. CASE buffer[k] = 0 /\ item = 0
  <2>1. iter' = [iter EXCEPT ![k] = len] /\ buffer' = [buffer EXCEPT ![k] = 0]
    BY <1>1, <1>4 DEF Player!Advanced
  <2>2. played' = [played EXCEPT ![k] = played[k]] /\ played'[k] = played[k] /\ iter'[k] = len
        /\ buffer'[k] = 0
    BY <2>1, <1>0, <1>1
  <2>3. InOrderSoFar(k)' /\ (~mixed => NoGapSoFar(k)')
    BY <2>2, <1>1, <1>4, IteratorEnds
  <2>4. len \in {-1} \cup 0..len /\ 0 \in 0..len /\ played[k] \in Seq(DOMAIN Player!Time(k))
    BY <1>0, <1>1, KindFacts
  <2>5. now' \in Nat /\ origin <= now' /\ (~mixed' => ~mixed)
    BY <1>0, <1>1
  <2>6. PICK it \in {-1} \cup 0..len : iter' = [iter EXCEPT ![k] = it]
    BY <2>1, <2>4
  <2>7. ~mixed' => ~mixed /\ NoGapSoFar(k)' /\ now' = now
    BY <2>3, <2>5, <1>1
  <2>8. UNCHANGED <<origin, stale, speed, moves>>
    BY <1>1
  <2>9. /\ buffer' = [buffer EXCEPT ![k] = 0] /\ played' = [played EXCEPT ![k] = played[k]]
        /\ InOrderSoFar(k)'
    BY <2>1, <2>2, <2>3
  <2> QED BY <2>4, <2>5, <2>6, <2>7, <2>8, <2>9, <1>2, KindMoves
<1>5. CASE buffer[k] = 0 /\ item # 0
  <2>1. iter' = [iter EXCEPT ![k] = item] /\ item = Player!Ahead(k, now)
    BY <1>1, <1>5 DEF Player!Advanced
  <2>. HIDE DEF item
  <2>2. played' = [played EXCEPT ![k] = played[k]] /\ iter'[k] = item /\ buffer'[k] = item
    BY <2>1, <1>0, <1>1
  <2>3. InOrderSoFar(k)' /\ (~mixed => NoGapSoFar(k)')
    BY <2>1, <2>2, <1>1, <1>5, ItemLooked
  <2>4. item \in 0..len /\ item \in {-1} \cup 0..len /\ played[k] \in Seq(DOMAIN Player!Time(k))
    <3>1. item \in DOMAIN Player!Time(k)
      BY <2>1, <1>1, <1>5, NextItem
    <3> QED BY <3>1, <1>0, <1>1, KindFacts
  <2> QED BY <2>1, <2>2, <2>3, <2>4, <1>0, <1>1, <1>2, KindMoves DEF len
<1> QED BY <1>3, <1>4, <1>5

LEMMA PlayerStarts == Player!Init => PlayerSafe
<1> SUFFICES ASSUME Player!Init PROVE PlayerSafe
  OBVIOUS
<1>0. /\ StartTime \in Nat /\ MaxMoves \in Nat
      /\ \A k \in Player!Kind : Player!Time(k) \in Seq(Nat)
  BY ReplayInstance DEF Player!ReplayConstants, Player!Time
<1>1. /\ rState = "stopped" /\ now = StartTime /\ speed = 1 /\ moves = 0 /\ origin = StartTime
      /\ iter = [k \in Player!Kind |-> -1] /\ buffer = [k \in Player!Kind |-> 0]
      /\ stale = [k \in Player!Kind |-> 0] /\ mixed = FALSE
      /\ at = [c \in Controllers |-> "idle"] /\ played = [k \in Player!Kind |-> <<>>]
  BY DEF Player!Init, Player!Nothing, Player!None
<1>2. ASSUME NEW k \in Player!Kind
      PROVE  /\ iter[k] = -1 /\ buffer[k] = 0 /\ stale[k] = 0 /\ played[k] = <<>>
             /\ 0 \in 0..Len(Player!Time(k)) /\ played[k] \in Seq(DOMAIN Player!Time(k))
  <2>1. Len(Player!Time(k)) \in Nat
    BY <1>0
  <2> QED BY <2>1, <1>1
<1>3. Player!TypeOK
  <2>1. ASSUME NEW k \in Player!Kind
        PROVE  /\ iter[k] \in {-1} \cup 0..Len(Player!Time(k)) /\ buffer[k] \in 0..Len(Player!Time(k))
               /\ played[k] \in Seq(DOMAIN Player!Time(k)) /\ stale[k] \in 0..Len(Player!Time(k))
    BY <1>2
  <2>2. moves \in 0..MaxMoves /\ at \in [Controllers -> {"idle", "tick", "candle", "restart"}]
    BY <1>0, <1>1
  <2> QED BY <2>1, <2>2, <1>0, <1>1 DEF Player!TypeOK, Player!None, Player!PlaybackSpeeds
<1>4. ASSUME NEW k \in Player!Kind PROVE InOrderSoFar(k) /\ NoGapSoFar(k)
  <2>1. Player!Fresh(k) = <<>> /\ ~Waits(k)
    BY <1>2 DEF Player!Fresh, Waits
  <2> QED BY <2>1, <1>1, <1>2 DEF InOrderSoFar, NoGapSoFar
<1>5. /\ iter \in [Player!Kind -> Int] /\ buffer \in [Player!Kind -> Nat]
      /\ stale \in [Player!Kind -> Nat] /\ played \in [Player!Kind -> Seq(Nat)]
  <2>1. <<>> \in Seq(Nat) /\ -1 \in Int
    OBVIOUS
  <2> QED BY <2>1, <1>1
<1> QED BY <1>0, <1>1, <1>2, <1>3, <1>4, <1>5 DEF PlayerSafe

LEMMA PlayerNext == PlayerSafe /\ [Player!Next]_playerVars => PlayerSafe'
<1> SUFFICES ASSUME PlayerSafe, [Player!Next]_playerVars PROVE PlayerSafe'
  OBVIOUS
<1>0. /\ StartTime \in Nat /\ EndTime \in Nat /\ StartTime <= EndTime /\ MaxMoves \in Nat
      /\ moves \in 0..MaxMoves /\ speed \in Player!PlaybackSpeeds
      /\ rState \in {"stopped", "running", "paused", "completed"}
      /\ at \in [Controllers -> {"idle", "tick", "candle", "restart"}]
  BY ReplayInstance DEF Player!ReplayConstants, PlayerSafe, Player!TypeOK
<1>1. ASSUME Player!Begin, moves' \in 0..MaxMoves, at' \in [Controllers -> {"idle", "tick", "candle", "restart"}]
      PROVE  PlayerSafe'
  <2>1. Player!Reposition(StartTime, buffer) /\ rState' = "running" /\ speed' = speed
    BY <1>1 DEF Player!Begin
  <2> QED BY <2>1, <1>0, <1>1, PlayerRepositions
<1>2. Player!Move => moves' \in 0..MaxMoves
  BY <1>0 DEF Player!Move
<1>3. CASE Player!Start \/ Player!RestartStopped
  <2>1. Player!Begin /\ Player!Move /\ UNCHANGED at
    BY <1>3 DEF Player!Start, Player!RestartStopped
  <2> QED BY <2>1, <1>0, <1>1, <1>2
<1>4. CASE Player!Pause \/ Player!Resume \/ Player!Stop
  <2>1. /\ rState' \in {"stopped", "running", "paused"}
        /\ UNCHANGED <<now, speed, iter, buffer, at, moves, origin, stale, mixed, played>>
    BY <1>4 DEF Player!Pause, Player!Resume, Player!Stop, Player!history
  <2> QED BY <2>1, <1>0, PlayerIdles
<1>5. ASSUME NEW time \in Player!SeekTimes, Player!Seek(time)
      PROVE  PlayerSafe'
  <2>1. /\ Player!Move /\ Player!Reposition(Player!Clamp(time), Player!Nothing)
        /\ UNCHANGED <<rState, speed, at>>
    BY <1>5 DEF Player!Seek
  <2>2. Player!Clamp(time) \in Nat /\ StartTime <= Player!Clamp(time)
    BY <1>0 DEF Player!SeekTimes, Player!Clamp
  <2> QED BY <2>1, <2>2, <1>0, <1>2, PlayerRepositions
<1>6. ASSUME NEW s \in {1, 2}, Player!ChangeSpeed(s)
      PROVE  PlayerSafe'
  <2>1. /\ speed' = s
        /\ UNCHANGED <<rState, now, iter, buffer, at, moves, origin, stale, mixed, played>>
    BY <1>6 DEF Player!ChangeSpeed, Player!history
  <2>2. speed' \in Player!PlaybackSpeeds
    BY <2>1 DEF Player!PlaybackSpeeds
  <2> QED BY <2>1, <2>2, <1>0, PlayerIdles
<1>7. ASSUME NEW c \in Controllers, Player!RestartStops(c)
      PROVE  PlayerSafe'
  <2>1. /\ Player!Move /\ rState' = "stopped" /\ at' = [at EXCEPT ![c] = "restart"]
        /\ UNCHANGED <<now, speed, iter, buffer, origin, stale, mixed, played>>
    BY <1>7 DEF Player!RestartStops
  <2>2. at' \in [Controllers -> {"idle", "tick", "candle", "restart"}]
    BY <2>1, <1>0
  <2> QED BY <2>1, <2>2, <1>0, <1>2, PlayerIdles
<1>8. ASSUME NEW c \in Controllers, Player!RestartGoesOn(c)
      PROVE  PlayerSafe'
  <2>1. at' = [at EXCEPT ![c] = "idle"] /\ Player!Begin /\ UNCHANGED moves
    BY <1>8 DEF Player!RestartGoesOn
  <2>2. at' \in [Controllers -> {"idle", "tick", "candle", "restart"}]
    BY <2>1, <1>0
  <2> QED BY <2>1, <2>2, <1>0, <1>1
<1>9. ASSUME NEW c \in Controllers, NEW k \in Player!Kind, Player!Step(c, k)
      PROVE  PlayerSafe'
  BY <1>9, PlayerSteps
<1>10. ASSUME NEW c \in Controllers, Player!LookAhead(c)
       PROVE  PlayerSafe'
  BY <1>10, PlayerLooksAhead
<1>11. ASSUME NEW c \in Controllers, Player!HandlerRaises(c)
       PROVE  PlayerSafe'
  <2>1. /\ at' = [at EXCEPT ![c] = "idle"]
        /\ UNCHANGED <<rState, now, speed, iter, buffer, moves, origin, stale, mixed, played>>
    BY <1>11 DEF Player!HandlerRaises, Player!session, Player!history
  <2>2. at' \in [Controllers -> {"idle", "tick", "candle", "restart"}]
    BY <2>1, <1>0
  <2> QED BY <2>1, <2>2, <1>0, PlayerIdles
<1>12. CASE UNCHANGED playerVars
  <2>1. UNCHANGED <<rState, now, speed, iter, buffer, at, moves, origin, stale, mixed, played>>
    BY <1>12 DEF playerVars
  <2> QED BY <2>1, <1>0, PlayerIdles
<1> QED
  BY <1>3, <1>4, <1>5, <1>6, <1>7, <1>8, <1>9, <1>10, <1>11, <1>12 DEF Player!Next

(* What the controller has played is what the source holds from where the  *)
(* replay was put.                                                         *)
LEMMA PlayerIsFaithful == PlayerSafe => Player!PlaysInOrder /\ Player!PlaysWithoutGap
<1> SUFFICES ASSUME PlayerSafe PROVE Player!PlaysInOrder /\ Player!PlaysWithoutGap
  OBVIOUS
<1>1. ASSUME NEW k \in Player!Kind
      PROVE  /\ stale[k] # 0 /\ played[k] # <<>> => Head(played[k]) = stale[k]
             /\ \A i \in 1..(Len(Player!Fresh(k)) - 1) : Player!Fresh(k)[i] < Player!Fresh(k)[i + 1]
             /\ \A i \in DOMAIN Player!Fresh(k) : Player!Fresh(k)[i] \in Player!FromOrigin(k)
  <2>. DEFINE items == Player!Fresh(k)
  <2>1. /\ stale[k] # 0 /\ played[k] # <<>> => played[k][1] = stale[k]
        /\ \A i \in DOMAIN items : items[i] \in Player!FromOrigin(k)
        /\ \A i, j \in DOMAIN items : i < j => items[i] < items[j]
    BY DEF PlayerSafe, InOrderSoFar
  <2>2. DOMAIN items = 1..Len(items) /\ Len(items) \in Nat
    BY FreshFacts DEF PlayerSafe
  <2>3. Head(played[k]) = played[k][1]
    OBVIOUS
  <2>. HIDE DEF items
  <2>4. \A i \in 1..(Len(items) - 1) : items[i] < items[i + 1]
    <3>1. \A i \in 1..(Len(items) - 1) : i \in DOMAIN items /\ i + 1 \in DOMAIN items /\ i < i + 1
      BY <2>2
    <3> QED BY <3>1, <2>1
  <2> QED BY <2>1, <2>3, <2>4 DEF items
<1>2. ASSUME ~mixed, NEW k \in Player!Kind, NEW i \in DOMAIN Player!Fresh(k), stale[k] = 0
      PROVE  Player!Fresh(k)[i] = Player!Min(Player!FromOrigin(k)) + i - 1
  <2>1. Player!Fresh(k) = played[k] /\ DOMAIN Player!Fresh(k) = 1..Len(Player!Fresh(k))
    BY <1>2, FreshFacts DEF PlayerSafe
  <2>2. i \in 1..Len(played[k])
    BY <2>1
  <2> QED BY <1>2, <2>1, <2>2 DEF PlayerSafe, NoGapSoFar
<1> QED BY <1>1, <1>2 DEF Player!PlaysInOrder, Player!PlaysWithoutGap

LEMMA SchedulerIsFaithful == SchedulerSafe => Scheduler!LoopPlaysTape /\ Scheduler!StoppedIsQuiet
<1> SUFFICES ASSUME SchedulerSafe PROVE Scheduler!LoopPlaysTape /\ Scheduler!StoppedIsQuiet
  OBVIOUS
<1>1. \A l \in 1..made : l \in Scheduler!Loops
  BY ReplayInstance DEF SchedulerSafe, Scheduler!TypeOK, Scheduler!Loops, Scheduler!SchedulerConstants
<1> QED BY <1>1 DEF SchedulerSafe, PlaysFrom, Scheduler!LoopPlaysTape, Scheduler!StoppedIsQuiet

-----------------------------------------------------------------------------
(***************************************************************************)
(* The session.                                                            *)
(***************************************************************************)

(* The orders among the first n that are not waiting: the events still to  *)
(* be published are about those.                                           *)
Settled(waiting, n) == {o \in OrderIds : o <= n /\ o \notin waiting}

(* What the calls ob have still to publish: of each order the trigger and  *)
(* the end at most, by one call                                            *)
OutboxKept(ob, waiting, n) ==
    /\ ob \in [Callers -> Seq(OrderEvent)]
    /\ \A c \in Callers : TellsOf(ob[c], Settled(waiting, n))
    /\ \A c, d \in Callers : c # d =>
           \A i \in DOMAIN ob[c] : \A j \in DOMAIN ob[d] : ob[c][i].id # ob[d][j].id

Kinds == {e.kind : e \in OrderEvent}

(* What was heard: in order, nothing of ids that were not handed out, and  *)
(* of a waiting order that it was accepted                                 *)
HeardKept(hd, waiting, n) ==
    /\ hd \in [OrderIds -> Seq(Kinds)]
    /\ \A o \in OrderIds :
           /\ \A i \in 1..(Len(hd[o]) - 1) : Rank(hd[o][i]) < Rank(hd[o][i + 1])
           /\ o > n => hd[o] = <<>>
           /\ o \in waiting => \A i \in DOMAIN hd[o] : hd[o][i] = "accepted"

(* What is still to be published comes after what was heard.               *)
ComesAfter(ob, hd) ==
    \A c \in Callers : \A i \in DOMAIN ob[c] : \A k \in DOMAIN hd[ob[c][i].id] :
        Rank(hd[ob[c][i].id][k]) < Rank(ob[c][i].kind)

PublicationKept(ob, hd, waiting, n) ==
    OutboxKept(ob, waiting, n) /\ HeardKept(hd, waiting, n) /\ ComesAfter(ob, hd)

SessionSafe ==
    /\ state \in {"created", "running", "stopped"} /\ attached \in BOOLEAN
    /\ suspended \in [Callers -> {NoEvent} \cup Seq(OrderEvent)]
    /\ mirror \in [OrderIds -> OrderStatus \cup {"unknown"}]
    /\ lost \subseteq OrderEvent
    /\ \A c \in Callers : Free(c) => outbox[c] = <<>>
    /\ PublicationKept(outbox, heard, Open, nextId)
    /\ ObserverIsRight
    /\ EndIsTold

-----------------------------------------------------------------------------
LEMMA RankOf ==
    /\ Rank("accepted") = 1 /\ Rank("triggered") = 2
    /\ Rank("filled") = 3 /\ Rank("rejected") = 3 /\ Rank("cancelled") = 3
BY DEF Rank

LEMMA RankLate ==
    ASSUME NEW e \in OrderEvent, e.kind # "accepted"
    PROVE  /\ 1 < Rank(e.kind) /\ Rank(e.kind) \in Nat
           /\ e.kind # "triggered" => Rank(e.kind) = 3
           /\ e.kind = "triggered" => Rank(e.kind) = 2
<1>1. e.kind \in {"accepted", "triggered", "filled", "rejected", "cancelled"}
  BY DEF OrderEvent
<1>2. QED
  BY <1>1, RankOf

(* One less, and none *)
LEMMA TakenFirst ==
    ASSUME NEW S, NEW s \in Seq(S), s # <<>>
    PROVE  /\ Head(s) = s[1] /\ 1 \in DOMAIN s /\ s[1] \in S
           /\ Tail(s) \in Seq(S) /\ Len(s) \in Nat /\ Len(s) >= 1 /\ Len(Tail(s)) = Len(s) - 1
           /\ DOMAIN s = 1..Len(s) /\ DOMAIN Tail(s) = 1..(Len(s) - 1)
           /\ \A i \in 1..(Len(s) - 1) : Tail(s)[i] = s[i + 1]
OBVIOUS

LEMMA EmptySeq ==
    ASSUME NEW S, NEW s \in Seq(S), Len(s) = 0
    PROVE  s = <<>>
OBVIOUS

LEMMA TellsTail ==
    ASSUME NEW events \in Seq(OrderEvent), events # <<>>, NEW ids, TellsOf(events, ids)
    PROVE  TellsOf(Tail(events), ids)
<1>. DEFINE rest == Tail(events)
            n == Len(events)
<1>1. /\ n \in Nat /\ DOMAIN events = 1..n /\ DOMAIN rest = 1..(n - 1) /\ Len(rest) = n - 1
      /\ \A i \in 1..(n - 1) : rest[i] = events[i + 1]
  BY TakenFirst
<1>2. Len(events) = n
  OBVIOUS
<1>. HIDE DEF rest, n
<1>3. ASSUME NEW i \in DOMAIN rest
      PROVE  /\ rest[i].id \in ids /\ rest[i].kind # "accepted"
             /\ \A j \in (i + 1)..Len(rest) :
                    rest[j].id = rest[i].id => rest[i].kind = "triggered" /\ rest[j].kind # "triggered"
  <2>1. i \in Int /\ i + 1 \in 1..n /\ rest[i] = events[i + 1]
    BY <1>1
  <2>2. events[i + 1].id \in ids /\ events[i + 1].kind # "accepted"
    BY <1>1, <2>1 DEF TellsOf
  <2>3. ASSUME NEW j \in (i + 1)..Len(rest), rest[j].id = rest[i].id
        PROVE  rest[i].kind = "triggered" /\ rest[j].kind # "triggered"
    <3>1. j + 1 \in ((i + 1) + 1)..Len(events) /\ rest[j] = events[j + 1]
      BY <1>1, <1>2, <2>1
    <3>2. QED
      BY <1>1, <2>1, <2>3, <3>1 DEF TellsOf
  <2>4. QED
    BY <2>1, <2>2, <2>3
<1>4. QED
  BY <1>3 DEF TellsOf, rest

LEMMA TellsWider ==
    ASSUME NEW events, NEW ids, NEW more, TellsOf(events, ids), ids \subseteq more
    PROVE  TellsOf(events, more)
BY DEF TellsOf

(* The first event of a call is published.                                 *)
LEMMA PublishKeeps ==
    ASSUME NEW ob, NEW hd, NEW waiting, NEW n \in Nat, PublicationKept(ob, hd, waiting, n),
           NEW c \in Callers, ob[c] # <<>>
    PROVE  \A ob1, hd1 :
               /\ ob1 = [ob EXCEPT ![c] = Tail(ob[c])]
               /\ hd1 = [hd EXCEPT ![Head(ob[c]).id] = Append(hd[Head(ob[c]).id], Head(ob[c]).kind)]
               => PublicationKept(ob1, hd1, waiting, n)
<1>. DEFINE events == ob[c]
            rest == Tail(events)
            e == Head(events)
            o == e.id
            ob2 == [ob EXCEPT ![c] = rest]
            hd2 == [hd EXCEPT ![o] = Append(hd[o], e.kind)]
            said == Append(hd[o], e.kind)
<1>1. /\ ob \in [Callers -> Seq(OrderEvent)] /\ events \in Seq(OrderEvent) /\ events # <<>>
      /\ hd \in [OrderIds -> Seq(Kinds)]
  BY DEF PublicationKept, OutboxKept, HeardKept
<1>2. /\ e = events[1] /\ 1 \in DOMAIN events /\ e \in OrderEvent
      /\ rest \in Seq(OrderEvent) /\ Len(events) \in Nat /\ Len(events) >= 1
      /\ DOMAIN events = 1..Len(events) /\ DOMAIN rest = 1..(Len(events) - 1)
      /\ \A i \in 1..(Len(events) - 1) : rest[i] = events[i + 1]
  BY <1>1, TakenFirst
<1>3. TellsOf(events, Settled(waiting, n))
  BY DEF PublicationKept, OutboxKept
<1>4. o \in OrderIds /\ o <= n /\ o \notin waiting /\ e.kind # "accepted" /\ e.kind \in Kinds
  BY <1>2, <1>3 DEF TellsOf, Settled, OrderEvent, Kinds
<1>5. /\ said \in Seq(Kinds) /\ Len(hd[o]) \in Nat /\ Len(said) = Len(hd[o]) + 1
      /\ DOMAIN hd[o] = 1..Len(hd[o]) /\ DOMAIN said = 1..(Len(hd[o]) + 1)
      /\ \A i \in 1..Len(hd[o]) : said[i] = hd[o][i]
      /\ said[Len(hd[o]) + 1] = e.kind
  <2>1. hd[o] \in Seq(Kinds) /\ e.kind \in Kinds
    BY <1>1, <1>4
  <2>. HIDE DEF o, e
  <2>2. QED
    BY <2>1, OneMore
<1>6. TellsOf(rest, Settled(waiting, n))
  BY <1>1, <1>3, TellsTail
<1>7. \A k \in 1..Len(hd[o]) : Rank(hd[o][k]) < Rank(e.kind)
  BY <1>2, <1>5 DEF PublicationKept, ComesAfter
<1>8. ob2 \in [Callers -> Seq(OrderEvent)] /\ ob2[c] = rest /\ \A d \in Callers \ {c} : ob2[d] = ob[d]
  BY <1>1, <1>2
<1>9. hd2 \in [OrderIds -> Seq(Kinds)] /\ hd2[o] = said /\ \A p \in OrderIds \ {o} : hd2[p] = hd[p]
  BY <1>1, <1>4, <1>5
<1>. HIDE DEF events, rest, e, said, ob2, hd2
<1>10. ASSUME NEW d \in Callers, NEW i \in DOMAIN ob2[d]
       PROVE  /\ ob2[d][i] \in OrderEvent /\ ob2[d][i].id \in OrderIds /\ ob2[d][i].kind # "accepted"
              /\ \E j \in DOMAIN ob[d] : ob2[d][i] = ob[d][j] /\ (d = c => j \in 2..Len(events))
  <2>1. CASE d = c
    <3>1. i \in 1..(Len(events) - 1) /\ rest[i] = events[i + 1]
      BY <1>2, <1>8, <2>1
    <3>2. /\ i + 1 \in DOMAIN events /\ i + 1 \in 2..Len(events)
      BY <1>2, <3>1
    <3>3. ob2[d][i] \in OrderEvent
      BY <1>2, <1>8, <2>1, <3>1
    <3>4. ob2[d][i].kind # "accepted" /\ ob2[d][i].id \in OrderIds
      BY <1>6, <1>8, <2>1 DEF TellsOf, Settled
    <3>5. QED
      BY <1>8, <2>1, <3>1, <3>2, <3>3, <3>4 DEF events
  <2>2. CASE d # c
    <3>1. ob2[d] = ob[d] /\ ob[d] \in Seq(OrderEvent)
      BY <1>1, <1>8, <2>2
    <3>2. TellsOf(ob[d], Settled(waiting, n))
      BY DEF PublicationKept, OutboxKept
    <3>3. ob[d][i].kind # "accepted" /\ ob[d][i].id \in OrderIds
      BY <3>1, <3>2 DEF TellsOf, Settled
    <3>4. QED
      BY <2>2, <3>1, <3>3
  <2>3. QED
    BY <2>1, <2>2
<1>11. OutboxKept(ob2, waiting, n)
  <2>1. ASSUME NEW d \in Callers PROVE TellsOf(ob2[d], Settled(waiting, n))
    <3>1. CASE d = c
      BY <1>6, <1>8, <3>1
    <3>2. CASE d # c
      BY <1>8, <3>2 DEF PublicationKept, OutboxKept
    <3>3. QED
      BY <3>1, <3>2
  <2>2. ASSUME NEW d \in Callers, NEW f \in Callers, d # f,
               NEW i \in DOMAIN ob2[d], NEW j \in DOMAIN ob2[f]
        PROVE  ob2[d][i].id # ob2[f][j].id
    <3>1. PICK k \in DOMAIN ob[d] : ob2[d][i] = ob[d][k]
      BY <1>10
    <3>2. PICK l \in DOMAIN ob[f] : ob2[f][j] = ob[f][l]
      BY <1>10
    <3>3. QED
      BY <2>2, <3>1, <3>2 DEF PublicationKept, OutboxKept
  <2>3. QED
    BY <1>8, <2>1, <2>2 DEF OutboxKept
<1>12. HeardKept(hd2, waiting, n)
  <2>1. ASSUME NEW p \in OrderIds
        PROVE  /\ \A i \in 1..(Len(hd2[p]) - 1) : Rank(hd2[p][i]) < Rank(hd2[p][i + 1])
               /\ p > n => hd2[p] = <<>>
               /\ p \in waiting => \A i \in DOMAIN hd2[p] : hd2[p][i] = "accepted"
    <3>1. CASE p # o
      BY <1>9, <3>1 DEF PublicationKept, HeardKept
    <3>2. CASE p = o
      <4>1. ~(p > n) /\ p \notin waiting
        BY <1>4, <3>2 DEF OrderIds
      <4>2. ASSUME NEW i \in 1..(Len(said) - 1)
            PROVE  Rank(said[i]) < Rank(said[i + 1])
        <5>1. i \in 1..Len(hd[o]) /\ said[i] = hd[o][i]
          BY <1>5
        <5>2. CASE i = Len(hd[o])
          BY <1>5, <1>7, <5>1, <5>2
        <5>3. CASE i # Len(hd[o])
          <6>1. i \in 1..(Len(hd[o]) - 1) /\ said[i + 1] = hd[o][i + 1]
            <7>1. i \in 1..(Len(hd[o]) - 1) /\ i + 1 \in 1..Len(hd[o])
              BY <1>5, <5>1, <5>3
            <7>2. QED
              BY <1>5, <7>1
          <6>2. \A k \in 1..(Len(hd[o]) - 1) : Rank(hd[o][k]) < Rank(hd[o][k + 1])
            BY <1>4 DEF PublicationKept, HeardKept
          <6>. HIDE DEF o
          <6>3. QED
            BY <5>1, <6>1, <6>2
        <5>4. QED
          BY <5>2, <5>3
      <4>3. QED
        BY <1>9, <3>2, <4>1, <4>2
    <3>3. QED
      BY <3>1, <3>2
  <2>2. QED
    BY <1>9, <2>1 DEF HeardKept
<1>13. ComesAfter(ob2, hd2)
  <2>1. SUFFICES ASSUME NEW d \in Callers, NEW i \in DOMAIN ob2[d],
                        NEW k \in DOMAIN hd2[ob2[d][i].id]
                 PROVE  Rank(hd2[ob2[d][i].id][k]) < Rank(ob2[d][i].kind)
    BY DEF ComesAfter
  <2>. DEFINE v == ob2[d][i]
  <2>2. PICK j \in DOMAIN ob[d] : v = ob[d][j] /\ (d = c => j \in 2..Len(events))
    BY <1>10
  <2>3. v \in OrderEvent /\ v.id \in OrderIds /\ v.kind # "accepted"
    BY <1>10
  <2>. HIDE DEF v
  <2>4. \A m \in DOMAIN hd[v.id] : Rank(hd[v.id][m]) < Rank(v.kind)
    BY <2>2 DEF PublicationKept, ComesAfter
  <2>5. CASE v.id # o
    <3>1. hd2[v.id] = hd[v.id]
      BY <1>9, <2>3, <2>5
    <3>2. QED
      BY <2>4, <3>1 DEF v
  <2>6. CASE v.id = o
    <3>1. d = c
      <4>1. ASSUME d # c PROVE FALSE
        <5>1. ob[c][1].id = ob[d][j].id
          BY <1>2, <2>2, <2>6 DEF events
        <5>2. QED
          BY <1>2, <2>2, <4>1, <5>1 DEF PublicationKept, OutboxKept, events
      <4>2. QED
        BY <4>1
    <3>2. j \in (1 + 1)..Len(events) /\ v = events[j] /\ events[j].id = events[1].id
      BY <1>2, <2>2, <2>6, <3>1 DEF events
    <3>3. e.kind = "triggered" /\ v.kind # "triggered"
      BY <1>2, <1>3, <3>2 DEF TellsOf
    <3>4. Rank(e.kind) < Rank(v.kind)
      BY <1>2, <1>4, <2>3, <3>3, RankLate
    <3>5. k \in 1..(Len(hd[o]) + 1) /\ hd2[v.id] = said
      BY <1>5, <1>9, <2>6 DEF v
    <3>6. CASE k = Len(hd[o]) + 1
      BY <1>5, <3>4, <3>5, <3>6 DEF v
    <3>7. CASE k # Len(hd[o]) + 1
      <4>1. k \in 1..Len(hd[o]) /\ said[k] = hd[o][k]
        BY <1>5, <3>5, <3>7
      <4>2. QED
        BY <1>5, <2>4, <2>6, <3>5, <4>1 DEF v
    <3>8. QED
      BY <3>6, <3>7
  <2>7. QED
    BY <2>5, <2>6
<1>14. PublicationKept(ob2, hd2, waiting, n)
  BY <1>11, <1>12, <1>13 DEF PublicationKept
<1>15. QED
  BY <1>14, Zenon DEF ob2, hd2, e, rest, events

-----------------------------------------------------------------------------
(* ObserverIsRight and EndIsTold, of given orders and calls                *)
Told(orders, mir, ob) ==
    \A o \in OrderIds :
        mir[o] # "unknown" /\ ~(\E c \in Callers : \E i \in DOMAIN ob[c] : ob[c][i].id = o)
            /\ ~Lost(o) => mir[o] = orders[o].status

FinalWord(orders, hd, ob, o) ==
    \/ \E i \in DOMAIN hd[o] : hd[o][i] = orders[o].status
    \/ \E c \in Callers : \E i \in DOMAIN ob[c] : ob[c][i] = Event(orders[o].status, o)
    \/ Event(orders[o].status, o) \in lost

EndsTold(orders, hd, ob, n) ==
    \A o \in OrderIds :
        o <= n /\ orders[o].status \in {"filled", "cancelled", "rejected"} =>
            FinalWord(orders, hd, ob, o)

LEMMA ToldIs ==
    ASSUME nextId \in 0..MaxOrders, outbox \in [Callers -> Seq(OrderEvent)]
    PROVE  /\ ObserverIsRight <=> Told(order, mirror, outbox)
           /\ EndIsTold <=> EndsTold(order, heard, outbox, nextId)
<1>1. ObserverIsRight <=> Told(order, mirror, outbox)
  BY DEF ObserverIsRight, Told, ToCome
<1>2. MaxOrders \in Nat
  BY PaperConstants
<1>3. \A o : o \in 1..nextId <=> o \in OrderIds /\ o <= nextId
  BY <1>2 DEF OrderIds
<1>4. \A c \in Callers : \A x : x \in ToSet(outbox[c]) <=> \E i \in DOMAIN outbox[c] : outbox[c][i] = x
  BY DEF ToSet
<1>5. ASSUME NEW o \in OrderIds
      PROVE  FinalWord(order, heard, outbox, o) <=>
                 LET final == Event(order[o].status, o) IN
                 \/ \E i \in DOMAIN heard[o] : heard[o][i] = order[o].status
                 \/ \E c \in Callers : final \in ToSet(outbox[c])
                 \/ final \in lost
  BY <1>4 DEF FinalWord
<1>6. EndIsTold <=> EndsTold(order, heard, outbox, nextId)
  BY <1>3, <1>5, Zenon DEF EndIsTold, EndsTold
<1>7. QED
  BY <1>1, <1>6

(* The first event of a call is published, with the order as it is.        *)
LEMMA PublishTells ==
    ASSUME NEW ob \in [Callers -> Seq(OrderEvent)],
           NEW hd \in [OrderIds -> Seq(Kinds)],
           NEW mir \in [OrderIds -> OrderStatus \cup {"unknown"}],
           NEW orders, NEW n, Told(orders, mir, ob), EndsTold(orders, hd, ob, n),
           NEW c \in Callers, ob[c] # <<>>
    PROVE  \A ob1, hd1, mir1 :
               /\ ob1 = [ob EXCEPT ![c] = Tail(ob[c])]
               /\ hd1 = [hd EXCEPT ![Head(ob[c]).id] = Append(hd[Head(ob[c]).id], Head(ob[c]).kind)]
               /\ mir1 = [mir EXCEPT ![Head(ob[c]).id] = orders[Head(ob[c]).id].status]
               => Told(orders, mir1, ob1) /\ EndsTold(orders, hd1, ob1, n)
<1>. DEFINE events == ob[c]
            rest == Tail(events)
            e == Head(events)
            ob2 == [ob EXCEPT ![c] = rest]
            hd2 == [hd EXCEPT ![e.id] = Append(hd[e.id], e.kind)]
            mir2 == [mir EXCEPT ![e.id] = orders[e.id].status]
            said == Append(hd[e.id], e.kind)
<1>1. events \in Seq(OrderEvent) /\ events # <<>>
  OBVIOUS
<1>2. /\ e = events[1] /\ 1 \in DOMAIN events /\ e \in OrderEvent
      /\ rest \in Seq(OrderEvent) /\ Len(events) \in Nat /\ Len(events) >= 1
      /\ DOMAIN events = 1..Len(events) /\ DOMAIN rest = 1..(Len(events) - 1)
      /\ \A i \in 1..(Len(events) - 1) : rest[i] = events[i + 1]
  BY <1>1, TakenFirst
<1>3. e.id \in OrderIds /\ e.kind \in Kinds
  BY <1>2 DEF OrderEvent, Kinds
<1>4. /\ Len(hd[e.id]) \in Nat /\ DOMAIN hd[e.id] = 1..Len(hd[e.id])
      /\ DOMAIN said = 1..(Len(hd[e.id]) + 1)
      /\ \A i \in 1..Len(hd[e.id]) : said[i] = hd[e.id][i]
      /\ said[Len(hd[e.id]) + 1] = e.kind
  <2>1. hd[e.id] \in Seq(Kinds) /\ e.kind \in Kinds
    BY <1>3
  <2>. HIDE DEF e
  <2>2. QED
    BY <2>1, OneMore
<1>5. ob2[c] = rest /\ \A d \in Callers \ {c} : ob2[d] = ob[d]
  OBVIOUS
<1>6. hd2[e.id] = said /\ \A p \in OrderIds \ {e.id} : hd2[p] = hd[p]
  BY <1>3
<1>7. mir2[e.id] = orders[e.id].status /\ \A p \in OrderIds \ {e.id} : mir2[p] = mir[p]
  BY <1>3
<1>. HIDE DEF said, events, rest, e, ob2, hd2, mir2
<1>8. ASSUME NEW d \in Callers, NEW i \in DOMAIN ob[d]
      PROVE  ob[d][i] = e \/ \E j \in DOMAIN ob2[d] : ob2[d][j] = ob[d][i]
  <2>1. CASE d # c
    BY <1>5, <2>1
  <2>2. CASE d = c
    <3>1. CASE i = 1
      BY <1>2, <2>2, <3>1 DEF events
    <3>2. CASE i # 1
      <4>1. i \in 1..Len(events)
        BY <1>2, <2>2 DEF events
      <4>2. i - 1 \in 1..(Len(events) - 1) /\ (i - 1) + 1 = i
        BY <1>2, <4>1, <3>2
      <4>3. i - 1 \in DOMAIN rest /\ rest[i - 1] = events[i]
        BY <1>2, <4>2
      <4>4. QED
        BY <1>5, <2>2, <4>3 DEF events
    <3>3. QED
      BY <3>1, <3>2
  <2>3. QED
    BY <2>1, <2>2
<1>9. Told(orders, mir2, ob2)
  <2>1. SUFFICES ASSUME NEW o \in OrderIds, mir2[o] # "unknown", ~Lost(o),
                        ~(\E d \in Callers : \E i \in DOMAIN ob2[d] : ob2[d][i].id = o)
                 PROVE  mir2[o] = orders[o].status
    BY DEF Told
  <2>2. CASE o = e.id
    BY <1>7, <2>2
  <2>3. CASE o # e.id
    <3>1. ~(\E d \in Callers : \E i \in DOMAIN ob[d] : ob[d][i].id = o)
      BY <1>8, <2>1, <2>3
    <3>2. mir2[o] = mir[o]
      BY <1>7, <2>3
    <3>3. QED
      BY <2>1, <3>1, <3>2 DEF Told
  <2>4. QED
    BY <2>2, <2>3
<1>10. EndsTold(orders, hd2, ob2, n)
  <2>1. SUFFICES ASSUME NEW o \in OrderIds, FinalWord(orders, hd, ob, o)
                 PROVE  FinalWord(orders, hd2, ob2, o)
    BY DEF EndsTold
  <2>2. CASE \E i \in DOMAIN hd[o] : hd[o][i] = orders[o].status
    <3>1. PICK i \in DOMAIN hd[o] : hd[o][i] = orders[o].status
      BY <2>2
    <3>2. i \in DOMAIN hd2[o] /\ hd2[o][i] = hd[o][i]
      <4>1. CASE o = e.id
        <5>1. i \in 1..Len(hd[e.id])
          BY <1>4, <4>1
        <5>2. i \in DOMAIN said /\ said[i] = hd[e.id][i]
          BY <1>4, <5>1
        <5>3. QED
          BY <1>6, <4>1, <5>2
      <4>2. CASE o # e.id
        BY <1>6, <4>2
      <4>3. QED
        BY <4>1, <4>2
    <3>3. QED
      BY <3>1, <3>2 DEF FinalWord
  <2>3. CASE \E d \in Callers : \E i \in DOMAIN ob[d] : ob[d][i] = Event(orders[o].status, o)
    <3>0. PICK d \in Callers : \E i \in DOMAIN ob[d] : ob[d][i] = Event(orders[o].status, o)
      BY <2>3
    <3>1. PICK i \in DOMAIN ob[d] : ob[d][i] = Event(orders[o].status, o)
      BY <3>0
    <3>2. CASE ob[d][i] = e
      <4>1. e.kind = orders[o].status /\ e.id = o
        BY <3>1, <3>2 DEF Event
      <4>2. Len(hd[e.id]) + 1 \in DOMAIN hd2[o] /\ hd2[o][Len(hd[e.id]) + 1] = e.kind
        BY <1>4, <1>6, <4>1
      <4>3. QED
        BY <4>1, <4>2 DEF FinalWord
    <3>3. CASE ob[d][i] # e
      BY <1>8, <3>1, <3>3 DEF FinalWord
    <3>4. QED
      BY <3>2, <3>3
  <2>4. QED
    BY <2>1, <2>2, <2>3 DEF FinalWord
<1>11. QED
  BY <1>9, <1>10, Zenon DEF ob2, hd2, mir2, e, rest, events

-----------------------------------------------------------------------------
(* What a call leaves waiting, and the ids it hands out                    *)
LEMMA CallSettles ==
    ASSUME PaperInductive, PaperInductive', CallTells
    PROVE  /\ nextId \in Nat /\ nextId' \in Nat
           /\ Open \subseteq OrderIds /\ (\A o \in Open : o <= nextId)
           /\ Settled(Open, nextId) \subseteq Settled(Open', nextId')
           /\ Open \ Open' \subseteq Settled(Open', nextId')
<1>1. nextId \in Nat /\ nextId' \in Nat /\ nextId <= nextId' /\ MaxOrders \in Nat
  BY PaperConstants DEF PaperInductive, TypeOK, CallTells
<1>2. Open \subseteq OrderIds
  BY DEF PaperInductive, TypeOK, Open
<1>3. \A o \in OrderIds : o \in Int
  BY DEF OrderIds
<1>4. \A o \in Open : o <= nextId
  <2>1. \A o \in Open : o \in recorded
    BY DEF PaperInductive, OpenOrdersListed
  <2>2. QED
    BY <1>1, <1>2, <1>3, <2>1 DEF PaperInductive, IdsInOrder
<1>5. ASSUME NEW o \in OrderIds, o <= nextId
      PROVE  o <= nextId' /\ (o \in Open' => o \in Open)
  BY <1>1, <1>3, <1>5 DEF CallTells
<1>6. QED
  BY <1>1, <1>2, <1>4, <1>5 DEF Settled

(* What was heard stays in order, whatever a call changes.                 *)
LEMMA CallHearsNothing ==
    ASSUME PaperInductive, PaperInductive', CallTells, HeardKept(heard, Open, nextId)
    PROVE  HeardKept(heard, Open', nextId')
<1>1. nextId \in Nat /\ nextId' \in Nat /\ nextId <= nextId'
  BY CallSettles DEF CallTells
<1>2. ASSUME NEW o \in OrderIds
      PROVE  /\ o > nextId' => heard[o] = <<>>
             /\ o \in Open' => \A i \in DOMAIN heard[o] : heard[o][i] = "accepted"
  <2>1. o > nextId' => o > nextId
    BY <1>1 DEF OrderIds
  <2>2. o > nextId => heard[o] = <<>> /\ DOMAIN <<>> = {}
    BY DEF HeardKept
  <2>3. o \in Open' => o \in Open \/ o > nextId
    BY DEF CallTells
  <2>4. QED
    BY <2>1, <2>2, <2>3 DEF HeardKept
<1>3. QED
  BY <1>2 DEF HeardKept

(* The events of a call wait to be published by it.                        *)
LEMMA CallQueues ==
    ASSUME PaperInductive, PaperInductive', SessionSafe, CallTells,
           NEW c \in Callers, outbox[c] = <<>>
    PROVE  LET ob == [outbox EXCEPT ![c] = report'] IN
           /\ ob \in [Callers -> Seq(OrderEvent)]
           /\ Told(order', mirror, ob) /\ EndsTold(order', heard, ob, nextId')
<1>. DEFINE ob == [outbox EXCEPT ![c] = report']
<1>1. outbox \in [Callers -> Seq(OrderEvent)] /\ report' \in Seq(OrderEvent)
  BY DEF SessionSafe, PublicationKept, OutboxKept, CallTells
<1>2. ob \in [Callers -> Seq(OrderEvent)] /\ ob[c] = report'
      /\ \A d \in Callers \ {c} : ob[d] = outbox[d]
  BY <1>1
<1>3. Told(order, mirror, outbox) /\ EndsTold(order, heard, outbox, nextId)
  <2>1. nextId \in 0..MaxOrders
    BY DEF PaperInductive, TypeOK
  <2>2. QED
    BY <1>1, <2>1, ToldIs DEF SessionSafe
<1>. HIDE DEF ob
<1>4. ASSUME NEW o \in OrderIds, order'[o].status # order[o].status
      PROVE  \E i \in DOMAIN ob[c] : ob[c][i] = Event(order'[o].status, o)
  BY <1>2, <1>4 DEF CallTells, LastWord
<1>5. ASSUME NEW d \in Callers, NEW i \in DOMAIN outbox[d]
      PROVE  i \in DOMAIN ob[d] /\ ob[d][i] = outbox[d][i]
  <2>1. d # c
    <3>1. DOMAIN outbox[c] = {}
      OBVIOUS
    <3>2. QED
      BY <3>1
  <2>2. QED
    BY <1>2, <2>1
<1>6. Told(order', mirror, ob)
  <2>1. SUFFICES ASSUME NEW o \in OrderIds, mirror[o] # "unknown", ~Lost(o),
                        ~(\E d \in Callers : \E i \in DOMAIN ob[d] : ob[d][i].id = o)
                 PROVE  mirror[o] = order'[o].status
    BY DEF Told
  <2>2. order'[o].status = order[o].status
    <3>1. \A i \in DOMAIN ob[c] : ob[c][i].id # o
      BY <2>1
    <3>2. Event(order'[o].status, o).id = o
      BY DEF Event
    <3>3. QED
      BY <1>4, <3>1, <3>2
  <2>3. ~(\E d \in Callers : \E i \in DOMAIN outbox[d] : outbox[d][i].id = o)
    BY <1>5, <2>1
  <2>4. QED
    BY <1>3, <2>1, <2>2, <2>3 DEF Told
<1>7. EndsTold(order', heard, ob, nextId')
  <2>1. SUFFICES ASSUME NEW o \in OrderIds, o <= nextId',
                        order'[o].status \in {"filled", "cancelled", "rejected"}
                 PROVE  FinalWord(order', heard, ob, o)
    BY DEF EndsTold
  <2>2. CASE order'[o].status # order[o].status
    BY <1>4, <2>2 DEF FinalWord
  <2>3. CASE order'[o].status = order[o].status
    <3>1. o <= nextId
      <4>1. ASSUME o > nextId PROVE FALSE
        <5>1. order[o] = NoOrder
          BY <4>1 DEF PaperInductive, IdsInOrder
        <5>2. order[o].status = "created"
          BY <5>1 DEF NoOrder, NewOrder
        <5>3. QED
          BY <2>1, <2>3, <5>2
      <4>2. o \in Int /\ nextId \in Int
        BY DEF OrderIds, PaperInductive, TypeOK
      <4>3. QED
        BY <4>1, <4>2
    <3>2. FinalWord(order, heard, outbox, o)
      BY <1>3, <2>1, <2>3, <3>1 DEF EndsTold
    <3>3. (\E d \in Callers : \E i \in DOMAIN outbox[d] :
               outbox[d][i] = Event(order[o].status, o)) =>
          \E d \in Callers : \E i \in DOMAIN ob[d] : ob[d][i] = Event(order'[o].status, o)
      BY <1>5, <2>3
    <3>4. QED
      BY <2>3, <3>2, <3>3 DEF FinalWord
  <2>4. QED
    BY <2>2, <2>3
<1>8. QED
  BY <1>2, <1>6, <1>7 DEF ob

(* What waits to be published, and what was heard, while orders end        *)
LEMMA PublicationOfEnds ==
    ASSUME PaperInductive, PaperInductive', SessionSafe, CallTells,
           NEW c \in Callers, outbox[c] = <<>>, TellsOf(report', Open \ Open')
    PROVE  PublicationKept([outbox EXCEPT ![c] = report'], heard, Open', nextId')
<1>. DEFINE ob == [outbox EXCEPT ![c] = report']
<1>1. /\ PublicationKept(outbox, heard, Open, nextId)
      /\ outbox \in [Callers -> Seq(OrderEvent)] /\ report' \in Seq(OrderEvent)
  BY DEF SessionSafe, PublicationKept, OutboxKept, CallTells
<1>2. ob \in [Callers -> Seq(OrderEvent)] /\ ob[c] = report'
      /\ \A d \in Callers \ {c} : ob[d] = outbox[d]
  BY <1>1
<1>. HIDE DEF ob
<1>3. ASSUME NEW d \in Callers \ {c}, NEW i \in DOMAIN ob[d]
      PROVE  ob[d][i].id \notin Open
  BY <1>1, <1>2 DEF PublicationKept, OutboxKept, TellsOf, Settled
<1>4. ASSUME NEW i \in DOMAIN ob[c]
      PROVE  ob[c][i].id \in Open /\ ob[c][i].kind # "accepted" /\ ob[c][i] \in OrderEvent
  BY <1>1, <1>2 DEF TellsOf
<1>5. OutboxKept(ob, Open', nextId')
  <2>1. ASSUME NEW d \in Callers PROVE TellsOf(ob[d], Settled(Open', nextId'))
    <3>1. CASE d = c
      BY <1>2, <3>1, CallSettles, TellsWider
    <3>2. CASE d # c
      <4>1. TellsOf(ob[d], Settled(Open, nextId))
        BY <1>1, <1>2, <3>2 DEF PublicationKept, OutboxKept
      <4>2. QED
        BY <4>1, CallSettles, TellsWider
    <3>3. QED
      BY <3>1, <3>2
  <2>2. ASSUME NEW d \in Callers, NEW f \in Callers, d # f,
               NEW i \in DOMAIN ob[d], NEW j \in DOMAIN ob[f]
        PROVE  ob[d][i].id # ob[f][j].id
    <3>1. CASE d = c
      BY <1>3, <1>4, <2>2, <3>1
    <3>2. CASE f = c
      BY <1>3, <1>4, <2>2, <3>2
    <3>3. CASE d # c /\ f # c
      BY <1>1, <1>2, <2>2, <3>3 DEF PublicationKept, OutboxKept
    <3>4. QED
      BY <3>1, <3>2, <3>3
  <2>3. QED
    BY <1>2, <2>1, <2>2 DEF OutboxKept
<1>6. HeardKept(heard, Open', nextId')
  <2>1. HeardKept(heard, Open, nextId)
    BY <1>1 DEF PublicationKept
  <2>2. QED
    BY <2>1, CallHearsNothing
<1>7. ComesAfter(ob, heard)
  <2>1. SUFFICES ASSUME NEW d \in Callers, NEW i \in DOMAIN ob[d],
                        NEW k \in DOMAIN heard[ob[d][i].id]
                 PROVE  Rank(heard[ob[d][i].id][k]) < Rank(ob[d][i].kind)
    BY DEF ComesAfter
  <2>2. CASE d = c
    <3>1. ob[c][i].id \in Open /\ ob[c][i].kind # "accepted" /\ ob[c][i] \in OrderEvent
      BY <1>4, <2>2
    <3>2. ob[c][i].id \in OrderIds
      BY <3>1 DEF OrderEvent, Kinds
    <3>3. heard[ob[c][i].id][k] = "accepted"
      BY <1>1, <2>2, <3>1, <3>2 DEF PublicationKept, HeardKept
    <3>4. QED
      BY <2>2, <3>1, <3>3, RankOf, RankLate
  <2>3. CASE d # c
    BY <1>1, <1>2, <2>3 DEF PublicationKept, ComesAfter
  <2>4. QED
    BY <2>2, <2>3
<1>8. QED
  BY <1>5, <1>6, <1>7 DEF PublicationKept, ob

(* A call that says of a new order how submit went: it is heard at once.   *)
LEMMA PublicationOfNew ==
    ASSUME PaperInductive, PaperInductive', SessionSafe, CallTells,
           NEW c \in Callers, outbox[c] = <<>>,
           Len(report') = 1, nextId < report'[1].id, report'[1].id <= nextId'
    PROVE  /\ Tail(report') = <<>>
           /\ \A hd1 : hd1 = [heard EXCEPT ![Head(report').id] =
                                    Append(heard[Head(report').id], Head(report').kind)]
                  => PublicationKept(outbox, hd1, Open', nextId')
<1>. DEFINE e == Head(report')
            hd2 == [heard EXCEPT ![e.id] = Append(heard[e.id], e.kind)]
            said == Append(heard[e.id], e.kind)
<1>1. /\ PublicationKept(outbox, heard, Open, nextId)
      /\ outbox \in [Callers -> Seq(OrderEvent)] /\ report' \in Seq(OrderEvent)
      /\ heard \in [OrderIds -> Seq(Kinds)]
  BY DEF SessionSafe, PublicationKept, OutboxKept, HeardKept, CallTells
<1>2. e = report'[1] /\ e \in OrderEvent /\ Tail(report') = <<>> /\ report' # <<>>
  <2>1. report' # <<>>
    OBVIOUS
  <2>2. /\ e = report'[1] /\ e \in OrderEvent
        /\ Tail(report') \in Seq(OrderEvent) /\ Len(Tail(report')) = 0
    BY <1>1, <2>1, TakenFirst
  <2>3. Tail(report') = <<>>
    BY <2>2, EmptySeq
  <2>. HIDE DEF e
  <2>4. QED
    BY <2>1, <2>2, <2>3
<1>3. nextId < e.id /\ e.id <= nextId' /\ e.id \in OrderIds /\ e.kind \in Kinds
  BY <1>2 DEF OrderEvent, Kinds
<1>4. nextId \in Nat /\ nextId' \in Nat /\ e.id \in Nat
      /\ Settled(Open, nextId) \subseteq Settled(Open', nextId')
  BY <1>3, CallSettles DEF OrderIds
<1>6. heard[e.id] = <<>>
  BY <1>1, <1>3, <1>4 DEF PublicationKept, HeardKept
<1>7. said = <<e.kind>> /\ said \in Seq(Kinds) /\ Len(said) = 1 /\ DOMAIN said = {1} /\ said[1] = e.kind
  <2>. HIDE DEF e
  <2>1. QED
    BY <1>3, <1>6
<1>8. hd2 \in [OrderIds -> Seq(Kinds)] /\ hd2[e.id] = said /\ \A p \in OrderIds \ {e.id} : hd2[p] = heard[p]
  BY <1>1, <1>3, <1>7
<1>. HIDE DEF said, e, hd2
<1>9. OutboxKept(outbox, Open', nextId')
  <2>1. \A d \in Callers : TellsOf(outbox[d], Settled(Open', nextId'))
    BY <1>1, <1>4, TellsWider DEF PublicationKept, OutboxKept
  <2>2. QED
    BY <1>1, <2>1 DEF PublicationKept, OutboxKept
<1>10. HeardKept(hd2, Open', nextId')
  <2>1. HeardKept(heard, Open', nextId')
    BY <1>1, CallHearsNothing DEF PublicationKept
  <2>2. e.id \in Open' => e.kind = "accepted"
    <3>1. ASSUME e.id \in Open' PROVE e.kind = "accepted"
      <4>1. e.id \notin Open
        BY <1>3, <1>4, CallSettles
      <4>2. report' = <<Event("accepted", e.id)>>
        BY <3>1, <4>1 DEF CallTells
      <4>3. e = Event("accepted", e.id)
        BY <1>2, <4>2
      <4>4. QED
        BY <4>3 DEF Event
    <3>2. QED
      BY <3>1
  <2>3. ASSUME NEW p \in OrderIds
        PROVE  /\ \A i \in 1..(Len(hd2[p]) - 1) : Rank(hd2[p][i]) < Rank(hd2[p][i + 1])
               /\ p > nextId' => hd2[p] = <<>>
               /\ p \in Open' => \A i \in DOMAIN hd2[p] : hd2[p][i] = "accepted"
    <3>1. CASE p # e.id
      BY <1>8, <2>1, <3>1 DEF HeardKept
    <3>2. CASE p = e.id
      <4>1. ~(p > nextId')
        BY <1>3, <1>4, <3>2
      <4>2. p \in Open' => \A i \in DOMAIN hd2[p] : hd2[p][i] = "accepted"
        BY <1>7, <1>8, <2>2, <3>2
      <4>3. Len(hd2[p]) - 1 = 0
        BY <1>7, <1>8, <3>2
      <4>4. QED
        BY <4>1, <4>2, <4>3
    <3>3. QED
      BY <3>1, <3>2
  <2>4. QED
    BY <1>8, <2>3 DEF HeardKept
<1>11. ComesAfter(outbox, hd2)
  <2>1. SUFFICES ASSUME NEW d \in Callers, NEW i \in DOMAIN outbox[d]
                 PROVE  hd2[outbox[d][i].id] = heard[outbox[d][i].id]
    BY <1>1 DEF ComesAfter, PublicationKept
  <2>2. outbox[d][i].id \in OrderIds /\ outbox[d][i].id <= nextId
    BY <1>1 DEF PublicationKept, OutboxKept, TellsOf, Settled
  <2>3. outbox[d][i].id # e.id
    BY <1>3, <1>4, <2>2
  <2>4. QED
    BY <1>8, <2>2, <2>3
<1>12. QED
  <2>1. PublicationKept(outbox, hd2, Open', nextId')
    BY <1>9, <1>10, <1>11 DEF PublicationKept
  <2>2. QED
    BY <1>2, <2>1, Zenon DEF hd2, e

(* SessionSafe of the next state, from what its lemmas say                 *)
LEMMA SafeAgain ==
    ASSUME SessionSafe, PaperInductive', UNCHANGED <<state, attached>>, lost' = lost,
           suspended' \in [Callers -> {NoEvent} \cup Seq(OrderEvent)],
           mirror' \in [OrderIds -> OrderStatus \cup {"unknown"}],
           \A d \in Callers : Free(d)' => outbox'[d] = <<>>,
           PublicationKept(outbox', heard', Open', nextId'),
           Told(order', mirror', outbox'), EndsTold(order', heard', outbox', nextId')
    PROVE  SessionSafe'
<1>1. nextId' \in 0..MaxOrders /\ outbox' \in [Callers -> Seq(OrderEvent)]
  BY DEF PaperInductive, TypeOK, PublicationKept, OutboxKept
<1>2. MaxOrders \in Nat
  BY PaperConstants
<1>3. ObserverIsRight'
  BY DEF ObserverIsRight, Told, ToCome, Lost
<1>4. EndIsTold'
  <2>1. SUFFICES ASSUME NEW o \in 1..nextId',
                        order'[o].status \in {"filled", "cancelled", "rejected"}
                 PROVE  LET final == Event(order'[o].status, o) IN
                        \/ \E i \in DOMAIN heard'[o] : heard'[o][i] = order'[o].status
                        \/ \E c \in Callers : final \in ToSet(outbox'[c])
                        \/ final \in lost'
    BY DEF EndIsTold
  <2>2. o \in OrderIds /\ o <= nextId'
    BY <1>1, <1>2 DEF OrderIds
  <2>3. FinalWord(order', heard', outbox', o)
    BY <2>1, <2>2 DEF EndsTold
  <2>4. \A c \in Callers : \A i \in DOMAIN outbox'[c] : outbox'[c][i] \in ToSet(outbox'[c])
    BY DEF ToSet
  <2>5. QED
    BY <2>3, <2>4 DEF FinalWord
<1>5. QED
  BY <1>3, <1>4 DEF SessionSafe, Free

(* A call: the venue changes, and the first of its events is published.    *)
LEMMA CallIsHeard ==
    ASSUME PaperInductive, PaperInductive', SessionSafe, CallTells,
           NEW c \in Callers, Free(c), Tell(c, report'), UNCHANGED <<state, attached, lost>>
    PROVE  SessionSafe'
<1>. DEFINE ob == [outbox EXCEPT ![c] = report']
            e == Head(report')
<1>1. /\ outbox \in [Callers -> Seq(OrderEvent)] /\ report' \in Seq(OrderEvent)
      /\ heard \in [OrderIds -> Seq(Kinds)]
      /\ mirror \in [OrderIds -> OrderStatus \cup {"unknown"}]
      /\ outbox[c] = <<>>
  BY DEF SessionSafe, PublicationKept, OutboxKept, HeardKept, CallTells
<1>2. /\ ob \in [Callers -> Seq(OrderEvent)] /\ ob[c] = report'
      /\ Told(order', mirror, ob) /\ EndsTold(order', heard, ob, nextId')
  BY <1>1, CallQueues
<1>3. /\ PublicationKept(outbox', heard', Open', nextId')
      /\ Told(order', mirror', outbox') /\ EndsTold(order', heard', outbox', nextId')
  <2>1. CASE report' = <<>>
    <3>1. ob = outbox /\ UNCHANGED <<outbox, suspended, heard, mirror>>
      BY <1>1, <2>1 DEF Tell
    <3>2. PublicationKept(ob, heard, Open', nextId')
      <4>1. TellsOf(report', Open \ Open')
        BY <2>1 DEF TellsOf
      <4>2. QED
        BY <1>1, <4>1, PublicationOfEnds
    <3>3. QED
      BY <1>2, <3>1, <3>2
  <2>2. CASE report' # <<>>
    <3>1. /\ outbox' = [outbox EXCEPT ![c] = Tail(report')]
          /\ heard' = [heard EXCEPT ![e.id] = Append(heard[e.id], e.kind)]
          /\ mirror' = [mirror EXCEPT ![e.id] = order'[e.id].status]
      BY <2>2 DEF Tell
    <3>2. outbox' = [ob EXCEPT ![c] = Tail(ob[c])] /\ Head(ob[c]) = e
      BY <1>1, <1>2, <3>1
    <3>2a. heard' = [heard EXCEPT ![Head(ob[c]).id] = Append(heard[Head(ob[c]).id], Head(ob[c]).kind)]
      BY <3>1, <3>2, Zenon
    <3>2b. mirror' = [mirror EXCEPT ![Head(ob[c]).id] = order'[Head(ob[c]).id].status]
      BY <3>1, <3>2, Zenon
    <3>2c. ob[c] # <<>>
      BY <1>2, <2>2
    <3>. HIDE DEF ob, e
    <3>3. Told(order', mirror', outbox') /\ EndsTold(order', heard', outbox', nextId')
      <4>1. \A ob1, hd1, mir1 :
                /\ ob1 = [ob EXCEPT ![c] = Tail(ob[c])]
                /\ hd1 = [heard EXCEPT ![Head(ob[c]).id] =
                              Append(heard[Head(ob[c]).id], Head(ob[c]).kind)]
                /\ mir1 = [mirror EXCEPT ![Head(ob[c]).id] = order'[Head(ob[c]).id].status]
                => Told(order', mir1, ob1) /\ EndsTold(order', hd1, ob1, nextId')
        BY <1>1, <1>2, <3>2c, PublishTells
      <4>2. QED
        BY <3>2, <3>2a, <3>2b, <4>1
    <3>4. PublicationKept(outbox', heard', Open', nextId')
      <4>1. CASE TellsOf(report', Open \ Open')
        <5>1. PublicationKept(ob, heard, Open', nextId') /\ nextId' \in Nat
          BY <1>1, <4>1, PublicationOfEnds, CallSettles DEF ob
        <5>2. QED
          BY <3>2, <3>2a, <3>2c, <5>1, PublishKeeps
      <4>2. CASE Len(report') = 1 /\ nextId < report'[1].id /\ report'[1].id <= nextId'
        <5>1. Tail(report') = <<>> /\ PublicationKept(outbox, heard', Open', nextId')
          BY <1>1, <3>1, <4>2, PublicationOfNew DEF e
        <5>2. outbox' = outbox
          BY <1>1, <3>1, <5>1
        <5>3. QED
          BY <5>1, <5>2
      <4>3. QED
        BY <4>1, <4>2 DEF CallTells
    <3>5. QED
      BY <3>3, <3>4
  <2>3. QED
    BY <2>1, <2>2
<1>4. \A d \in Callers : Free(d)' => outbox'[d] = <<>>
  <2>1. CASE report' = <<>>
    BY <2>1 DEF Tell, SessionSafe, Free
  <2>2. CASE report' # <<>>
    <3>1. /\ outbox' = [outbox EXCEPT ![c] = Tail(report')]
          /\ suspended' = [suspended EXCEPT ![c] = <<e>>]
      BY <2>2 DEF Tell
    <3>2. suspended'[c] = <<e>> /\ <<e>> # <<>>
      BY <3>1 DEF SessionSafe
    <3>3. QED
      BY <1>1, <3>1, <3>2 DEF SessionSafe, Free, NoEvent
  <2>3. QED
    BY <2>1, <2>2
<1>5. /\ suspended' \in [Callers -> {NoEvent} \cup Seq(OrderEvent)]
      /\ mirror' \in [OrderIds -> OrderStatus \cup {"unknown"}]
  <2>1. CASE report' = <<>>
    BY <2>1 DEF Tell, SessionSafe
  <2>2. CASE report' # <<>>
    <3>1. e \in OrderEvent
      BY <1>1, <2>2, TakenFirst
    <3>2. e.id \in OrderIds
      BY <3>1 DEF OrderEvent, Kinds
    <3>3. order'[e.id].status \in OrderStatus
      BY <3>2 DEF PaperInductive, TypeOK, Order
    <3>4. /\ suspended' = [suspended EXCEPT ![c] = <<e>>]
          /\ mirror' = [mirror EXCEPT ![e.id] = order'[e.id].status]
      BY <2>2 DEF Tell
    <3>5. <<e>> \in Seq(OrderEvent)
      BY <3>1
    <3>. HIDE DEF e
    <3>6. QED
      BY <3>3, <3>4, <3>5 DEF SessionSafe
  <2>3. QED
    BY <2>1, <2>2
<1>6. QED
  BY <1>3, <1>4, <1>5, SafeAgain

(* The handlers return: the next event, or the end of the call.            *)
LEMMA GoOnKeeps ==
    ASSUME PaperInductive, SessionSafe, NEW c \in Callers, GoOn(c)
    PROVE  PaperInductive' /\ SessionSafe'
<1>1. /\ UNCHANGED vars /\ UNCHANGED <<state, attached>> /\ lost' = lost
      /\ IF outbox[c] = <<>>
         THEN /\ suspended' = [suspended EXCEPT ![c] = NoEvent]
              /\ UNCHANGED <<outbox, heard, mirror>>
         ELSE Tell(c, outbox[c])
  BY DEF GoOn
<1>2. PaperInductive'
  BY <1>1, PaperStutter
<1>3. /\ order' = order /\ Open' = Open /\ nextId' = nextId /\ nextId \in Nat /\ nextId \in 0..MaxOrders
  BY <1>1, PaperConstants DEF vars, venueVars, Open, PaperInductive, TypeOK
<1>4. /\ outbox \in [Callers -> Seq(OrderEvent)]
      /\ heard \in [OrderIds -> Seq(Kinds)]
      /\ mirror \in [OrderIds -> OrderStatus \cup {"unknown"}]
      /\ suspended \in [Callers -> {NoEvent} \cup Seq(OrderEvent)]
      /\ PublicationKept(outbox, heard, Open, nextId)
  BY DEF SessionSafe, PublicationKept, OutboxKept, HeardKept
<1>5. Told(order, mirror, outbox) /\ EndsTold(order, heard, outbox, nextId)
  BY <1>3, <1>4, ToldIs DEF SessionSafe
<1>6. CASE outbox[c] = <<>>
  <2>1. suspended' = [suspended EXCEPT ![c] = NoEvent] /\ UNCHANGED <<outbox, heard, mirror>>
    BY <1>1, <1>6
  <2>2. \A d \in Callers : Free(d)' => outbox'[d] = <<>>
    BY <1>4, <1>6, <2>1 DEF SessionSafe, Free
  <2>3. suspended' \in [Callers -> {NoEvent} \cup Seq(OrderEvent)]
    BY <1>4, <2>1
  <2>4. QED
    BY <1>1, <1>2, <1>3, <1>4, <1>5, <2>1, <2>2, <2>3, SafeAgain
<1>7. CASE outbox[c] # <<>>
  <2>. DEFINE e == Head(outbox[c])
  <2>1. /\ outbox' = [outbox EXCEPT ![c] = Tail(outbox[c])]
        /\ suspended' = [suspended EXCEPT ![c] = <<e>>]
        /\ heard' = [heard EXCEPT ![e.id] = Append(heard[e.id], e.kind)]
        /\ mirror' = [mirror EXCEPT ![e.id] = order[e.id].status]
    BY <1>1, <1>3, <1>7 DEF Tell
  <2>2. e \in OrderEvent /\ e.id \in OrderIds /\ <<e>> \in Seq(OrderEvent) /\ <<e>> # NoEvent
    <3>1. e \in OrderEvent
      BY <1>4, <1>7, TakenFirst
    <3>. HIDE DEF e
    <3>2. QED
      BY <3>1 DEF OrderEvent, NoEvent
  <2>3. order[e.id].status \in OrderStatus
    BY <2>2 DEF PaperInductive, TypeOK, Order
  <2>4. PublicationKept(outbox', heard', Open, nextId)
    BY <1>3, <1>4, <1>7, <2>1, PublishKeeps
  <2>5. Told(order, mirror', outbox') /\ EndsTold(order, heard', outbox', nextId)
    <3>1. \A ob1, hd1, mir1 :
              /\ ob1 = [outbox EXCEPT ![c] = Tail(outbox[c])]
              /\ hd1 = [heard EXCEPT ![Head(outbox[c]).id] =
                            Append(heard[Head(outbox[c]).id], Head(outbox[c]).kind)]
              /\ mir1 = [mirror EXCEPT ![Head(outbox[c]).id] = order[Head(outbox[c]).id].status]
              => Told(order, mir1, ob1) /\ EndsTold(order, hd1, ob1, nextId)
      BY <1>4, <1>5, <1>7, PublishTells
    <3>2. QED
      BY <2>1, <3>1
  <2>. HIDE DEF e
  <2>6. \A d \in Callers : Free(d)' => outbox'[d] = <<>>
    BY <1>4, <2>1, <2>2 DEF SessionSafe, Free
  <2>7. /\ suspended' \in [Callers -> {NoEvent} \cup Seq(OrderEvent)]
        /\ mirror' \in [OrderIds -> OrderStatus \cup {"unknown"}]
    BY <1>4, <2>1, <2>2, <2>3
  <2>8. QED
    BY <1>1, <1>2, <1>3, <2>4, <2>5, <2>6, <2>7, SafeAgain
<1>8. QED
  BY <1>2, <1>6, <1>7

(* A handler raises: what its call had still to publish is lost.           *)
LEMMA RaisesKeeps ==
    ASSUME PaperInductive, SessionSafe, NEW c \in Callers, HandlerRaises(c)
    PROVE  PaperInductive' /\ SessionSafe'
<1>1. /\ UNCHANGED vars /\ UNCHANGED <<state, attached, heard, mirror>>
      /\ lost' = lost \cup ToSet(outbox[c])
      /\ outbox' = [outbox EXCEPT ![c] = <<>>]
      /\ suspended' = [suspended EXCEPT ![c] = NoEvent]
  BY DEF HandlerRaises
<1>2. PaperInductive'
  BY <1>1, PaperStutter
<1>3. order' = order /\ Open' = Open /\ nextId' = nextId
  BY <1>1 DEF vars, venueVars, Open
<1>4. /\ outbox \in [Callers -> Seq(OrderEvent)]
      /\ suspended \in [Callers -> {NoEvent} \cup Seq(OrderEvent)]
      /\ PublicationKept(outbox, heard, Open, nextId)
  BY DEF SessionSafe, PublicationKept, OutboxKept
<1>5. /\ outbox'[c] = <<>> /\ DOMAIN <<>> = {} /\ \A d \in Callers \ {c} : outbox'[d] = outbox[d]
      /\ outbox' \in [Callers -> Seq(OrderEvent)]
  BY <1>1, <1>4
<1>6. \A x : x \in ToSet(outbox[c]) <=> \E i \in DOMAIN outbox[c] : outbox[c][i] = x
  BY DEF ToSet
<1>7. lost' \subseteq OrderEvent
  <2>1. \A i \in DOMAIN outbox[c] : outbox[c][i] \in OrderEvent
    BY <1>4
  <2>2. QED
    BY <1>1, <1>6, <2>1 DEF SessionSafe
<1>8. PublicationKept(outbox', heard', Open', nextId')
  <2>1. OutboxKept(outbox', Open, nextId)
    <3>1. TellsOf(<<>>, Settled(Open, nextId))
      BY DEF TellsOf
    <3>2. \A d \in Callers : TellsOf(outbox'[d], Settled(Open, nextId))
      BY <1>4, <1>5, <3>1 DEF PublicationKept, OutboxKept
    <3>3. ASSUME NEW d \in Callers, NEW f \in Callers, d # f,
                 NEW i \in DOMAIN outbox'[d], NEW j \in DOMAIN outbox'[f]
          PROVE  outbox'[d][i].id # outbox'[f][j].id
      <4>1. d # c /\ f # c
        BY <1>5
      <4>2. QED
        BY <1>4, <1>5, <3>3, <4>1 DEF PublicationKept, OutboxKept
    <3>4. QED
      BY <1>5, <3>2, <3>3 DEF OutboxKept
  <2>2. ComesAfter(outbox', heard)
    <3>1. SUFFICES ASSUME NEW d \in Callers, NEW i \in DOMAIN outbox'[d]
                   PROVE  outbox'[d] = outbox[d]
      BY <1>4 DEF ComesAfter, PublicationKept
    <3>2. QED
      BY <1>5
  <2>3. QED
    BY <1>1, <1>3, <1>4, <2>1, <2>2 DEF PublicationKept
<1>9. ObserverIsRight'
  <2>1. SUFFICES ASSUME NEW o \in OrderIds, mirror[o] # "unknown", ~ToCome(o)', ~Lost(o)'
                 PROVE  mirror[o] = order[o].status
    BY <1>1, <1>3 DEF ObserverIsRight
  <2>2. ~Lost(o)
    BY <1>1, <2>1 DEF Lost
  <2>3. ~ToCome(o)
    <3>1. SUFFICES ASSUME NEW d \in Callers, NEW i \in DOMAIN outbox[d], outbox[d][i].id = o
                   PROVE  FALSE
      BY DEF ToCome
    <3>2. CASE d = c
      <4>1. outbox[d][i] \in lost'
        BY <1>1, <1>6, <3>2
      <4>2. QED
        BY <2>1, <3>1, <4>1 DEF Lost
    <3>3. CASE d # c
      BY <1>5, <2>1, <3>1, <3>3 DEF ToCome
    <3>4. QED
      BY <3>2, <3>3
  <2>4. QED
    BY <2>1, <2>2, <2>3 DEF SessionSafe, ObserverIsRight
<1>10. EndIsTold'
  <2>1. SUFFICES ASSUME NEW o \in 1..nextId,
                        order[o].status \in {"filled", "cancelled", "rejected"}
                 PROVE  LET final == Event(order[o].status, o) IN
                        \/ \E i \in DOMAIN heard[o] : heard[o][i] = order[o].status
                        \/ \E d \in Callers : final \in ToSet(outbox'[d])
                        \/ final \in lost'
    BY <1>1, <1>3 DEF EndIsTold
  <2>. DEFINE final == Event(order[o].status, o)
  <2>2. \/ \E i \in DOMAIN heard[o] : heard[o][i] = order[o].status
        \/ \E d \in Callers : final \in ToSet(outbox[d])
        \/ final \in lost
    BY <2>1 DEF SessionSafe, EndIsTold
  <2>. HIDE DEF final
  <2>3. ASSUME NEW d \in Callers, final \in ToSet(outbox[d])
        PROVE  (\E f \in Callers : final \in ToSet(outbox'[f])) \/ final \in lost'
    BY <1>1, <1>5, <2>3
  <2>4. QED
    BY <1>1, <2>2, <2>3 DEF final
<1>11. \A d \in Callers : Free(d)' => outbox'[d] = <<>>
  BY <1>1, <1>4, <1>5 DEF SessionSafe, Free
<1>12. suspended' \in [Callers -> {NoEvent} \cup Seq(OrderEvent)]
  BY <1>1, <1>4
<1>13. QED
  BY <1>1, <1>2, <1>7, <1>8, <1>9, <1>10, <1>11, <1>12 DEF SessionSafe, Free

(* Nothing of the venue and of its publication changes.                    *)
LEMMA QuietKeeps ==
    ASSUME PaperInductive, SessionSafe,
           UNCHANGED <<vars, outbox, suspended, heard, mirror, lost>>,
           state' \in {"created", "running", "stopped"}, attached' \in BOOLEAN
    PROVE  PaperInductive' /\ SessionSafe'
<1>1. PaperInductive'
  BY PaperStutter
<1>2. order' = order /\ Open' = Open /\ nextId' = nextId
  BY DEF vars, venueVars, Open
<1>3. QED
  BY <1>1, <1>2 DEF SessionSafe, Free, ObserverIsRight, ToCome, Lost, EndIsTold

LEMMA SessionStarts == SessionInit => PaperInductive /\ SessionSafe
<1>1. SUFFICES ASSUME SessionInit PROVE PaperInductive /\ SessionSafe
  OBVIOUS
<1>2. PaperInductive
  BY <1>1, PaperInit DEF SessionInit
<1>3. /\ outbox = [c \in Callers |-> <<>>] /\ suspended = [c \in Callers |-> NoEvent]
      /\ heard = [o \in OrderIds |-> <<>>] /\ mirror = [o \in OrderIds |-> "unknown"]
      /\ lost = {} /\ state = "created" /\ attached = FALSE
      /\ nextId = 0 /\ Open = {}
  BY <1>1 DEF SessionInit, Init, Open
<1>4. PublicationKept(outbox, heard, Open, nextId)
  <2>1. TellsOf(<<>>, Settled(Open, nextId)) /\ <<>> \in Seq(OrderEvent) /\ <<>> \in Seq(Kinds)
        /\ DOMAIN <<>> = {} /\ Len(<<>>) = 0
    BY DEF TellsOf
  <2>2. OutboxKept(outbox, Open, nextId) /\ ComesAfter(outbox, heard)
    BY <1>3, <2>1 DEF OutboxKept, ComesAfter
  <2>3. HeardKept(heard, Open, nextId)
    <3>1. ASSUME NEW o \in OrderIds PROVE heard[o] = <<>> /\ Len(heard[o]) - 1 = -1
      BY <1>3, <2>1
    <3>2. 1..(-1) = {}
      OBVIOUS
    <3>3. heard \in [OrderIds -> Seq(Kinds)]
      BY <1>3, <2>1
    <3>4. QED
      BY <2>1, <3>1, <3>2, <3>3 DEF HeardKept
  <2>4. QED
    BY <2>2, <2>3 DEF PublicationKept
<1>5. ObserverIsRight
  BY <1>3 DEF ObserverIsRight
<1>6. EndIsTold
  <2>1. 1..nextId = {}
    BY <1>3
  <2>2. QED
    BY <2>1 DEF EndIsTold
<1>7. QED
  BY <1>2, <1>3, <1>4, <1>5, <1>6 DEF SessionSafe, Free, OrderStatus

(* Every step of a session keeps the venue's books and what is told.       *)
LEMMA SessionKeeps ==
    ASSUME PaperInductive, SessionSafe, [SessionNext]_allVars
    PROVE  PaperInductive' /\ SessionSafe'
<1>1. state \in {"created", "running", "stopped"} /\ attached \in BOOLEAN
  BY DEF SessionSafe
<1>2. ASSUME NEW c \in Callers, Place(c)
      PROVE  PaperInductive' /\ SessionSafe'
  <2>1. PICK side \in OrderSide, qty \in Quantities, t \in Placed : SubmitOrder(side, qty, t)
    BY <1>2 DEF Place
  <2>2. qty \in Nat /\ t \in Tickets
    BY PaperConstants, SessionConstants
  <2>3. PaperInductive' /\ CallTells
    BY <2>1, <2>2, SubmitKeeps, SubmitTells
  <2>4. QED
    BY <1>2, <2>3, CallIsHeard DEF Place
<1>3. ASSUME NEW c \in Callers, Cancels(c)
      PROVE  PaperInductive' /\ SessionSafe'
  <2>1. PICK o \in OrderIds : CancelOrder(o)
    BY <1>3 DEF Cancels
  <2>2. PaperInductive' /\ CallTells
    BY <2>1, CancelKeeps, CancelTells
  <2>3. QED
    BY <1>3, <2>2, CallIsHeard DEF Cancels
<1>4. ASSUME NEW c \in Callers, Feed(c)
      PROVE  PaperInductive' /\ SessionSafe'
  <2>1. PICK quote \in Quote : OnMarketData(quote)
    BY <1>4 DEF Feed
  <2>2. PaperInductive' /\ CallTells
    BY <2>1, UpdateKeeps, UpdateTells
  <2>3. QED
    BY <1>4, <2>2, CallIsHeard DEF Feed
<1>5. CASE Start \/ StopSession \/ Attach \/ Detach
  BY <1>1, <1>5, QuietKeeps DEF Start, StopSession, Attach, Detach
<1>6. CASE UNCHANGED allVars
  BY <1>1, <1>6, QuietKeeps DEF allVars, sessionVars
<1>7. QED
  BY <1>2, <1>3, <1>4, <1>5, <1>6, GoOnKeeps, RaisesKeeps DEF SessionNext

-----------------------------------------------------------------------------
(***************************************************************************)
(* The sizers.                                                             *)
(***************************************************************************)

(* A quotient leaves less than the divisor. *)
LEMMA Quotient ==
    ASSUME NEW a \in Nat, NEW d \in Nat \ {0}
    PROVE  a \div d \in Nat /\ (a \div d) * d <= a /\ a < (a \div d) * d + d
OBVIOUS

LEMMA TimesHundred ==
    ASSUME NEW k \in Nat, NEW u \in Nat
    PROVE  k * u * 100 = k * (100 * u)
OBVIOUS

(* A size by risk, times what a unit loses, is the share of the equity.    *)
LEMMA RiskSizeKeeps ==
    ASSUME NEW context \in SizingContext, sizer \in Sizer, NEW u \in Nat, u > 0
    PROVE  LET q == RiskSize(context, u)
               risked == context.equity * sizer.percent IN
           /\ q[1] * u * 100 <= risked * q[2]
           /\ (q[1] + q[2]) * u * 100 > risked * q[2]
           /\ ~sizer.roundDown => q[1] * u * 100 = risked * q[2]
<1>. DEFINE a == context.equity * sizer.percent
            d == 100 * u
            q == RiskSize(context, u)
<1>1. a \in Nat /\ d \in Nat \ {0} /\ u \in Nat \ {0}
  <2>1. context.equity \in Nat /\ sizer.percent \in 0..100
    BY DEF SizingContext, Sizer
  <2>2. QED
    BY <2>1
<1>2. q = IF sizer.roundDown THEN <<a \div d, 1>> ELSE <<a, d>>
  BY DEF RiskSize, RoundedDown
<1>3. d = 100 * u
  OBVIOUS
<1>4. CASE sizer.roundDown
  <2>1. q[1] = a \div d /\ q[2] = 1
    BY <1>2, <1>4
  <2>. HIDE DEF a, d, q
  <2>2. q[1] \in Nat /\ q[1] * d <= a /\ a < q[1] * d + d
    BY <1>1, <2>1, Quotient
  <2>3. q[1] * u * 100 = q[1] * d /\ (q[1] + 1) * u * 100 = (q[1] + 1) * d
    BY <1>1, <1>3, <2>2, TimesHundred
  <2>4. (q[1] + 1) * d = q[1] * d + d
    BY <1>1, <2>2
  <2>5. a * q[2] = a
    BY <1>1, <2>1
  <2>6. QED
    BY <1>1, <1>4, <2>1, <2>2, <2>3, <2>4, <2>5 DEF a, q
<1>5. CASE ~sizer.roundDown
  <2>1. q[1] = a /\ q[2] = d
    BY <1>2, <1>5
  <2>. HIDE DEF a, d, q
  <2>2. a * u * 100 = a * d /\ (a + d) * u * 100 = (a + d) * d
    BY <1>1, <1>3, TimesHundred
  <2>3. (a + d) * d = a * d + d * d /\ d * d > 0 /\ a * d \in Nat /\ d * d \in Nat
    BY <1>1
  <2>4. QED
    BY <1>5, <2>1, <2>2, <2>3 DEF a, q
<1>6. QED
  BY <1>4, <1>5

LEMMA ProductsGrow ==
    ASSUME NEW a \in Nat, NEW s \in Nat, NEW t \in Nat, s <= t
    PROVE  a * s <= a * t
<1>1. PICK r \in Nat : t = s + r
  <2>1. t - s \in Nat /\ t = s + (t - s)
    OBVIOUS
  <2>2. QED
    BY <2>1
<1>2. a * t = a * s + a * r /\ a * r \in Nat /\ a * s \in Nat
  BY <1>1
<1>3. QED
  BY <1>2

(* A Kelly sizer takes what the equity buys at most, and takes of a        *)
(* winning bet only.                                                       *)
LEMMA KellyKeeps ==
    ASSUME NEW context \in SizingContext, sizer \in Sizer, context.payoff # Missing
    PROVE  LET q == KellySize(context) IN
           /\ q[1] * context.price <= context.equity * q[2]
           /\ q[1] > 0 => context.winRate * context.payoff > 100 - context.winRate
<1>. DEFINE e == context.equity
            p == context.price
            w == context.winRate
            b == context.payoff
            bet == KellyPercent(context)
            share == bet * sizer.fraction
            most == 100 * sizer.percent * b
            s == KellyShare(context)
            q == KellySize(context)
<1>1. /\ e \in Nat /\ p \in Nat \ {0} /\ w \in 0..100 /\ b \in Nat \ {0}
      /\ sizer.fraction \in 0..100 /\ sizer.percent \in 0..100
  BY DEF SizingContext, Sizer, Missing
<1>2. bet = w * b - (100 - w) /\ bet \in Int
  <2>1. bet = w * b - (100 - w)
    BY DEF KellyPercent
  <2>. HIDE DEF bet, w, b
  <2>2. QED
    BY <1>1, <2>1
<1>3. s = IF share < 0 THEN 0 ELSE IF share > most THEN most ELSE share
  BY DEF KellyShare
<1>4. q[1] = e * s /\ q[2] = 10000 * b * p
  BY <1>1 DEF KellySize
<1>5. /\ share \in Int /\ most \in Nat /\ most <= 10000 * b
      /\ share > 0 => bet > 0
  <2>. DEFINE f == sizer.fraction
              c == sizer.percent
  <2>1. f \in 0..100 /\ c \in 0..100
    BY <1>1
  <2>2. share = bet * f /\ most = 100 * c * b
    OBVIOUS
  <2>. HIDE DEF f, c, bet, b, share, most
  <2>3. share \in Int /\ most \in Nat
    BY <1>1, <1>2, <2>1, <2>2
  <2>4. most <= 10000 * b
    <3>1. b * (100 * c) <= b * 10000
      <4>1. b \in Nat /\ 100 * c \in Nat /\ 10000 \in Nat /\ 100 * c <= 10000
        BY <1>1, <2>1
      <4>2. QED
        BY <4>1, ProductsGrow
    <3>2. b * (100 * c) = 100 * c * b /\ b * 10000 = 10000 * b
      BY <1>1, <2>1
    <3>3. QED
      BY <2>2, <3>1, <3>2
  <2>5. share > 0 => bet > 0
    <3>1. ASSUME ~(bet > 0) PROVE ~(bet * f > 0)
      <4>1. 0 - bet \in Nat /\ f \in Nat
        BY <1>2, <2>1, <3>1
      <4>2. (0 - bet) * f \in Nat /\ bet * f = 0 - (0 - bet) * f
        BY <1>2, <4>1
      <4>3. QED
        BY <4>2
    <3>2. QED
      BY <2>2, <3>1
  <2>6. QED
    BY <2>3, <2>4, <2>5
<1>. HIDE DEF share, most, bet
<1>6. s \in Nat /\ s <= 10000 * b /\ (s > 0 => bet > 0)
  <2>. HIDE DEF s, b
  <2>1. QED
    BY <1>1, <1>3, <1>5
<1>. HIDE DEF s, q, e, p, b, w
<1>7. q[1] * p <= e * q[2]
  <2>1. (e * p) * s <= (e * p) * (10000 * b)
    <3>1. e * p \in Nat /\ 10000 * b \in Nat
      BY <1>1
    <3>2. QED
      BY <1>6, <3>1, ProductsGrow
  <2>2. (e * s) * p = (e * p) * s /\ e * (10000 * b * p) = (e * p) * (10000 * b)
    BY <1>1, <1>6
  <2>3. QED
    BY <1>4, <2>1, <2>2
<1>8. q[1] > 0 => w * b > 100 - w
  <2>1. s = 0 => e * s = 0
    BY <1>1
  <2>2. q[1] > 0 => bet > 0
    BY <1>4, <1>6, <2>1
  <2>3. bet > 0 => w * b > 100 - w
    <3>1. w * b \in Int /\ 100 - w \in Int
      BY <1>1
    <3>2. QED
      BY <1>2, <3>1
  <2>4. QED
    BY <2>2, <2>3
<1>9. QED
  BY <1>7, <1>8 DEF q, e, p, w, b

LEMMA RiskKept ==
    ASSUME sizer \in Sizer
    PROVE  RiskIsKept(SizingContexts)
<1>1. SUFFICES ASSUME NEW context \in SizingContexts
               PROVE  LET q == Size(context)
                          perUnit == IF sizer.method = "atr" THEN context.atr * sizer.multiple
                                     ELSE Distance(context.price, context.stop) IN
                      /\ sizer.method \in {"fixed_risk_percent", "atr"} /\ q # Raised /\ perUnit > 0 =>
                             /\ q[1] * perUnit * 100 <= context.equity * sizer.percent * q[2]
                             /\ (q[1] + q[2]) * perUnit * 100 > context.equity * sizer.percent * q[2]
                             /\ ~sizer.roundDown =>
                                    q[1] * perUnit * 100 = context.equity * sizer.percent * q[2]
                      /\ sizer.method = "kelly" /\ q # Raised =>
                             /\ q[1] * context.price <= context.equity * q[2]
                             /\ q[1] > 0 => context.winRate * context.payoff > 100 - context.winRate
  BY DEF RiskIsKept
<1>. DEFINE q == Size(context)
            perUnit == IF sizer.method = "atr" THEN context.atr * sizer.multiple
                       ELSE Distance(context.price, context.stop)
<1>2. context \in SizingContext
  BY ReplayInstance
<1>3. perUnit \in Nat
  <2>1. context.atr \in Nat /\ sizer.multiple \in Nat /\ context.price \in Nat /\ context.stop \in Nat
    BY <1>2 DEF SizingContext, Sizer
  <2>2. context.atr * sizer.multiple \in Nat /\ Distance(context.price, context.stop) \in Nat
    BY <2>1 DEF Distance
  <2>3. QED
    BY <2>2
<1>4. ASSUME sizer.method \in {"fixed_risk_percent", "atr"}, q # Raised, perUnit > 0
      PROVE  /\ q[1] * perUnit * 100 <= context.equity * sizer.percent * q[2]
             /\ (q[1] + q[2]) * perUnit * 100 > context.equity * sizer.percent * q[2]
             /\ ~sizer.roundDown => q[1] * perUnit * 100 = context.equity * sizer.percent * q[2]
  <2>1. q = RiskSize(context, perUnit)
    BY <1>4 DEF Size, FixedRiskSize, AtrSize, RiskToStop
  <2>. HIDE DEF q, perUnit
  <2>2. QED
    BY <1>2, <1>3, <1>4, <2>1, RiskSizeKeeps
<1>5. ASSUME sizer.method = "kelly", q # Raised
      PROVE  /\ q[1] * context.price <= context.equity * q[2]
             /\ q[1] > 0 => context.winRate * context.payoff > 100 - context.winRate
  <2>1. q = KellySize(context) /\ context.payoff # Missing
    BY <1>5 DEF Size, KellySize
  <2>. HIDE DEF q
  <2>2. QED
    BY <1>2, <2>1, KellyKeeps
<1>6. QED
  BY <1>4, <1>5

-----------------------------------------------------------------------------
(***************************************************************************)
(* The strategy on the session.                                            *)
(***************************************************************************)

(* A pass over no order, and over one                                      *)
LEMMA NobodysTurn ==
    ASSUME NEW pass, NEW quote, NEW before
    PROVE  InTurn(pass, quote, {}, before) = before
<1>. DEFINE t == Walk(pass, quote, {}, before)
            S == {i \in 0..MaxOrders : t[i] = before}
<1>1. t[0] = before /\ \A i \in 1..MaxOrders : t[i] = t[i - 1]
  BY WalkUnfold
<1>2. MaxOrders \in Nat
  BY PaperConstants
<1>. HIDE DEF t
<1>3. \A i \in 0..(MaxOrders - 1) : i + 1 \in 1..MaxOrders /\ (i + 1) - 1 = i
  BY <1>2
<1>4. 0 \in S /\ \A i \in 0..(MaxOrders - 1) : i \in S => i + 1 \in S
  <2>1. 0 \in S
    BY <1>1, <1>2
  <2>2. ASSUME NEW i \in 0..(MaxOrders - 1), i \in S PROVE i + 1 \in S
    <3>1. t[i + 1] = t[i] /\ i + 1 \in 0..MaxOrders
      BY <1>1, <1>2, <1>3
    <3>2. QED
      BY <2>2, <3>1
  <2>3. QED
    BY <2>1, <2>2
<1>5. 0..MaxOrders \subseteq S
  <2>. HIDE DEF S
  <2>1. QED
    BY <1>2, <1>4, UpTo
<1>6. QED
  BY <1>2, <1>5 DEF InTurn, t

LEMMA OnesTurn ==
    ASSUME NEW pass, NEW quote, NEW before, NEW o \in OrderIds
    PROVE  InTurn(pass, quote, {o}, before) = Turn(pass, quote, before, o)
<1>. DEFINE t == Walk(pass, quote, {o}, before)
            after == Turn(pass, quote, before, o)
            S == {i \in 0..MaxOrders : t[i] = IF i < o THEN before ELSE after}
<1>1. t[0] = before /\ \A i \in 1..MaxOrders :
          t[i] = IF i = o THEN Turn(pass, quote, t[i - 1], i) ELSE t[i - 1]
  BY WalkUnfold
<1>2. MaxOrders \in Nat /\ o \in 1..MaxOrders
  BY PaperConstants DEF OrderIds
<1>3. Turn(pass, quote, before, o) = after
  OBVIOUS
<1>. HIDE DEF t, after
<1>4. 0 \in S /\ \A i \in 0..(MaxOrders - 1) : i \in S => i + 1 \in S
  <2>1. 0 \in S
    BY <1>1, <1>2
  <2>2. ASSUME NEW i \in 0..(MaxOrders - 1), i \in S PROVE i + 1 \in S
    <3>1. i + 1 \in 1..MaxOrders /\ i + 1 \in 0..MaxOrders /\ (i + 1) - 1 = i
      BY <1>2
    <3>2. t[i + 1] = IF i + 1 = o THEN Turn(pass, quote, t[i], i + 1) ELSE t[i]
      BY <1>1, <3>1
    <3>3. t[i] = IF i < o THEN before ELSE after
      BY <2>2
    <3>4. CASE i + 1 = o
      <4>1. i < o /\ ~(i + 1 < o)
        BY <1>2, <3>4
      <4>2. t[i + 1] = after
        BY <1>3, <3>2, <3>3, <3>4, <4>1
      <4>3. QED
        BY <3>1, <4>1, <4>2
    <3>5. CASE i + 1 # o
      <4>1. i < o <=> i + 1 < o
        BY <1>2, <3>5
      <4>2. QED
        BY <3>1, <3>2, <3>3, <3>5, <4>1
    <3>6. QED
      BY <3>4, <3>5
  <2>3. QED
    BY <2>1, <2>2
<1>5. 0..MaxOrders \subseteq S
  <2>. HIDE DEF S
  <2>1. QED
    BY <1>2, <1>4, UpTo
<1>6. t[MaxOrders] = after
  <2>1. MaxOrders \in S /\ ~(MaxOrders < o)
    BY <1>2, <1>5
  <2>2. QED
    BY <2>1
<1>7. QED
  BY <1>6 DEF InTurn, t, after

(* What an order that is filled, or cannot be paid for, does to the        *)
(* position                                                                *)
LEMMA SettledPosition ==
    ASSUME NEW before, before.portfolio \in Ledger, NEW o, before.order[o] \in Order,
           NEW ref \in Prices
    PROVE  LET pf  == before.portfolio
               ord == before.order[o]
               qty == Settle(before, o, ref).portfolio.qty IN
           /\ ord.side = "sell" => qty \in {0, pf.qty}
           /\ ord.side = "buy" => qty \in {pf.qty, pf.qty + ord.qty}
<1>. DEFINE pf == before.portfolio
            ord == before.order[o]
            done == Executed(ord, ref)
            released == IF done.side = "buy" THEN Release(pf, done.reserved) ELSE pf
<1>1. ref > 0
  BY PaperConstants
<1>2. done.side = ord.side /\ done.fill.qty = ord.qty
  BY <1>1 DEF Executed, Complete, Submit, Order
<1>3. Settle(before, o, ref).portfolio = LedgerAfter(pf, done)
  BY DEF Settle
<1>. HIDE DEF pf, ord, done
<1>4. released.qty = pf.qty /\ "qty" \in DOMAIN released
  BY DEF Release, Ledger, pf
<1>5. CASE ~HasFill(done) \/ Unaffordable(pf, done)
  BY <1>3, <1>4, <1>5 DEF LedgerAfter, pf, ord
<1>6. CASE ~(~HasFill(done) \/ Unaffordable(pf, done)) /\ done.side = "buy"
  <2>1. LedgerAfter(pf, done) =
            OpenLong([released EXCEPT !.cash = @ - TotalCost(done.fill)], done.fill)
    BY <1>6 DEF LedgerAfter
  <2>. HIDE DEF released
  <2>2. LedgerAfter(pf, done).qty = pf.qty + ord.qty
    BY <1>2, <1>4, <2>1 DEF OpenLong
  <2>3. QED
    BY <1>2, <1>3, <1>6, <2>2 DEF pf, ord
<1>7. CASE ~(~HasFill(done) \/ Unaffordable(pf, done)) /\ done.side # "buy"
  <2>1. LedgerAfter(pf, done) =
            ClosePosition([released EXCEPT !.cash = @ + Proceeds(done.fill)], done.fill)
    BY <1>7 DEF LedgerAfter
  <2>. HIDE DEF released
  <2>2. LedgerAfter(pf, done).qty \in {0, pf.qty}
    BY <1>4, <2>1 DEF ClosePosition, IsOpen
  <2>3. QED
    BY <1>2, <1>3, <1>7, <2>2 DEF pf, ord
<1>8. QED
  BY <1>5, <1>6, <1>7

(* The quantity a bridge may hold or buy                                   *)
Sized == IF sizer.method = "fixed_quantity" THEN sizer.quantity ELSE 0

(* The bridge places market orders alone; while its calls do not overlap,  *)
(* one of them at most is under way, and none waits when a strategy is     *)
(* asked.                                                                  *)
OnBridge ==
    /\ book = {}
    /\ OnePosition
    /\ ~overlaps =>
           /\ \A c, d \in Callers : bridging[c] # "idle" /\ bridging[d] # "idle" => c = d
           /\ \A c \in Callers : bridging[c] = "feeding" => Open = {}
           /\ \A o \in Open : order[o].side = "buy" => order[o].qty <= Sized

LEMMA SizedIs ==
    ASSUME sizer \in Sizers
    PROVE  sizer \in Sizer /\ sizer.quantity \in Nat /\ Sized \in Nat
<1>1. sizer \in Sizer
  BY ReplayInstance DEF BridgeConstants
<1>2. QED
  BY <1>1 DEF Sizer, Sized

(* Only a sizer of whole quantities sizes what the bridge tells it.        *)
LEMMA WholeSize ==
    ASSUME NEW c \in Callers, NEW signal, Entering(c, signal)
    PROVE  Size(Context(c))[1] = sizer.quantity /\ Sized = sizer.quantity
<1>. DEFINE context == Context(c)
<1>1. /\ context.stop = Missing /\ context.atr = Missing /\ context.payoff = Missing
      /\ Size(context) # Raised
  BY DEF Context, Entering
<1>. HIDE DEF context
<1>2. sizer.method = "fixed_quantity"
  BY <1>1 DEF Size, FixedRiskSize, AtrSize, KellySize
<1>3. Size(context) = <<sizer.quantity, 1>>
  BY <1>2 DEF Size
<1>4. QED
  BY <1>2, <1>3 DEF Sized, context

LEMMA BridgesTyped ==
    ASSUME BridgeTypeOK, NEW c \in Callers, NEW phase \in {"idle", "feeding", "placing"},
           NEW price \in Nat, Bridges(c, phase, price)
    PROVE  /\ BridgeTypeOK'
           /\ sizer' = sizer /\ Sized' = Sized /\ (overlaps => overlaps') /\ bridging'[c] = phase
           /\ \A d \in Callers \ {c} : bridging'[d] = bridging[d]
           /\ phase # "idle" /\ ~overlaps' => \A d \in Callers \ {c} : bridging[d] = "idle"
BY DEF BridgeTypeOK, Bridges, Sized

(* A call of the bridge ends and the venue stays.                          *)
LEMMA BridgeRests ==
    ASSUME BridgeTypeOK, OnBridge, NEW c \in Callers, Bridges(c, "idle", 0), UNCHANGED vars
    PROVE  BridgeTypeOK' /\ OnBridge'
<1>1. /\ BridgeTypeOK' /\ sizer' = sizer /\ Sized' = Sized /\ (overlaps => overlaps')
      /\ bridging'[c] = "idle" /\ \A d \in Callers \ {c} : bridging'[d] = bridging[d]
  <2>1. "idle" \in {"idle", "feeding", "placing"} /\ 0 \in Nat
    OBVIOUS
  <2>2. QED
    BY <2>1, BridgesTyped
<1>2. book' = book /\ Open' = Open /\ order' = order /\ portfolio' = portfolio
  BY DEF vars, venueVars, Open
<1>3. OnePosition'
  BY <1>1, <1>2 DEF OnBridge, OnePosition
<1>4. \A d \in Callers : bridging'[d] # "idle" => bridging[d] = bridging'[d]
  BY <1>1
<1>5. QED
  BY <1>1, <1>2, <1>3, <1>4 DEF OnBridge

(* Market data comes first.                                                *)
LEMMA BridgeFeeds ==
    ASSUME PaperInductive, BridgeTypeOK, OnBridge, NEW c \in Callers, bridging[c] = "idle",
           NEW quote \in Quote, OnMarketData(quote), Bridges(c, "feeding", quote.price)
    PROVE  BridgeTypeOK' /\ OnBridge'
<1>1. quote.price \in Nat /\ quote.price \in Prices
  BY PaperConstants DEF Quote
<1>2. /\ BridgeTypeOK' /\ sizer' = sizer /\ Sized' = Sized /\ (overlaps => overlaps')
      /\ bridging'[c] = "feeding" /\ \A d \in Callers \ {c} : bridging'[d] = bridging[d]
      /\ ~overlaps' => \A d \in Callers \ {c} : bridging[d] = "idle"
  <2>1. "feeding" \in {"idle", "feeding", "placing"} /\ "feeding" # "idle"
    OBVIOUS
  <2>2. QED
    BY <1>1, <2>1, BridgesTyped
<1>3. Triggered(quote) = {} /\ book = {} /\ Immediate({}) = {} /\ Open = queue
  BY DEF OnBridge, Triggered, Immediate, Open
<1>4. book' = {} /\ queue' = {} /\ Open' = {}
  BY <1>3 DEF OnMarketData, Open
<1>5. portfolio' = InTurn("market", quote, queue, Now).portfolio
  <2>. DEFINE filled == InTurn("market", quote, queue, Now)
  <2>1. Become(InTurn("withdraw", quote, Immediate(book \ Triggered(quote)),
                      InTurn("trigger", quote, Triggered(quote), filled)))
    BY DEF OnMarketData
  <2>2. book \ Triggered(quote) = {}
    BY <1>3
  <2>. HIDE DEF filled
  <2>3. InTurn("trigger", quote, Triggered(quote), filled) = filled
    BY <1>3, NobodysTurn
  <2>4. InTurn("withdraw", quote, Immediate(book \ Triggered(quote)), filled) = filled
    BY <1>3, <2>2, NobodysTurn
  <2>5. QED
    BY <2>1, <2>3, <2>4 DEF Become, filled
<1>6. ASSUME ~overlaps PROVE portfolio'.qty <= Sized
  <2>1. portfolio.qty <= Sized /\ portfolio.qty \in Nat /\ Sized \in Nat /\ portfolio \in Ledger
    BY <1>6, SizedIs DEF OnBridge, OnePosition, Sized, PaperInductive, TypeOK, Ledger, BridgeTypeOK
  <2>2. CASE queue = {}
    BY <1>5, <2>1, <2>2, NobodysTurn DEF Now
  <2>3. CASE queue # {}
    <3>1. PICK o : o \in queue
      BY <2>3
    <3>2. queue = {o}
      BY <1>3, <1>6, <3>1 DEF OnBridge, OnePosition
    <3>3. o \in OrderIds /\ order[o] \in Order /\ order[o].qty \in Nat /\ order[o].side \in OrderSide
      BY <3>1 DEF PaperInductive, TypeOK, Order
    <3>4. portfolio' = Settle(Now, o, quote.price).portfolio
      BY <1>5, <3>2, <3>3, OnesTurn DEF Turn
    <3>5. /\ order[o].side = "sell" => portfolio'.qty \in {0, portfolio.qty}
          /\ order[o].side = "buy" => portfolio'.qty \in {portfolio.qty, portfolio.qty + order[o].qty}
      <4>1. Now.order = order /\ Now.portfolio = portfolio
        BY DEF Now
      <4>2. QED
        BY <1>1, <2>1, <3>3, <3>4, <4>1, SettledPosition
    <3>6. CASE order[o].side = "sell"
      BY <2>1, <3>5, <3>6
    <3>7. CASE order[o].side = "buy"
      <4>1. portfolio.qty = 0
        BY <1>3, <1>6, <2>1, <3>1, <3>7 DEF OnBridge, OnePosition, IsOpen
      <4>2. order[o].qty <= Sized
        BY <1>3, <1>6, <3>1, <3>7 DEF OnBridge
      <4>3. QED
        BY <2>1, <3>3, <3>5, <3>7, <4>1, <4>2
    <3>8. QED
      BY <3>3, <3>6, <3>7 DEF OrderSide
  <2>4. QED
    BY <2>2, <2>3
<1>7. OnePosition'
  BY <1>2, <1>4, <1>6 DEF OnePosition, Sized
<1>8. ~overlaps' => \A d, f \in Callers : bridging'[d] # "idle" /\ bridging'[f] # "idle" => d = f
  BY <1>2
<1>9. QED
  BY <1>2, <1>4, <1>7, <1>8 DEF OnBridge

(* The order of a signal.                                                  *)
LEMMA BridgePlaces ==
    ASSUME PaperInductive, BridgeTypeOK, OnBridge, NEW c \in Callers, bridging[c] = "feeding",
           NEW side \in OrderSide, NEW qty \in Nat, qty > 0, SubmitOrder(side, qty, NoTicket),
           Bridges(c, "placing", quoted[c]),
           IF side = "sell" THEN qty = portfolio.qty ELSE ~IsOpen(portfolio) /\ qty <= Sized
    PROVE  BridgeTypeOK' /\ OnBridge'
<1>. DEFINE n == nextId + 1
            ord == NewOrder(side, CHOOSE s \in Symbols : TRUE, qty, ReferenceEstimate(NoTicket))
            placed == [ord EXCEPT !.reserved = Reservation(ord)]
<1>1. quoted[c] \in Nat
  BY DEF BridgeTypeOK
<1>2. /\ BridgeTypeOK' /\ sizer' = sizer /\ Sized' = Sized /\ (overlaps => overlaps')
      /\ bridging'[c] = "placing" /\ \A d \in Callers \ {c} : bridging'[d] = bridging[d]
      /\ ~overlaps' => \A d \in Callers \ {c} : bridging[d] = "idle"
  <2>1. "placing" \in {"idle", "feeding", "placing"} /\ "placing" # "idle"
    OBVIOUS
  <2>2. QED
    BY <1>1, <2>1, BridgesTyped
<1>3. ~IsResting(NoTicket)
  BY DEF IsResting, NoTicket
<1>4. Accept(n, ord, NoTicket)
  <2>1. qty # 0
    OBVIOUS
  <2>2. QED
    BY <1>3, <2>1 DEF SubmitOrder
<1>5. n \in OrderIds
  BY NewIdIsFree DEF SubmitOrder
<1>6. /\ order' = [order EXCEPT ![n] = placed] /\ portfolio' = Reserve(portfolio, placed.reserved)
      /\ queue' = queue \cup {n} /\ book' = book
  BY <1>3, <1>4 DEF Accept
<1>7. placed.qty = qty /\ placed.side = side
  BY DEF NewOrder
<1>. HIDE DEF placed, n, ord
<1>8. order'[n].qty = qty /\ order'[n].side = side
  BY <1>5, <1>6, <1>7 DEF PaperInductive, TypeOK
<1>9. portfolio'.qty = portfolio.qty
  BY <1>6 DEF Reserve, PaperInductive, TypeOK, Ledger
<1>10. book' = {}
  BY <1>6 DEF OnBridge
<1>11. ~overlaps => Open' = {n}
  BY <1>6, <1>10 DEF OnBridge, Open
<1>12. OnePosition'
  BY <1>2, <1>8, <1>9, <1>11 DEF OnePosition, OnBridge, IsOpen
<1>13. ~overlaps' => \A d, f \in Callers : bridging'[d] # "idle" /\ bridging'[f] # "idle" => d = f
  BY <1>2
<1>14. ~overlaps' => \A d \in Callers : bridging'[d] # "feeding"
  BY <1>2
<1>15. ~overlaps' => \A o \in Open' : order'[o].side = "buy" => order'[o].qty <= Sized'
  BY <1>2, <1>8, <1>11
<1>16. QED
  BY <1>2, <1>10, <1>12, <1>13, <1>14, <1>15 DEF OnBridge

(* Every step of a strategy's calls.                                       *)
LEMMA BridgeKeeps ==
    ASSUME PaperInductive, SessionSafe, BridgeTypeOK, OnBridge, BridgeNext
    PROVE  PaperInductive' /\ SessionSafe' /\ BridgeTypeOK' /\ OnBridge'
<1>1. PICK c \in Callers :
          OnMarket(c) \/ HandlersReturn(c) \/ BridgeRaises(c) \/ Decide(c) \/ BridgeReturns(c)
  BY DEF BridgeNext
<1>2. state \in {"created", "running", "stopped"} /\ attached \in BOOLEAN
  BY DEF SessionSafe
<1>3. CASE OnMarket(c)
  <2>1. PICK quote \in Quote : OnMarketData(quote) /\ Bridges(c, "feeding", quote.price)
    BY <1>3 DEF OnMarket
  <2>2. PaperInductive' /\ CallTells
    BY <2>1, UpdateKeeps, UpdateTells
  <2>3. SessionSafe'
    BY <1>3, <2>2, CallIsHeard DEF OnMarket
  <2>4. BridgeTypeOK' /\ OnBridge'
    BY <1>3, <2>1, BridgeFeeds DEF OnMarket
  <2>5. QED
    BY <2>2, <2>3, <2>4
<1>4. CASE HandlersReturn(c)
  <2>1. GoOn(c) /\ UNCHANGED bridgeVars /\ UNCHANGED vars
    BY <1>4 DEF HandlersReturn, GoOn
  <2>2. BridgeTypeOK' /\ OnBridge'
    BY <2>1 DEF bridgeVars, vars, venueVars, BridgeTypeOK, OnBridge, OnePosition, Open, Sized
  <2>3. QED
    BY <2>1, <2>2, GoOnKeeps
<1>5. CASE BridgeRaises(c)
  <2>1. HandlerRaises(c) /\ Bridges(c, "idle", 0) /\ UNCHANGED vars
    BY <1>5 DEF BridgeRaises, HandlerRaises
  <2>2. QED
    BY <2>1, RaisesKeeps, BridgeRests
<1>6. CASE BridgeReturns(c)
  <2>1. UNCHANGED allVars /\ Bridges(c, "idle", 0)
    BY <1>6 DEF BridgeReturns
  <2>2. UNCHANGED vars
    BY <2>1 DEF allVars
  <2>3. PaperInductive' /\ SessionSafe'
    BY <1>2, <2>1, QuietKeeps DEF allVars, sessionVars
  <2>4. QED
    BY <2>1, <2>2, <2>3, BridgeRests
<1>7. CASE Decide(c)
  <2>1. bridging[c] = "feeding" /\ Free(c) /\ UNCHANGED <<state, attached, lost>>
    BY <1>7 DEF Decide
  <2>2. PICK signal \in {"buy", "sell", "exit", "hold"} :
            \/ /\ Entering(c, signal) /\ SubmitOrder("buy", Size(Context(c))[1], NoTicket)
               /\ Tell(c, report') /\ Bridges(c, "placing", quoted[c])
            \/ /\ Exiting(signal) /\ SubmitOrder("sell", portfolio.qty, NoTicket)
               /\ Tell(c, report') /\ Bridges(c, "placing", quoted[c])
            \/ /\ ~Entering(c, signal) /\ ~Exiting(signal) /\ Bridges(c, "idle", 0)
               /\ UNCHANGED <<vars, outbox, suspended, heard, mirror>>
    BY <1>7 DEF Decide
  <2>3. ASSUME NEW side \in OrderSide, NEW qty \in Nat, SubmitOrder(side, qty, NoTicket),
               Tell(c, report')
        PROVE  PaperInductive' /\ SessionSafe'
    <3>1. NoTicket \in Tickets
      BY DEF NoTicket, Tickets
    <3>2. PaperInductive' /\ CallTells
      BY <2>3, <3>1, SubmitKeeps, SubmitTells
    <3>3. QED
      BY <2>1, <2>3, <3>2, CallIsHeard
  <2>4. CASE /\ Entering(c, signal) /\ SubmitOrder("buy", Size(Context(c))[1], NoTicket)
             /\ Tell(c, report') /\ Bridges(c, "placing", quoted[c])
    <3>1. Size(Context(c))[1] = sizer.quantity /\ Sized = sizer.quantity /\ sizer.quantity \in Nat
      BY <2>4, WholeSize, SizedIs DEF BridgeTypeOK
    <3>2. sizer.quantity > 0 /\ ~IsOpen(portfolio)
      BY <2>4, <3>1 DEF Entering, MayEnter
    <3>3. "buy" \in OrderSide /\ SubmitOrder("buy", sizer.quantity, NoTicket) /\ "buy" # "sell"
          /\ sizer.quantity <= Sized
      BY <2>4, <3>1 DEF OrderSide
    <3>4. QED
      BY <2>1, <2>3, <2>4, <3>1, <3>2, <3>3, BridgePlaces
  <2>5. CASE /\ Exiting(signal) /\ SubmitOrder("sell", portfolio.qty, NoTicket)
             /\ Tell(c, report') /\ Bridges(c, "placing", quoted[c])
    <3>1. portfolio.qty \in Nat /\ portfolio.qty > 0 /\ "sell" \in OrderSide
      BY <2>5 DEF Exiting, IsOpen, PaperInductive, TypeOK, Ledger, OrderSide
    <3>2. QED
      BY <2>1, <2>3, <2>5, <3>1, BridgePlaces
  <2>6. CASE /\ Bridges(c, "idle", 0) /\ UNCHANGED <<vars, outbox, suspended, heard, mirror>>
    <3>1. PaperInductive' /\ SessionSafe'
      BY <1>2, <2>1, <2>6, QuietKeeps
    <3>2. QED
      BY <2>6, <3>1, BridgeRests
  <2>7. QED
    BY <2>2, <2>4, <2>5, <2>6
<1>8. QED
  BY <1>1, <1>3, <1>4, <1>5, <1>6, <1>7

(* The session, with or without a strategy on it                           *)
TradingSafe ==
    PaperInductive /\ SessionSafe /\ BridgeTypeOK /\ (part = "bridge" => OnBridge)

LEMMA TradingStarts == MCInit => TradingSafe
<1>1. SUFFICES ASSUME MCInit PROVE TradingSafe
  OBVIOUS
<1>2. PaperInductive /\ SessionSafe /\ BridgeTypeOK
  BY <1>1, SessionStarts DEF MCInit, BridgeInit, BridgeTypeOK
<1>3. OnBridge
  <2>1. /\ book = {} /\ Open = {} /\ portfolio.qty = 0 /\ bridging = [c \in Callers |-> "idle"]
    BY <1>1 DEF MCInit, BridgeInit, SessionInit, Init, Open, NewLedger
  <2>2. Sized \in Nat
    BY <1>2, SizedIs DEF BridgeTypeOK
  <2>3. QED
    BY <2>1, <2>2 DEF OnBridge, OnePosition, Sized
<1>4. QED
  BY <1>2, <1>3 DEF TradingSafe

LEMMA TradingKeeps == TradingSafe /\ [MCNext]_mcVars => TradingSafe'
<1>1. SUFFICES ASSUME TradingSafe, [MCNext]_mcVars PROVE TradingSafe'
  OBVIOUS
<1>2. PaperInductive /\ SessionSafe /\ BridgeTypeOK /\ (part = "bridge" => OnBridge)
  BY <1>1 DEF TradingSafe
<1>3. CASE UNCHANGED <<part, allVars, bridgeVars>>
  <2>1. PaperInductive' /\ SessionSafe'
    BY <1>2, <1>3, QuietKeeps DEF allVars, sessionVars, SessionSafe
  <2>2. BridgeTypeOK' /\ (part' = "bridge" => OnBridge')
    BY <1>2, <1>3 DEF allVars, bridgeVars, vars, venueVars, BridgeTypeOK, OnBridge, OnePosition, Open, Sized
  <2>3. QED
    BY <2>1, <2>2 DEF TradingSafe
<1>4. CASE part = "session" /\ SessionNext /\ UNCHANGED <<part, bridgeVars>>
  <2>1. PaperInductive' /\ SessionSafe'
    BY <1>2, <1>4, SessionKeeps
  <2>2. BridgeTypeOK' /\ part' # "bridge"
    BY <1>2, <1>4 DEF bridgeVars, BridgeTypeOK
  <2>3. QED
    BY <2>1, <2>2 DEF TradingSafe
<1>5. CASE part = "bridge" /\ BridgeNext
  BY <1>2, <1>5, BridgeKeeps DEF TradingSafe
<1>6. QED
  BY <1>1, <1>3, <1>4, <1>5
     DEF MCNext, ControllerStep, SchedulerStep, ClockStep, SessionStep, BridgeStep, mcVars

-----------------------------------------------------------------------------
(***************************************************************************)
(* The theorems.                                                           *)
(***************************************************************************)

(* The clock, the scheduler and the controller keep their invariants, each *)
(* on its own: no step of one touches what another keeps.                  *)
THEOREM ReplayInvariant == MCSpec => [](PlayerSafe /\ SchedulerSafe /\ ClockSafe)
<1>1. MCInit => PlayerSafe /\ SchedulerSafe /\ ClockSafe
  BY PlayerStarts, SchedulerStarts, ClockStarts DEF MCInit
<1>2. (PlayerSafe /\ SchedulerSafe /\ ClockSafe) /\ [MCNext]_mcVars
          => (PlayerSafe /\ SchedulerSafe /\ ClockSafe)'
  <2>1. [MCNext]_mcVars =>
            /\ [Player!Next]_playerVars /\ [Scheduler!Next]_schedulerVars /\ [Clock!Next]_clockVars
    BY DEF MCNext, ControllerStep, SchedulerStep, ClockStep, SessionStep, BridgeStep, mcVars
  <2> QED BY <2>1, PlayerNext, SchedulerNext, ClockNext
<1> QED
  <2>. HIDE DEF PlayerSafe, SchedulerSafe, ClockSafe
  <2> QED BY <1>1, <1>2, PTL DEF MCSpec

(* A replay plays its data in order, once and without a gap, the scheduler *)
(* plays the tape and is quiet once stopped, and the clock shows what was  *)
(* played: whatever the data and their times are, however many tasks       *)
(* control the replay, and wherever a step is suspended                    *)
(* (engines/replay/controller.py, scheduler.py and clock.py).              *)
THEOREM ReplayFaithful == MCSpec => []ReplayIsFaithful
<1>1. PlayerSafe /\ SchedulerSafe /\ ClockSafe => ReplayIsFaithful
  BY PlayerIsFaithful, SchedulerIsFaithful DEF ReplayIsFaithful, ClockSafe
<1> QED BY <1>1, ReplayInvariant, PTL

(* A replay completes at its end only: a step that finds nothing, or the   *)
(* look ahead of a step that was suspended (_complete_if_finished).        *)
THEOREM CompletionIsTheEnd == MCSpec => Player!CompletesAtTheEnd
<1>. DEFINE AtEnd == rState # "completed" /\ rState' = "completed" =>
                        \/ now' >= EndTime
                        \/ \E k \in Player!Kind : buffer'[k] = 0 /\ iter'[k] = Len(Player!Time(k))
<1>1. PlayerSafe /\ [MCNext]_mcVars => [AtEnd]_playerVars
  <2> SUFFICES ASSUME PlayerSafe, [Player!Next]_playerVars, rState # "completed", rState' = "completed"
               PROVE  AtEnd
    BY DEF MCNext, ControllerStep, SchedulerStep, ClockStep, SessionStep, BridgeStep, mcVars
  <2>0. iter \in [Player!Kind -> Int] /\ buffer \in [Player!Kind -> Nat]
    BY DEF PlayerSafe
  <2>1. ASSUME NEW c \in Controllers, NEW k \in Player!Kind, Player!Step(c, k)
        PROVE  AtEnd
    <3>. DEFINE item == IF buffer[k] # 0 THEN buffer[k] ELSE Player!Ahead(k, now)
    <3>1. /\ buffer' = [buffer EXCEPT ![k] = 0]
          /\ iter' = (IF buffer[k] # 0 THEN iter ELSE Player!Advanced(k, item))
          /\ item # 0 => rState' = rState
      BY <2>1 DEF Player!Step
    <3>2. item = 0 /\ buffer[k] = 0
      BY <3>1
    <3>3. iter' = [iter EXCEPT ![k] = Len(Player!Time(k))]
      BY <3>1, <3>2 DEF Player!Advanced
    <3>4. buffer'[k] = 0 /\ iter'[k] = Len(Player!Time(k))
      BY <3>1, <3>3, <2>0
    <3> QED BY <3>4
  <2>2. ASSUME NEW c \in Controllers, Player!LookAhead(c)
        PROVE  AtEnd
    <3>. PICK k \in Player!Kind : k = at[c]
      BY <2>2 DEF Player!LookAhead
    <3>. DEFINE item == IF buffer[k] # 0 THEN buffer[k] ELSE Player!Ahead(k, now)
    <3>1. /\ buffer' = [buffer EXCEPT ![k] = item]
          /\ iter' = (IF buffer[k] # 0 THEN iter ELSE Player!Advanced(k, item))
          /\ ~(item = 0 \/ now >= EndTime) => rState' = rState
          /\ now' = now
      BY <2>2 DEF Player!LookAhead
    <3>2. CASE item = 0
      <4>1. buffer[k] = 0 /\ buffer' = [buffer EXCEPT ![k] = 0]
        BY <3>1, <3>2
      <4>2. iter' = [iter EXCEPT ![k] = Len(Player!Time(k))]
        BY <3>1, <3>2, <4>1 DEF Player!Advanced
      <4>3. buffer'[k] = 0 /\ iter'[k] = Len(Player!Time(k))
        BY <4>1, <4>2, <2>0
      <4> QED BY <4>3
    <3>3. CASE item # 0
      BY <3>1, <3>3
    <3> QED BY <3>2, <3>3
  <2>3. Player!Next \/ UNCHANGED playerVars
    OBVIOUS
  <2>4. ASSUME NEW c \in Controllers, Player!RestartStops(c) \/ Player!RestartGoesOn(c)
                                      \/ Player!HandlerRaises(c)
        PROVE  FALSE
    BY <2>4 DEF Player!RestartStops, Player!RestartGoesOn, Player!HandlerRaises, Player!Begin, Player!session
  <2>5. ~(Player!Start \/ Player!Pause \/ Player!Resume \/ Player!Stop \/ Player!RestartStopped)
        /\ ~(\E time \in Player!SeekTimes : Player!Seek(time))
        /\ ~(\E s \in {1, 2} : Player!ChangeSpeed(s)) /\ ~UNCHANGED playerVars
    BY DEF Player!Start, Player!Pause, Player!Resume, Player!Stop, Player!RestartStopped, Player!Begin,
       Player!Seek, Player!ChangeSpeed, playerVars
  <2>. HIDE DEF AtEnd
  <2> QED BY <2>1, <2>2, <2>3, <2>4, <2>5 DEF Player!Next
<1>2. PlayerSafe /\ [MCNext]_mcVars => [AtEnd]_(Player!vars)
  <2>. HIDE DEF AtEnd
  <2> QED BY <1>1 DEF playerVars, Player!vars, Player!session, Player!history
<1>3. MCSpec => [][AtEnd]_(Player!vars)
  <2>. HIDE DEF AtEnd
  <2> QED BY <1>2, ReplayInvariant, PTL DEF MCSpec
<1> QED
  BY <1>3 DEF Player!CompletesAtTheEnd

(* A step that was suspended does not bring a replay that was stopped      *)
(* meanwhile back to life: only start, resume and restart make it run      *)
(* (ReplayController.step_tick, step_candle).                              *)
THEOREM StopsArePermanent == MCSpec => Player!StepsNeverRevive
<1>. DEFINE Revives == rState # "running" /\ rState' = "running" =>
                          played' = [k \in Player!Kind |-> <<>>] \/ (rState = "paused" /\ now' = now)
<1>1. [MCNext]_mcVars => [Revives]_(Player!vars)
  <2> SUFFICES ASSUME Player!Next, rState # "running", rState' = "running"
               PROVE  Revives
    BY DEF MCNext, ControllerStep, SchedulerStep, ClockStep, SessionStep, BridgeStep, mcVars, playerVars,
           Player!vars, Player!session, Player!history
  <2>1. ASSUME Player!Begin PROVE Revives
    BY <2>1 DEF Player!Begin, Player!Reposition
  <2>2. CASE Player!Resume
    BY <2>2 DEF Player!Resume
  <2>3. CASE Player!Start \/ Player!RestartStopped \/ \E c \in Controllers : Player!RestartGoesOn(c)
    BY <2>1, <2>3 DEF Player!Start, Player!RestartStopped, Player!RestartGoesOn
  <2>4. ASSUME NEW c \in Controllers,
               \/ Player!RestartStops(c) \/ Player!LookAhead(c) \/ Player!HandlerRaises(c)
               \/ \E k \in Player!Kind : Player!Step(c, k)
        PROVE  FALSE
    BY <2>4 DEF Player!RestartStops, Player!LookAhead, Player!HandlerRaises, Player!Step, Player!Complete,
       Player!session
  <2>5. /\ ~Player!Pause /\ ~Player!Stop /\ ~(\E time \in Player!SeekTimes : Player!Seek(time))
        /\ ~(\E s \in {1, 2} : Player!ChangeSpeed(s))
    BY DEF Player!Pause, Player!Stop, Player!Seek, Player!ChangeSpeed
  <2>. HIDE DEF Revives
  <2> QED BY <2>2, <2>3, <2>4, <2>5 DEF Player!Next
<1>2. MCSpec => [][Revives]_(Player!vars)
  <2>. HIDE DEF Revives
  <2> QED BY <1>1, PTL DEF MCSpec
<1> QED
  BY <1>2 DEF Player!StepsNeverRevive

(* The venue's books stay true behind a session, whoever trades on it; what *)
(* is still to be published is of orders that have ended, in the order of  *)
(* their lives; and the calls of a strategy that do not overlap find no    *)
(* order waiting (PaperTradingSession, StrategyPaperBridge).               *)
THEOREM SessionInvariant == MCSpec => []TradingSafe
<1>. HIDE DEF TradingSafe
<1>1. QED
  BY TradingStarts, TradingKeeps, PTL DEF MCSpec

(* Who listens to a session knows its orders, hears of them in order and   *)
(* of their end, however calls and handlers overlap; a strategy has one    *)
(* position, and no sizer risks more than it may (session.py,              *)
(* paper_bridge.py, sizing.py).                                            *)
THEOREM SessionsAreHonest == MCSpec => []SessionIsHonest
<1>1. ASSUME TradingSafe PROVE SessionIsHonest
  <2>1. PaperInductive /\ SessionSafe /\ BridgeTypeOK /\ (part = "bridge" => OnBridge)
    BY <1>1 DEF TradingSafe
  <2>2. HeardInOrder
    BY <2>1 DEF SessionSafe, PublicationKept, HeardKept, HeardInOrder
  <2>3. RiskIsKept(SizingContexts)
    BY <2>1, SizedIs, RiskKept DEF BridgeTypeOK
  <2>4. QED
    BY <2>1, <2>2, <2>3 DEF SessionIsHonest, SessionSafe, OnBridge
<1>2. QED
  <2>. HIDE DEF TradingSafe, SessionIsHonest
  <2>1. QED
    BY <1>1, SessionInvariant, PTL

(* The variables of the five components keep their types.                  *)
THEOREM ReplayTyped == MCSpec => []MCTypeOK
<1>1. ASSUME TradingSafe, PlayerSafe, SchedulerSafe, ClockSafe PROVE MCTypeOK
  <2>1. /\ TypeOK
        /\ state \in {"created", "running", "stopped"} /\ attached \in BOOLEAN
        /\ outbox \in [Callers -> Seq(OrderEvent)]
        /\ suspended \in [Callers -> {NoEvent} \cup Seq(OrderEvent)]
        /\ mirror \in [OrderIds -> OrderStatus \cup {"unknown"}]
        /\ lost \subseteq OrderEvent /\ heard \in [OrderIds -> Seq(Kinds)]
    BY <1>1 DEF TradingSafe, PaperInductive, SessionSafe, PublicationKept, OutboxKept, HeardKept
  <2>2. \A o \in OrderIds : \A i \in DOMAIN heard[o] : heard[o][i] \in {e.kind : e \in OrderEvent}
    <3>1. \A o \in OrderIds : \A i \in DOMAIN heard[o] : heard[o][i] \in Kinds
      BY <2>1
    <3>2. QED
      BY <3>1 DEF Kinds
  <2>3. SessionTypeOK
    BY <2>1, <2>2 DEF SessionTypeOK
  <2>4. Player!TypeOK /\ Scheduler!TypeOK /\ Clock!TypeOK /\ BridgeTypeOK
    BY <1>1 DEF PlayerSafe, SchedulerSafe, ClockSafe, TradingSafe
  <2>5. QED
    BY <2>3, <2>4 DEF MCTypeOK
<1>2. QED
  <2>. HIDE DEF TradingSafe, PlayerSafe, SchedulerSafe, ClockSafe, MCTypeOK
  <2>1. QED
    BY <1>1, SessionInvariant, ReplayInvariant, PTL
=============================================================================

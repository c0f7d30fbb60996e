----------------------------- MODULE BarsProofs -----------------------------
(***************************************************************************)
(* What the run of candles and bricks checks of the Renko engine and of    *)
(* candle aggregation, proved for any prices, sizes, operations and number *)
(* of bricks, and for any callers, ticks and buckets.                      *)
(***************************************************************************)
EXTENDS MCBars, AccountingProofs, FiniteSetTheorems

-----------------------------------------------------------------------------
(***************************************************************************)
(* Whole bricks of a move.                                                 *)
(***************************************************************************)

(* The first two bricks of a move. *)
LEMMA SecondBrick ==
    ASSUME NEW n \in Nat, NEW k \in Nat, NEW i \in (n + 1)..(n + k), i - n = 1, k >= 2
    PROVE  i + 1 \in (n + 1)..(n + k) /\ i < n + k /\ (i + 1) - n - 1 = i - n
OBVIOUS

(* A quotient leaves less than the divisor. *)
LEMMA WholeBricks ==
    ASSUME NEW d \in Nat, NEW s \in Nat \ {0}
    PROVE  d \div s \in Nat /\ (d \div s) * s <= d /\ d < (d \div s) * s + s
OBVIOUS

(* Fewer bricks span less. *)
LEMMA FewerBricks ==
    ASSUME NEW k \in Nat, NEW n \in 0..k, NEW s \in Nat
    PROVE  n * s \in Nat /\ n * s <= k * s
<1>1. k = n + (k - n) /\ k - n \in Nat /\ n \in Nat
  OBVIOUS
<1>2. PICK m \in Nat : k = n + m
  BY <1>1
<1>3. k * s = n * s + m * s /\ m * s \in Nat /\ n * s \in Nat
  BY <1>1, <1>2
<1>4. QED
  BY <1>3

(* Every level of a move lies between the last price and the new one, and  *)
(* the last level is less than a brick from it.                            *)
LEMMA LevelsLieBetween ==
    ASSUME NEW e \in Engine!Engine, e.size > 0, NEW price \in Nat,
           NEW n \in 0..Engine!Steps(e, price)
    PROVE  LET level == Engine!Level(e, Engine!Trend(e, price), n) IN
           /\ level \in Int
           /\ \/ e.last <= level /\ level <= price
              \/ price <= level /\ level <= e.last
<1>. DEFINE d == Engine!Distance(e, price)
            k == Engine!Steps(e, price)
<1>1. e.last \in Int /\ e.size \in Nat \ {0}
  BY DEF Engine!Engine
<1>2. d \in Nat
  BY <1>1 DEF Engine!Distance
<1>3. k \in Nat /\ k * e.size <= d
  BY <1>1, <1>2, WholeBricks DEF Engine!Steps
<1>4. n * e.size \in Nat /\ n * e.size <= k * e.size
  BY <1>1, <1>3, FewerBricks
<1>5. n * e.size <= d
  BY <1>1, <1>2, <1>3, <1>4
<1>6. QED
  <2>1. CASE price > e.last
    BY <1>1, <1>4, <1>5, <2>1 DEF Engine!Distance, Engine!Level, Engine!Trend
  <2>2. CASE ~(price > e.last)
    BY <1>1, <1>4, <1>5, <2>2 DEF Engine!Distance, Engine!Level, Engine!Trend
  <2>3. QED
    BY <2>1, <2>2

LEMMA LastLevelIsNear ==
    ASSUME NEW e \in Engine!Engine, e.size > 0, NEW price \in Nat,
           NEW f, f.last = Engine!Level(e, Engine!Trend(e, price), Engine!Steps(e, price))
    PROVE  Engine!Distance(f, price) < e.size
<1>. DEFINE d == Engine!Distance(e, price)
            k == Engine!Steps(e, price)
<1>1. e.last \in Int /\ e.size \in Nat \ {0}
  BY DEF Engine!Engine
<1>2. d \in Nat
  BY <1>1 DEF Engine!Distance
<1>3. k \in Nat /\ k * e.size <= d /\ d < k * e.size + e.size /\ k * e.size \in Nat
  BY <1>1, <1>2, WholeBricks DEF Engine!Steps
<1>4. QED
  <2>1. CASE price > e.last
    BY <1>1, <1>3, <2>1 DEF Engine!Distance, Engine!Level, Engine!Trend
  <2>2. CASE ~(price > e.last)
    BY <1>1, <1>3, <2>2 DEF Engine!Distance, Engine!Level, Engine!Trend
  <2>3. QED
    BY <2>1, <2>2

-----------------------------------------------------------------------------
(***************************************************************************)
(* The chart of an engine.                                                 *)
(***************************************************************************)
Spans(prices, end) == (\E p \in prices : p <= end) /\ (\E p \in prices : p >= end)

(* A turn is followed by a brick of its direction that starts at its end. *)
TurnTakesTwo(h, i) ==
    h[i].event = "reversed" =>
        /\ i < Len(h)
        /\ h[i + 1].direction = h[i].direction
        /\ h[i + 1].open = h[i].close

(* One brick of a chart that was not begun again *)
BrickIsTold(h, i, prices, sequence) ==
    /\ h[i].event = "opened" <=> i = 1
    /\ h[i].event = "reversed" <=> i > 1 /\ h[i].direction # h[i - 1].direction
    /\ Spans(prices, h[i].open) /\ Spans(prices, h[i].close)
    /\ h[i].number <= sequence
    /\ i > 1 => h[i].number > h[i - 1].number

(* The engine goes on where its chart ends. *)
GoesOn(e, prices) ==
    /\ e.direction = IF e.history = <<>> THEN "neutral" ELSE e.history[Len(e.history)].direction
    /\ Spans(prices, e.last)

(* What every engine keeps, begun again or not *)
EngineKept(e) ==
    /\ e \in Engine!Engine
    /\ e.history # <<>> => e.anchored
    /\ \A i \in DOMAIN e.history : TurnTakesTwo(e.history, i)

(* What an engine that was not begun again keeps *)
ChartKept(e, prices, price) ==
    /\ e.anchored => e.size > 0 /\ Engine!Distance(e, price) < e.size /\ GoesOn(e, prices)
    /\ \A i \in DOMAIN e.history : BrickIsTold(e.history, i, prices, e.sequence)

(* The bricks of a move, and where they are put *)
LEMMA MoveAppends ==
    ASSUME NEW e \in Engine!Engine, e.size > 0, NEW price \in Nat
    PROVE  LET k == Engine!Steps(e, price)
               G == Engine!GeneratedBricks(e, price)
               f == Engine!Extended(e, price) IN
           /\ k \in Nat
           /\ G \in Seq(Engine!Brick) /\ Len(G) = k
           /\ f \in Engine!Engine
           /\ f.anchored = e.anchored /\ f.size = e.size
           /\ f.direction = Engine!Trend(e, price)
           /\ f.last = Engine!Level(e, Engine!Trend(e, price), k)
           /\ f.history = e.history \o G
           /\ f.sequence = e.sequence + k
<1>. DEFINE k == Engine!Steps(e, price)
            G == Engine!GeneratedBricks(e, price)
            t == Engine!Trend(e, price)
<1>1. e.last \in Int /\ e.size \in Nat \ {0} /\ e.sequence \in Nat /\ e.history \in Seq(Engine!Brick)
      /\ e.direction \in Engine!Direction
  BY DEF Engine!Engine
<1>2. k \in Nat
  BY <1>1, WholeBricks DEF Engine!Steps, Engine!Distance
<1>3. t \in {"up", "down"}
  BY DEF Engine!Trend
<1>4. ASSUME NEW step \in 1..k
      PROVE  [direction |-> t, open |-> Engine!Level(e, t, step - 1),
              close |-> Engine!Level(e, t, step), event |-> Engine!EventOf(e, price, step),
              number |-> e.sequence + step] \in Engine!Brick
  <2>1. step \in 0..k /\ step - 1 \in 0..k /\ e.sequence + step \in Nat
    BY <1>1, <1>2
  <2>2. Engine!Level(e, t, step) \in Int /\ Engine!Level(e, t, step - 1) \in Int
    BY <2>1, LevelsLieBetween
  <2>3. Engine!EventOf(e, price, step) \in Engine!Event
    BY DEF Engine!EventOf, Engine!Event
  <2>4. QED
    BY <1>3, <2>1, <2>2, <2>3 DEF Engine!Brick
<1>5. G \in [1..k -> Engine!Brick]
  BY <1>4 DEF Engine!GeneratedBricks
<1>6. G \in Seq(Engine!Brick) /\ Len(G) = k
  BY <1>2, <1>5
<1>7. /\ Engine!Level(e, t, k) \in Int /\ e.sequence + k \in Nat
      /\ e.history \o G \in Seq(Engine!Brick)
  BY <1>1, <1>2, <1>6, LevelsLieBetween
<1>8. QED
  <2>. HIDE DEF k, G, t
  <2>1. /\ t \in Engine!Direction
        /\ Engine!Extended(e, price) = [e EXCEPT !.direction = t, !.last = Engine!Level(e, t, k),
                                                 !.history = @ \o G, !.sequence = @ + k]
    BY <1>3 DEF Engine!Direction, Engine!Extended, k, G, t
  <2>2. QED
    BY <1>1, <1>2, <1>6, <1>7, <2>1 DEF Engine!Engine, k, G, t

LEMMA Concatenates ==
    ASSUME NEW S, NEW a \in Seq(S), NEW b \in Seq(S)
    PROVE  /\ Len(a) \in Nat /\ Len(a \o b) = Len(a) + Len(b)
           /\ DOMAIN a = 1..Len(a) /\ DOMAIN (a \o b) = 1..(Len(a) + Len(b))
OBVIOUS

(* The history after a move: what was there, and then the move's bricks *)
LEMMA BricksOfMove ==
    ASSUME NEW e \in Engine!Engine, e.size > 0, NEW price \in Nat
    PROVE  LET k == Engine!Steps(e, price)
               t == Engine!Trend(e, price)
               n == Len(e.history)
               h == Engine!Extended(e, price).history IN
           /\ n \in Nat /\ k \in Nat /\ Len(h) = n + k /\ DOMAIN h = 1..(n + k)
           /\ DOMAIN e.history = 1..n
           /\ \A i \in 1..n : h[i] = e.history[i]
           /\ \A i \in (n + 1)..(n + k) :
                 /\ h[i].direction = t
                 /\ h[i].open = Engine!Level(e, t, i - n - 1)
                 /\ h[i].close = Engine!Level(e, t, i - n)
                 /\ h[i].event = Engine!EventOf(e, price, i - n)
                 /\ h[i].number = e.sequence + (i - n)
<1>. DEFINE k == Engine!Steps(e, price)
            t == Engine!Trend(e, price)
            n == Len(e.history)
            G == Engine!GeneratedBricks(e, price)
            h == Engine!Extended(e, price).history
<1>1. /\ k \in Nat /\ G \in Seq(Engine!Brick) /\ Len(G) = k /\ h = e.history \o G
      /\ e.history \in Seq(Engine!Brick)
  BY MoveAppends DEF Engine!Engine
<1>2. n \in Nat /\ Len(h) = n + k /\ DOMAIN h = 1..(n + k) /\ DOMAIN e.history = 1..n
  <2>1. /\ Len(e.history) \in Nat /\ Len(e.history \o G) = Len(e.history) + Len(G)
        /\ DOMAIN (e.history \o G) = 1..(Len(e.history) + Len(G))
        /\ DOMAIN e.history = 1..Len(e.history)
    <3>. HIDE DEF G
    <3>1. QED
      BY <1>1, Concatenates
  <2>. HIDE DEF k, G, h
  <2>2. QED
    BY <1>1, <2>1
<1>3. /\ \A i \in 1..n : h[i] = e.history[i]
      /\ \A i \in (n + 1)..(n + k) : h[i] = G[i - n] /\ i - n \in 1..k
  <2>. HIDE DEF k, G, h
  <2>1. QED
    BY <1>1, <1>2
<1>4. \A step \in 1..k :
         G[step] = [direction |-> t, open |-> Engine!Level(e, t, step - 1),
                    close |-> Engine!Level(e, t, step), event |-> Engine!EventOf(e, price, step),
                    number |-> e.sequence + step]
  BY DEF Engine!GeneratedBricks
<1>5. ASSUME NEW i \in (n + 1)..(n + k)
      PROVE  h[i] = [direction |-> t, open |-> Engine!Level(e, t, i - n - 1),
                     close |-> Engine!Level(e, t, i - n), event |-> Engine!EventOf(e, price, i - n),
                     number |-> e.sequence + (i - n)]
  <2>. HIDE DEF k, G, h, t, n
  <2>1. QED
    BY <1>3, <1>4, <1>5
<1>6. \A i \in (n + 1)..(n + k) :
         /\ h[i].direction = t
         /\ h[i].open = Engine!Level(e, t, i - n - 1)
         /\ h[i].close = Engine!Level(e, t, i - n)
         /\ h[i].event = Engine!EventOf(e, price, i - n)
         /\ h[i].number = e.sequence + (i - n)
  <2>1. TAKE i \in (n + 1)..(n + k)
  <2>2. h[i] = [direction |-> t, open |-> Engine!Level(e, t, i - n - 1),
                close |-> Engine!Level(e, t, i - n), event |-> Engine!EventOf(e, price, i - n),
                number |-> e.sequence + (i - n)]
    BY <1>5
  <2>. HIDE DEF k, G, h, t, n
  <2>3. QED
    BY <2>2
<1>7. \A i \in 1..n : h[i] = e.history[i]
  BY <1>3
<1>8. k \in Nat
  BY <1>1
<1>9. QED
  BY <1>2, <1>6, <1>7, <1>8

(* A move against the direction makes two bricks or more. *)
LEMMA MoveIsKept ==
    ASSUME NEW e, EngineKept(e), e.size > 0, e.anchored, NEW price \in Nat, Engine!MakesBricks(e, price)
    PROVE  EngineKept(Engine!Extended(e, price))
<1>. DEFINE k == Engine!Steps(e, price)
            t == Engine!Trend(e, price)
            n == Len(e.history)
            f == Engine!Extended(e, price)
            h == f.history
<1>1. e \in Engine!Engine /\ f \in Engine!Engine /\ f.anchored = e.anchored
  BY MoveAppends DEF EngineKept
<1>2. /\ n \in Nat /\ k \in Nat /\ Len(h) = n + k /\ DOMAIN h = 1..(n + k)
      /\ DOMAIN e.history = 1..n
      /\ \A i \in 1..n : h[i] = e.history[i]
      /\ \A i \in (n + 1)..(n + k) :
            /\ h[i].direction = t
            /\ h[i].open = Engine!Level(e, t, i - n - 1)
            /\ h[i].close = Engine!Level(e, t, i - n)
            /\ h[i].event = Engine!EventOf(e, price, i - n)
  BY <1>1, BricksOfMove
<1>3. ASSUME NEW i \in 1..(n + k) PROVE TurnTakesTwo(h, i)
  <2>1. CASE i \in 1..n
    <3>1. TurnTakesTwo(e.history, i) /\ h[i] = e.history[i]
      BY <1>2, <2>1 DEF EngineKept
    <3>2. i < n => h[i + 1] = e.history[i + 1]
      BY <1>2, <2>1
    <3>. HIDE DEF k, h, t
    <3>3. QED
      BY <1>2, <2>1, <3>1, <3>2 DEF TurnTakesTwo
  <2>2. CASE i \in (n + 1)..(n + k)
    <3>1. SUFFICES ASSUME h[i].event = "reversed"
                   PROVE  i < n + k /\ h[i + 1].direction = h[i].direction /\ h[i + 1].open = h[i].close
      BY <1>2 DEF TurnTakesTwo
    <3>2. i - n = 1 /\ Engine!Heading(e, price) # t
      <4>1. h[i].event = Engine!EventOf(e, price, i - n)
        BY <1>2, <2>2
      <4>2. ~(i - n > 1) /\ Engine!Heading(e, price) # t
        BY <3>1, <4>1 DEF Engine!EventOf
      <4>3. i - n = 1
        <5>. HIDE DEF k, h, t, n
        <5>1. QED
          BY <1>2, <2>2, <4>2
      <4>4. QED
        BY <4>2, <4>3
    <3>3. k >= 2
      BY <3>2 DEF Engine!MakesBricks
    <3>4. i + 1 \in (n + 1)..(n + k) /\ i < n + k /\ (i + 1) - n - 1 = i - n
      <4>1. n \in Nat /\ k \in Nat
        BY <1>2
      <4>. HIDE DEF k, h, t, n
      <4>2. QED
        BY <2>2, <3>2, <3>3, <4>1, SecondBrick
    <3>5. QED
      <4>1. h[i + 1].direction = t /\ h[i + 1].open = Engine!Level(e, t, i - n)
        BY <1>2, <3>4
      <4>2. h[i].direction = t /\ h[i].close = Engine!Level(e, t, i - n)
        BY <1>2, <2>2
      <4>3. QED
        BY <3>4, <4>1, <4>2
  <2>3. QED
    <3>. HIDE DEF k, h, t, n
    <3>1. QED
      BY <1>2, <1>3, <2>1, <2>2
<1>4. QED
  BY <1>1, <1>2, <1>3 DEF EngineKept

(* What spans the last price and the new one spans every level of the move. *)
LEMMA MoveIsSpanned ==
    ASSUME NEW e \in Engine!Engine, e.size > 0, NEW price \in Nat,
           NEW prices \in SUBSET Nat, Spans(prices, e.last),
           NEW n \in 0..Engine!Steps(e, price)
    PROVE  Spans(prices \cup {price}, Engine!Level(e, Engine!Trend(e, price), n))
<1>. DEFINE level == Engine!Level(e, Engine!Trend(e, price), n)
<1>1. /\ level \in Int
      /\ \/ e.last <= level /\ level <= price
         \/ price <= level /\ level <= e.last
  BY LevelsLieBetween
<1>2. PICK p, q \in prices : p <= e.last /\ q >= e.last
  BY DEF Spans
<1>3. p \in Int /\ q \in Int /\ e.last \in Int
  BY <1>2 DEF Engine!Engine
<1>4. (p <= level /\ level <= price) \/ (price <= level /\ level <= q)
  <2>. HIDE DEF level
  <2>1. QED
    BY <1>1, <1>2, <1>3
<1>5. p \in prices \cup {price} /\ q \in prices \cup {price} /\ price \in prices \cup {price}
  BY <1>2
<1>6. QED
  <2>. HIDE DEF level
  <2>1. Spans(prices \cup {price}, level)
    BY <1>1, <1>3, <1>4, <1>5 DEF Spans
  <2>2. QED
    BY <2>1 DEF level

LEMMA MoreIsSpanned ==
    ASSUME NEW prices, NEW more, prices \subseteq more, NEW end, Spans(prices, end)
    PROVE  Spans(more, end)
BY DEF Spans

(* A move tells its turn, numbers its bricks on, and ends near the price. *)
LEMMA MoveIsTold ==
    ASSUME NEW e, EngineKept(e), e.size > 0, e.anchored,
           NEW price \in Nat, Engine!MakesBricks(e, price),
           NEW prices \in SUBSET Nat, GoesOn(e, prices),
           \A i \in DOMAIN e.history : BrickIsTold(e.history, i, prices, e.sequence)
    PROVE  ChartKept(Engine!Extended(e, price), prices \cup {price}, price)
<1>. DEFINE k == Engine!Steps(e, price)
            t == Engine!Trend(e, price)
            n == Len(e.history)
            f == Engine!Extended(e, price)
            h == f.history
            all == prices \cup {price}
<1>1. /\ e \in Engine!Engine /\ f \in Engine!Engine /\ f.anchored = e.anchored /\ f.size = e.size
      /\ f.direction = t /\ f.last = Engine!Level(e, t, k) /\ f.sequence = e.sequence + k
      /\ e.sequence \in Nat /\ e.history \in Seq(Engine!Brick)
  BY MoveAppends DEF EngineKept, Engine!Engine
<1>2. /\ n \in Nat /\ k \in Nat /\ Len(h) = n + k /\ DOMAIN h = 1..(n + k)
      /\ DOMAIN e.history = 1..n
      /\ \A i \in 1..n : h[i] = e.history[i]
      /\ \A i \in (n + 1)..(n + k) :
            /\ h[i].direction = t
            /\ h[i].open = Engine!Level(e, t, i - n - 1)
            /\ h[i].close = Engine!Level(e, t, i - n)
            /\ h[i].event = Engine!EventOf(e, price, i - n)
            /\ h[i].number = e.sequence + (i - n)
  BY <1>1, BricksOfMove
<1>3. k > 0
  BY DEF Engine!MakesBricks
<1>4. Spans(all, f.last) /\ Engine!Distance(f, price) < f.size
  <2>1. k \in 0..k
    BY <1>2
  <2>2. QED
    BY <1>1, <2>1, MoveIsSpanned, LastLevelIsNear DEF GoesOn
<1>5. h # <<>> /\ h[Len(h)].direction = t
  <2>1. n + k \in (n + 1)..(n + k) /\ n + k # 0
    <3>. HIDE DEF k, n
    <3>1. QED
      BY <1>2, <1>3
  <2>2. Len(h) = n + k
    BY <1>2
  <2>3. QED
    BY <1>2, <2>1, <2>2
<1>6. n = 0 <=> e.history = <<>>
  BY <1>1
<1>11. \A i \in 1..n : e.history[i].number \in Nat /\ e.history[i].direction \in {"up", "down"}
  <2>1. \A i \in 1..n : e.history[i] \in Engine!Brick
    BY <1>1, <1>2
  <2>2. QED
    BY <2>1 DEF Engine!Brick
<1>7. ASSUME NEW i \in (n + 1)..(n + k) PROVE BrickIsTold(h, i, all, f.sequence)
  <2>1. /\ i - n \in 1..k /\ i - n \in 0..k /\ i - n - 1 \in 0..k /\ i \in Nat
        /\ i > n + 1 => (i - 1) \in (n + 1)..(n + k) /\ ~(i - n = 1) /\ i - n > 1
        /\ i = n + 1 => i - n = 1 /\ ~(i - n > 1)
        /\ i = n + 1 \/ i > n + 1
    <3>. HIDE DEF k, n
    <3>1. QED
      BY <1>2
  <2>2. h[i].direction = t /\ h[i].event = Engine!EventOf(e, price, i - n)
    BY <1>2
  <2>3. Spans(all, h[i].open) /\ Spans(all, h[i].close)
    <3>1. Spans(all, Engine!Level(e, t, i - n)) /\ Spans(all, Engine!Level(e, t, i - n - 1))
      BY <1>1, <2>1, MoveIsSpanned DEF GoesOn
    <3>2. QED
      BY <1>2, <3>1
  <2>4. h[i].number <= f.sequence /\ h[i].number = e.sequence + (i - n)
    <3>1. h[i].number = e.sequence + (i - n)
      BY <1>2
    <3>. HIDE DEF h, k, f, n
    <3>2. QED
      BY <1>1, <1>2, <2>1, <3>1
  <2>5. i > 1 => h[i].number > h[i - 1].number
    <3>1. CASE i > n + 1
      <4>1. h[i - 1].number = e.sequence + (i - 1 - n)
        BY <1>2, <2>1, <3>1
      <4>2. h[i].number = e.sequence + (i - n) /\ e.sequence \in Nat /\ n \in Nat /\ i \in Nat
        BY <1>1, <1>2, <2>1, <2>4
      <4>. HIDE DEF h, n, k
      <4>3. QED
        BY <4>1, <4>2
    <3>2. CASE i = n + 1 /\ n > 0
      <4>1. n \in DOMAIN e.history /\ i - 1 = n
        <5>. HIDE DEF n
        <5>1. QED
          BY <1>2, <3>2
      <4>2. e.history[n].number <= e.sequence /\ h[n] = e.history[n]
        BY <1>2, <4>1 DEF BrickIsTold
      <4>3. h[n].number \in Nat
        BY <1>2, <1>11, <4>1, <4>2
      <4>4. h[i].number = e.sequence + (i - n) /\ e.sequence \in Nat /\ n \in Nat
        BY <1>1, <1>2, <2>4
      <4>. HIDE DEF h, n
      <4>5. h[i].number = e.sequence + 1
        BY <3>2, <4>4
      <4>6. QED
        BY <4>1, <4>2, <4>3, <4>4, <4>5
    <3>3. QED
      <4>. HIDE DEF h, n, k
      <4>1. QED
        BY <1>2, <2>1, <3>1, <3>2
  <2>6. /\ h[i].event = "opened" <=> i = 1
        /\ h[i].event = "reversed" <=> i > 1 /\ h[i].direction # h[i - 1].direction
    <3>1. CASE i > n + 1
      <4>1. h[i].event = "extended"
        BY <2>1, <2>2, <3>1 DEF Engine!EventOf
      <4>2. h[i - 1].direction = t /\ i > 1 /\ i # 1
        <5>1. h[i - 1].direction = t
          BY <1>2, <2>1, <3>1
        <5>2. i > 1 /\ i # 1
          <6>. HIDE DEF n
          <6>1. QED
            BY <1>2, <2>1, <3>1
        <5>3. QED
          BY <5>1, <5>2
      <4>3. QED
        BY <2>2, <4>1, <4>2
    <3>2. CASE i = n + 1 /\ n = 0
      <4>1. e.direction = "neutral" /\ e.history = <<>>
        BY <1>6, <3>2 DEF GoesOn
      <4>2. Engine!Heading(e, price) = t
        BY <1>3, <4>1 DEF Engine!Heading
      <4>3. h[i].event = "opened"
        BY <2>1, <2>2, <3>2, <4>1, <4>2 DEF Engine!EventOf
      <4>4. i = 1 /\ ~(i > 1)
        BY <3>2
      <4>5. QED
        BY <4>3, <4>4
    <3>3. CASE i = n + 1 /\ n > 0
      <4>1. e.direction = e.history[n].direction /\ e.history # <<>> /\ n \in DOMAIN e.history
        BY <1>2, <1>6, <3>3 DEF GoesOn
      <4>2. e.direction \in {"up", "down"} /\ h[n].direction = e.direction
        BY <1>2, <1>11, <4>1
      <4>3. Engine!Heading(e, price) = e.direction
        BY <4>2 DEF Engine!Heading
      <4>4. h[i].event = IF e.direction # t THEN "reversed" ELSE "extended"
        BY <2>1, <2>2, <3>3, <4>1, <4>3 DEF Engine!EventOf
      <4>5. i > 1 /\ i # 1 /\ i - 1 = n
        <5>. HIDE DEF n
        <5>1. QED
          BY <1>2, <3>3
      <4>6. QED
        BY <2>2, <4>2, <4>4, <4>5
    <3>4. QED
      <4>. HIDE DEF h, n, k
      <4>1. QED
        BY <1>2, <2>1, <3>1, <3>2, <3>3
  <2>7. QED
    BY <2>3, <2>4, <2>5, <2>6 DEF BrickIsTold
<1>8. ASSUME NEW i \in 1..n PROVE BrickIsTold(h, i, all, f.sequence)
  <2>1. BrickIsTold(e.history, i, prices, e.sequence) /\ h[i] = e.history[i]
    BY <1>2
  <2>2. i > 1 => h[i - 1] = e.history[i - 1]
    <3>1. i > 1 => i - 1 \in 1..n
      <4>. HIDE DEF n
      <4>1. QED
        BY <1>2
    <3>2. QED
      BY <1>2, <3>1
  <2>3. Spans(all, h[i].open) /\ Spans(all, h[i].close)
    BY <2>1, MoreIsSpanned DEF BrickIsTold
  <2>4. h[i].number <= f.sequence
    <3>1. h[i].number \in Nat /\ h[i].number <= e.sequence
      BY <1>2, <1>11, <2>1 DEF BrickIsTold
    <3>. HIDE DEF h, f, k
    <3>2. QED
      BY <1>1, <1>2, <3>1
  <2>5. QED
    <3>. HIDE DEF h, f, all
    <3>1. QED
      BY <2>1, <2>2, <2>3, <2>4 DEF BrickIsTold
<1>9. \A i \in DOMAIN h : BrickIsTold(h, i, all, f.sequence)
  <2>. HIDE DEF h, n, k, f, all
  <2>1. QED
    BY <1>2, <1>7, <1>8
<1>10. QED
  BY <1>1, <1>4, <1>5, <1>9 DEF ChartKept, GoesOn

-----------------------------------------------------------------------------
(***************************************************************************)
(* The calls.                                                              *)
(***************************************************************************)

(* An engine without an anchor has an empty chart. *)
LEMMA UnanchoredIsTold ==
    ASSUME NEW e, EngineKept(e), ~e.anchored, NEW prices, NEW price
    PROVE  ChartKept(e, prices, price)
BY DEF EngineKept, ChartKept

(* What keeps the chart and the anchor keeps the engine. *)
LEMMA SameChartIsKept ==
    ASSUME NEW e, EngineKept(e), NEW f \in Engine!Engine, f.history = e.history,
           e.anchored => f.anchored
    PROVE  EngineKept(f)
BY DEF EngineKept

LEMMA ReadyIsKept ==
    ASSUME NEW e, EngineKept(e), NEW candle \in [price : Nat, size : Nat]
    PROVE  LET r == Engine!Sized(Engine!Awake(e), candle) IN
           /\ EngineKept(r)
           /\ r.history = e.history /\ r.anchored = e.anchored /\ r.sequence = e.sequence
           /\ r.size = IF candle.size > 0 THEN candle.size ELSE e.size
           /\ e.isOpen => r.last = e.last /\ r.direction = e.direction
<1>. DEFINE a == Engine!Awake(e)
            r == Engine!Sized(a, candle)
<1>1. e \in Engine!Engine
  BY DEF EngineKept
<1>2. /\ a \in Engine!Engine /\ a.history = e.history /\ a.anchored = e.anchored
      /\ a.sequence = e.sequence /\ a.size = e.size
      /\ e.isOpen => a = e
  <2>. DEFINE b == [e EXCEPT !.isOpen = TRUE, !.direction = "neutral", !.last = 0]
  <2>1. a = IF e.isOpen THEN e ELSE b
    BY DEF Engine!Awake, Engine!Started
  <2>2. b \in Engine!Engine
    <3>1. TRUE \in BOOLEAN /\ "neutral" \in Engine!Direction /\ 0 \in Int
      BY DEF Engine!Direction
    <3>2. QED
      BY <1>1, <3>1, Zenon DEF Engine!Engine
  <2>3. b.history = e.history /\ b.sequence = e.sequence /\ b.size = e.size
    BY <1>1 DEF Engine!Engine
  <2>4. b.anchored = e.anchored
    BY <1>1 DEF Engine!Engine
  <2>. HIDE DEF a, b
  <2>5. CASE e.isOpen
    BY <1>1, <2>1, <2>5
  <2>6. CASE ~e.isOpen
    BY <2>1, <2>2, <2>3, <2>4, <2>6
  <2>7. QED
    BY <2>5, <2>6
<1>3. candle.size \in Nat
  OBVIOUS
<1>4. /\ r \in Engine!Engine /\ r.history = a.history /\ r.anchored = a.anchored
      /\ r.sequence = a.sequence /\ r.last = a.last /\ r.direction = a.direction
      /\ r.size = IF candle.size > 0 THEN candle.size ELSE a.size
  <2>. HIDE DEF a
  <2>1. QED
    BY <1>2, <1>3 DEF Engine!Sized, Engine!Engine
<1>5. EngineKept(r)
  <2>. HIDE DEF a, r
  <2>1. QED
    BY <1>2, <1>4, SameChartIsKept
<1>6. QED
  BY <1>2, <1>4, <1>5

LEMMA AnchoredFields ==
    ASSUME NEW r \in Engine!Engine, NEW price \in Nat
    PROVE  LET f == Engine!Anchored(r, price) IN
           /\ f \in Engine!Engine /\ f.history = r.history /\ f.anchored
           /\ f.direction = "neutral" /\ f.last = price /\ f.size = r.size
<1>. DEFINE f == Engine!Anchored(r, price)
<1>1. f = [r EXCEPT !.anchored = TRUE, !.direction = "neutral", !.last = price]
  BY DEF Engine!Anchored
<1>2. f \in Engine!Engine
  <2>1. TRUE \in BOOLEAN /\ "neutral" \in Engine!Direction /\ price \in Int
    BY DEF Engine!Direction
  <2>2. QED
    BY <1>1, <2>1, Zenon DEF Engine!Engine
<1>3. f.history = r.history /\ f.direction = "neutral" /\ f.last = price /\ f.size = r.size
  BY <1>1 DEF Engine!Engine
<1>4. f.anchored
  BY <1>1 DEF Engine!Engine
<1>5. QED
  BY <1>2, <1>3, <1>4

LEMMA MovedFields ==
    ASSUME NEW r \in Engine!Engine, NEW price \in Nat
    PROVE  LET f == Engine!Moved(r, price) IN
           /\ f \in Engine!Engine /\ f.history = r.history /\ f.anchored = r.anchored
           /\ f.direction = Engine!Heading(r, price) /\ f.last = price /\ f.size = r.size
           /\ f.sequence = r.sequence
<1>1. Engine!Heading(r, price) \in Engine!Direction
  BY DEF Engine!Heading, Engine!Trend, Engine!Direction, Engine!Engine
<1>. DEFINE f == Engine!Moved(r, price)
<1>2. f = [r EXCEPT !.direction = Engine!Heading(r, price), !.last = price]
  BY DEF Engine!Moved
<1>3. f \in Engine!Engine
  <2>1. price \in Int
    OBVIOUS
  <2>2. QED
    BY <1>1, <1>2, <2>1, Zenon DEF Engine!Engine
<1>4. /\ f.history = r.history /\ f.direction = Engine!Heading(r, price) /\ f.last = price
      /\ f.size = r.size /\ f.sequence = r.sequence
  BY <1>2 DEF Engine!Engine
<1>5. f.anchored = r.anchored
  BY <1>2 DEF Engine!Engine
<1>6. QED
  BY <1>3, <1>4, <1>5

LEMMA ProcessedIsKept ==
    ASSUME NEW e, EngineKept(e), NEW candle \in [price : Nat, size : Nat]
    PROVE  EngineKept(Engine!Processed(e, candle))
<1>. DEFINE r == Engine!Sized(Engine!Awake(e), candle)
<1>1. EngineKept(r) /\ r \in Engine!Engine /\ candle.price \in Nat
  BY ReadyIsKept DEF EngineKept
<1>2. r.size # 0 => r.size > 0
  BY <1>1 DEF Engine!Engine
<1>3. EngineKept(Engine!Anchored(r, candle.price))
  <2>. HIDE DEF r
  <2>1. QED
    BY <1>1, AnchoredFields, SameChartIsKept
<1>4. EngineKept(Engine!Moved(r, candle.price))
  <2>. HIDE DEF r
  <2>1. QED
    BY <1>1, MovedFields, SameChartIsKept
<1>5. r.size # 0 /\ r.anchored /\ Engine!MakesBricks(r, candle.price)
      => EngineKept(Engine!Extended(r, candle.price))
  <2>. HIDE DEF r
  <2>1. QED
    BY <1>1, <1>2, MoveIsKept
<1>6. QED
  BY <1>1, <1>3, <1>4, <1>5 DEF Engine!Processed

(* A candle leaves the chart told, unless the engine was begun again. *)
LEMMA ProcessedIsTold ==
    ASSUME NEW e, EngineKept(e), e.anchored => e.isOpen,
           NEW candle \in [price : Nat, size : Nat],
           NEW prices \in SUBSET Nat, NEW price, ChartKept(e, prices, price)
    PROVE  LET f == Engine!Processed(e, candle) IN
           ChartKept(f, IF f.size > 0 THEN prices \cup {candle.price} ELSE prices,
                        IF f.size > 0 THEN candle.price ELSE price)
<1>. DEFINE p == candle.price
            r == Engine!Sized(Engine!Awake(e), candle)
            all == prices \cup {p}
<1>1. /\ EngineKept(r) /\ r \in Engine!Engine /\ p \in Nat
      /\ r.history = e.history /\ r.anchored = e.anchored /\ r.sequence = e.sequence
      /\ r.size = IF candle.size > 0 THEN candle.size ELSE e.size
      /\ e.isOpen => r.last = e.last /\ r.direction = e.direction
  BY ReadyIsKept DEF EngineKept
<1>2. r.size \in Nat /\ r.last \in Int
  BY <1>1 DEF Engine!Engine
<1>3. Spans(all, p)
  BY <1>1 DEF Spans
<1>4. CASE r.size = 0
  <2>1. Engine!Processed(e, candle) = r
    BY <1>4 DEF Engine!Processed
  <2>2. ~r.anchored
    <3>1. e.size \in Nat /\ candle.size \in Nat
      BY DEF EngineKept, Engine!Engine
    <3>2. ~(candle.size > 0) /\ e.size = 0
      <4>. HIDE DEF r
      <4>1. QED
        BY <1>1, <1>4, <3>1
    <3>3. QED
      BY <1>1, <3>2 DEF ChartKept
  <2>3. QED
    <3>. HIDE DEF r
    <3>1. QED
      BY <1>1, <1>4, <2>1, <2>2, UnanchoredIsTold
<1>5. CASE r.size # 0 /\ ~r.anchored
  <2>1. Engine!Processed(e, candle) = Engine!Anchored(r, p)
    BY <1>5 DEF Engine!Processed
  <2>. DEFINE f == Engine!Anchored(r, p)
  <2>2. /\ f \in Engine!Engine /\ f.history = r.history /\ f.anchored
        /\ f.direction = "neutral" /\ f.last = p /\ f.size = r.size
    <3>. HIDE DEF r
    <3>1. QED
      BY <1>1, AnchoredFields
  <2>3. r.history = <<>>
    BY <1>1, <1>5 DEF EngineKept
  <2>4. f.size > 0 /\ Engine!Distance(f, p) < f.size
    <3>. HIDE DEF f, r, p
    <3>1. QED
      BY <1>1, <1>2, <1>5, <2>2 DEF Engine!Distance
  <2>5. ChartKept(f, all, p)
    <3>. HIDE DEF f, r, all
    <3>1. QED
      BY <1>3, <2>2, <2>3, <2>4 DEF ChartKept, GoesOn
  <2>6. QED
    BY <2>1, <2>4, <2>5
<1>6. ASSUME r.size # 0, r.anchored
      PROVE  /\ r.size > 0 /\ GoesOn(r, prices)
             /\ \A i \in DOMAIN r.history : BrickIsTold(r.history, i, prices, r.sequence)
  <2>1. e.anchored /\ e.isOpen
    BY <1>1, <1>6
  <2>2. GoesOn(e, prices)
        /\ \A i \in DOMAIN e.history : BrickIsTold(e.history, i, prices, e.sequence)
    BY <2>1 DEF ChartKept
  <2>. HIDE DEF r
  <2>3. GoesOn(r, prices)
    BY <1>1, <2>1, <2>2 DEF GoesOn
  <2>4. QED
    BY <1>1, <1>2, <1>6, <2>2, <2>3
<1>7. CASE r.size # 0 /\ r.anchored /\ Engine!MakesBricks(r, p)
  <2>1. Engine!Processed(e, candle) = Engine!Extended(r, p)
    BY <1>7 DEF Engine!Processed
  <2>2. Engine!Extended(r, p).size = r.size /\ r.size > 0
    <3>. HIDE DEF r
    <3>1. QED
      BY <1>1, <1>6, <1>7, MoveAppends
  <2>3. ChartKept(Engine!Extended(r, p), all, p)
    <3>. HIDE DEF r
    <3>1. QED
      BY <1>1, <1>6, <1>7, MoveIsTold
  <2>4. QED
    BY <2>1, <2>2, <2>3
<1>8. CASE r.size # 0 /\ r.anchored /\ ~Engine!MakesBricks(r, p)
  <2>1. Engine!Processed(e, candle) = Engine!Moved(r, p)
    BY <1>8 DEF Engine!Processed
  <2>. DEFINE f == Engine!Moved(r, p)
  <2>2. /\ f \in Engine!Engine /\ f.history = r.history /\ f.anchored = r.anchored
        /\ f.direction = Engine!Heading(r, p) /\ f.last = p /\ f.size = r.size
        /\ f.sequence = r.sequence
    <3>. HIDE DEF r
    <3>1. QED
      BY <1>1, MovedFields
  <2>3. Engine!Heading(r, p) = r.direction
    BY <1>8 DEF Engine!Heading, Engine!MakesBricks
  <2>4. f.size > 0 /\ Engine!Distance(f, p) < f.size
    <3>. HIDE DEF f, r, p
    <3>1. QED
      BY <1>1, <1>2, <1>8, <2>2 DEF Engine!Distance
  <2>5. \A i \in DOMAIN r.history : BrickIsTold(r.history, i, all, r.sequence)
    <3>. HIDE DEF r
    <3>1. QED
      BY <1>6, <1>8, MoreIsSpanned DEF BrickIsTold
  <2>6. ChartKept(f, all, p)
    <3>1. GoesOn(f, all)
      <4>. HIDE DEF f, r, all
      <4>1. QED
        BY <1>3, <1>6, <1>8, <2>2, <2>3 DEF GoesOn
    <3>. HIDE DEF f, r, all
    <3>2. QED
      BY <2>2, <2>4, <2>5, <3>1 DEF ChartKept
  <2>7. QED
    BY <2>1, <2>4, <2>6
<1>9. QED
  BY <1>4, <1>5, <1>7, <1>8

(* The life cycle leaves the chart and the anchor. *)
LEMMA LifeCycleKeeps ==
    ASSUME NEW e, EngineKept(e),
           NEW f \in {Engine!Configured(e), Engine!Started(e), Engine!Stopped(e), Engine!Created(e)}
    PROVE  EngineKept(f) /\ f.history = e.history /\ f.anchored = e.anchored
<1>1. e \in Engine!Engine
  BY DEF EngineKept
<1>2. TRUE \in BOOLEAN /\ FALSE \in BOOLEAN /\ "neutral" \in Engine!Direction /\ 0 \in Int /\ 0 \in Nat
  BY DEF Engine!Direction
<1>3. /\ Engine!Configured(e) \in Engine!Engine /\ Engine!Started(e) \in Engine!Engine
      /\ Engine!Stopped(e) \in Engine!Engine /\ Engine!Created(e) \in Engine!Engine
  BY <1>1, <1>2, Zenon
     DEF Engine!Configured, Engine!Started, Engine!Stopped, Engine!Created, Engine!Engine
<1>4. f.history = e.history
  BY <1>1 DEF Engine!Configured, Engine!Started, Engine!Stopped, Engine!Created, Engine!Engine
<1>5. f.anchored = e.anchored
  <2>1. CASE f = Engine!Configured(e)
    BY <1>1, <2>1 DEF Engine!Configured, Engine!Engine
  <2>2. CASE f = Engine!Started(e)
    BY <1>1, <2>2 DEF Engine!Started, Engine!Engine
  <2>3. CASE f = Engine!Stopped(e)
    BY <1>1, <2>3 DEF Engine!Stopped, Engine!Engine
  <2>4. CASE f = Engine!Created(e)
    BY <1>1, <2>4 DEF Engine!Created, Engine!Engine
  <2>5. QED
    BY <2>1, <2>2, <2>3, <2>4
<1>6. QED
  BY <1>3, <1>4, <1>5, SameChartIsKept

LEMMA StoppedFields ==
    ASSUME NEW e \in Engine!Engine
    PROVE  LET f == Engine!Stopped(e) IN
           /\ f.history = e.history /\ f.sequence = e.sequence /\ f.direction = e.direction
           /\ f.last = e.last /\ f.size = e.size /\ f.anchored = e.anchored
<1>1. Engine!Stopped(e).anchored = e.anchored
  BY DEF Engine!Stopped, Engine!Engine
<1>2. QED
  BY <1>1 DEF Engine!Stopped, Engine!Engine

LEMMA StoppedIsTold ==
    ASSUME NEW e \in Engine!Engine, NEW prices, NEW price, ChartKept(e, prices, price)
    PROVE  ChartKept(Engine!Stopped(e), prices, price)
<1>. DEFINE f == Engine!Stopped(e)
<1>1. /\ f.history = e.history /\ f.sequence = e.sequence /\ f.direction = e.direction
      /\ f.last = e.last /\ f.size = e.size /\ f.anchored = e.anchored
  BY StoppedFields
<1>2. Engine!Distance(f, price) = Engine!Distance(e, price)
  BY <1>1 DEF Engine!Distance
<1>3. GoesOn(e, prices) => GoesOn(f, prices)
  BY <1>1 DEF GoesOn
<1>. HIDE DEF f
<1>4. ChartKept(f, prices, price)
  BY <1>1, <1>2, <1>3 DEF ChartKept
<1>5. QED
  BY <1>4 DEF f

(* A new engine, and one that was reset *)
LEMMA NewIsKept ==
    ASSUME NEW q \in Nat
    PROVE  LET f == [Engine!NewEngine EXCEPT !.sequence = q] IN
           EngineKept(f) /\ ~f.anchored
<1>. DEFINE f == [Engine!NewEngine EXCEPT !.sequence = q]
<1>1. f.history = <<>> /\ f.anchored = FALSE
  BY DEF Engine!NewEngine
<1>2. Engine!NewEngine \in Engine!Engine
  <2>1. <<>> \in Seq(Engine!Brick) /\ "neutral" \in Engine!Direction /\ 0 \in Nat /\ 0 \in Int
        /\ FALSE \in BOOLEAN
    BY DEF Engine!Direction
  <2>2. QED
    BY <2>1, Zenon DEF Engine!NewEngine, Engine!Engine
<1>3. f \in Engine!Engine
  BY <1>2, Zenon DEF Engine!Engine
<1>4. QED
  BY <1>1, <1>3 DEF EngineKept

(* What is restored from a snapshot is the engine the snapshot was taken of. *)
LEMMA RestoredAsSaved ==
    ASSUME NEW e \in Engine!Engine, e.configured
    PROVE  Engine!Restored(Engine!Snapshot(e)) = e
<1>1. e.configured = TRUE
  BY Zenon DEF Engine!Engine
<1>2. e = [configured |-> e.configured, isOpen |-> e.isOpen, direction |-> e.direction,
           last |-> e.last, anchored |-> e.anchored, size |-> e.size,
           history |-> e.history, sequence |-> e.sequence]
  BY DEF Engine!Engine
<1>3. Engine!Restored(Engine!Snapshot(e)) =
          [configured |-> TRUE, isOpen |-> e.isOpen, direction |-> e.direction,
           last |-> e.last, anchored |-> e.anchored, size |-> e.size,
           history |-> e.history, sequence |-> e.sequence]
  BY DEF Engine!Restored, Engine!Snapshot
<1>4. QED
  BY <1>1, <1>2, <1>3

-----------------------------------------------------------------------------
(***************************************************************************)
(* The engine's invariant.                                                 *)
(***************************************************************************)
EngineSafe ==
    /\ EngineKept(engine) /\ engine = twin
    /\ market \in Prices \cup {0} /\ seen \subseteq Prices /\ intact \in BOOLEAN
    /\ intact => ChartKept(engine, seen, market)

LEMMA EngineBegins == Engine!Init => EngineSafe
<1>1. SUFFICES ASSUME Engine!Init PROVE EngineSafe
  OBVIOUS
<1>2. Engine!NewEngine = [Engine!NewEngine EXCEPT !.sequence = 0]
  BY DEF Engine!NewEngine
<1>3. EngineKept(engine) /\ ~engine.anchored
  BY <1>1, <1>2, NewIsKept DEF Engine!Init
<1>4. ChartKept(engine, seen, market)
  BY <1>3, UnanchoredIsTold
<1>5. QED
  BY <1>1, <1>3, <1>4 DEF Engine!Init, EngineSafe

LEMMA LifeCycleSteps ==
    ASSUME EngineSafe, Engine!Configure \/ Engine!Start \/ Engine!Stop
    PROVE  EngineSafe'
<1>1. UNCHANGED <<market, seen>> /\ twin' = engine' /\ intact' \in BOOLEAN
  BY DEF EngineSafe, Engine!Configure, Engine!Start, Engine!Stop, Engine!Call, Engine!BegunAgain
<1>2. EngineKept(engine')
  BY LifeCycleKeeps
     DEF EngineSafe, Engine!Configure, Engine!Start, Engine!Stop, Engine!Call
<1>3. intact' => ChartKept(engine', seen', market')
  <2>1. CASE Engine!Configure \/ Engine!Start
    <3>1. intact' => ~engine.anchored
      BY <2>1 DEF Engine!Configure, Engine!Start, Engine!BegunAgain
    <3>2. engine'.anchored = engine.anchored
      BY <2>1, LifeCycleKeeps DEF EngineSafe, Engine!Configure, Engine!Start, Engine!Call
    <3>3. QED
      BY <1>2, <3>1, <3>2, UnanchoredIsTold
  <2>2. CASE Engine!Stop
    BY <1>1, <2>2, StoppedIsTold DEF Engine!Stop, Engine!Call, EngineSafe, EngineKept
  <2>3. QED
    BY <2>1, <2>2
<1>4. EngineKept(engine)' /\ (intact' => ChartKept(engine, seen, market)')
  BY <1>2, <1>3 DEF EngineKept, ChartKept, GoesOn, Engine!Distance
<1>5. QED
  BY <1>1, <1>4 DEF EngineSafe

LEMMA ResetSteps ==
    ASSUME EngineSafe, Engine!Reset
    PROVE  EngineSafe'
<1>1. engine' = [Engine!NewEngine EXCEPT !.sequence = engine.sequence] /\ twin' = engine'
      /\ market' = 0 /\ seen' = {} /\ intact' = TRUE
  BY DEF Engine!Reset, Engine!Call, Engine!WasReset, EngineSafe
<1>2. EngineKept(engine') /\ ~engine'.anchored
  BY <1>1, NewIsKept DEF EngineSafe, EngineKept, Engine!Engine
<1>3. ChartKept(engine', seen', market')
  BY <1>2, UnanchoredIsTold
<1>4. QED
  BY <1>1, <1>2, <1>3 DEF EngineSafe, EngineKept, ChartKept, GoesOn, Engine!Distance

LEMMA MarketSteps ==
    ASSUME EngineSafe, Engine!RenkoConstants,
           NEW candle \in Engine!Candle, Engine!ProcessMarketData(candle)
    PROVE  EngineSafe'
<1>1. engine' = Engine!Processed(engine, candle) /\ twin' = engine'
  BY DEF Engine!ProcessMarketData, Engine!Call, EngineSafe
<1>2. candle \in [price : Nat, size : Nat] /\ candle.price \in Prices /\ seen \in SUBSET Nat
  BY DEF Engine!Candle, Engine!RenkoConstants, EngineSafe
<1>3. /\ market' = IF engine'.size > 0 THEN candle.price ELSE market
      /\ seen' = IF engine'.size > 0 THEN seen \cup {candle.price} ELSE seen
  BY DEF Engine!ProcessMarketData, Engine!Watch
<1>4. intact' \in BOOLEAN /\ (intact' => intact /\ (engine.anchored => engine.isOpen))
  BY DEF Engine!ProcessMarketData, Engine!BegunAgain, EngineSafe
<1>5. EngineKept(engine')
  BY <1>1, <1>2, ProcessedIsKept DEF EngineSafe
<1>6. intact' => ChartKept(engine', seen', market')
  BY <1>1, <1>2, <1>3, <1>4, ProcessedIsTold DEF EngineSafe
<1>7. market' \in Prices \cup {0} /\ seen' \subseteq Prices
  BY <1>2, <1>3 DEF EngineSafe
<1>8. EngineKept(engine)' /\ (intact' => ChartKept(engine, seen, market)')
  BY <1>5, <1>6 DEF EngineKept, ChartKept, GoesOn, Engine!Distance
<1>9. QED
  BY <1>1, <1>4, <1>7, <1>8 DEF EngineSafe

LEMMA StageSteps ==
    ASSUME EngineSafe, Engine!RenkoConstants,
           NEW candle \in Engine!Candle, Engine!RunStage(candle)
    PROVE  EngineSafe'
<1>. DEFINE c == Engine!Created(engine)
            d == Engine!Configured(c)
            e == Engine!Started(d)
            f == Engine!Processed(e, candle)
<1>1. engine' = Engine!Stopped(f) /\ twin' = engine'
  BY DEF Engine!RunStage, Engine!Call, EngineSafe
<1>2. candle \in [price : Nat, size : Nat] /\ candle.price \in Prices /\ seen \in SUBSET Nat
  BY DEF Engine!Candle, Engine!RenkoConstants, EngineSafe
<1>3. /\ market' = IF engine'.size > 0 THEN candle.price ELSE market
      /\ seen' = IF engine'.size > 0 THEN seen \cup {candle.price} ELSE seen
  BY DEF Engine!RunStage, Engine!Watch
<1>4. intact' \in BOOLEAN /\ (intact' => ~engine.anchored)
  BY DEF Engine!RunStage, Engine!BegunAgain, EngineSafe
<1>5. EngineKept(e) /\ e.anchored = engine.anchored
  <2>1. EngineKept(c) /\ c.anchored = engine.anchored
    BY LifeCycleKeeps DEF EngineSafe
  <2>. HIDE DEF c
  <2>2. EngineKept(d) /\ d.anchored = engine.anchored
    BY <2>1, LifeCycleKeeps
  <2>. HIDE DEF d
  <2>3. QED
    BY <2>2, LifeCycleKeeps
<1>. HIDE DEF e
<1>6. EngineKept(f) /\ f \in Engine!Engine
  BY <1>2, <1>5, ProcessedIsKept DEF EngineKept
<1>7. EngineKept(engine') /\ engine'.size = f.size
  <2>. HIDE DEF f
  <2>1. QED
    BY <1>1, <1>6, LifeCycleKeeps, StoppedFields
<1>8. intact' => ChartKept(f, seen', market')
  <2>1. intact' => ChartKept(e, seen, market)
    BY <1>4, <1>5, UnanchoredIsTold
  <2>2. QED
    BY <1>2, <1>3, <1>4, <1>5, <1>7, <2>1, ProcessedIsTold
<1>9. intact' => ChartKept(engine', seen', market')
  <2>. HIDE DEF f
  <2>1. QED
    BY <1>1, <1>6, <1>8, StoppedIsTold
<1>10. market' \in Prices \cup {0} /\ seen' \subseteq Prices
  BY <1>2, <1>3 DEF EngineSafe
<1>11. EngineKept(engine)' /\ (intact' => ChartKept(engine, seen, market)')
  BY <1>7, <1>9 DEF EngineKept, ChartKept, GoesOn, Engine!Distance
<1>12. QED
  BY <1>1, <1>4, <1>10, <1>11 DEF EngineSafe

LEMMA RestoreSteps ==
    ASSUME EngineSafe, Engine!SaveAndRestore
    PROVE  EngineSafe'
<1>1. engine' = engine /\ UNCHANGED <<twin, market, seen, intact>>
  BY RestoredAsSaved DEF Engine!SaveAndRestore, EngineSafe, EngineKept
<1>2. QED
  BY <1>1 DEF EngineSafe, EngineKept, ChartKept, GoesOn, Engine!Distance

LEMMA EngineSteps ==
    ASSUME EngineSafe, Engine!RenkoConstants, Engine!Next
    PROVE  EngineSafe'
BY LifeCycleSteps, ResetSteps, MarketSteps, StageSteps, RestoreSteps DEF Engine!Next

(* The invariant says of the chart what the run checks. *)
LEMMA ChartTellsMarket == EngineSafe => Engine!TypeOK /\ (part = "engine" => BricksTellMarket)
<1>1. SUFFICES ASSUME EngineSafe PROVE Engine!TypeOK /\ BricksTellMarket
  OBVIOUS
<1>2. Engine!TypeOK
  BY <1>1 DEF EngineSafe, EngineKept, Engine!TypeOK
<1>3. Engine!EventsTellTurns
  BY <1>1 DEF EngineSafe, ChartKept, BrickIsTold, Engine!EventsTellTurns, Engine!Turns, Engine!History
<1>4. Engine!ReversalTakesTwo
  <2>1. SUFFICES ASSUME NEW i \in DOMAIN engine.history, engine.history[i].event = "reversed"
                 PROVE  /\ i < Len(engine.history)
                        /\ ~(engine.history[i + 1].direction # engine.history[(i + 1) - 1].direction)
                        /\ engine.history[i + 1].open = engine.history[i].close
    BY DEF Engine!ReversalTakesTwo, Engine!Turns, Engine!History
  <2>2. TurnTakesTwo(engine.history, i) /\ (i + 1) - 1 = i
    BY <1>1 DEF EngineSafe, EngineKept, Engine!Engine
  <2>3. QED
    BY <2>1, <2>2 DEF TurnTakesTwo
<1>5. Engine!FollowsMarket
  BY <1>1 DEF EngineSafe, ChartKept, Engine!FollowsMarket
<1>6. Engine!BricksSpanMarket
  <2>1. SUFFICES ASSUME intact, NEW i \in DOMAIN engine.history,
                        NEW end \in {engine.history[i].open, engine.history[i].close}
                 PROVE  (\E p \in seen : p <= end) /\ (\E p \in seen : p >= end)
    BY DEF Engine!BricksSpanMarket, Engine!BricksStayInMarket, Engine!History
  <2>2. BrickIsTold(engine.history, i, seen, engine.sequence)
    BY <1>1, <2>1 DEF EngineSafe, ChartKept
  <2>3. QED
    BY <2>1, <2>2 DEF BrickIsTold, Spans
<1>7. Engine!NumbersIncrease
  BY <1>1 DEF EngineSafe, ChartKept, BrickIsTold, Engine!NumbersIncrease, Engine!History
<1>8. Engine!ResumeIsInvisible
  BY <1>1 DEF EngineSafe, Engine!ResumeIsInvisible
<1>9. QED
  BY <1>2, <1>3, <1>4, <1>5, <1>6, <1>7, <1>8 DEF BricksTellMarket

(* What an engine keeps, whatever the other parts of the run do *)
THEOREM EngineInvariant == Spec => []EngineSafe
<1>1. Init => EngineSafe
  BY EngineBegins DEF Init
<1>2. EngineSafe /\ [Next]_mcVars => EngineSafe'
  <2>1. SUFFICES ASSUME EngineSafe, Next \/ UNCHANGED mcVars PROVE EngineSafe'
    OBVIOUS
  <2>2. CASE EngineStep
    BY <2>1, <2>2, EngineSteps, BarsInstance DEF EngineStep
  <2>3. CASE UNCHANGED engineVars
    BY <2>1, <2>3
       DEF engineVars, EngineSafe, EngineKept, ChartKept, GoesOn, Engine!Distance
  <2>4. QED
    BY <2>1, <2>2, <2>3
       DEF Next, mcVars, AggregationStep, SizeStep, ConfigStep, PipelineStep
<1>3. QED
  BY <1>1, <1>2, PTL DEF Spec

(* As long as an engine has not been begun again, it ends within one brick *)
(* of the price, its bricks lie between prices the market has been at,     *)
(* events tell the turns and numbers increase; in every engine a reversal  *)
(* is followed by a brick that goes on from it, and a restored engine is   *)
(* the one that was saved (_generate_bricks, build_brick, restore).        *)
THEOREM BricksTold == Spec => []BricksTellMarket
<1>1. EngineSafe => BricksTellMarket
  BY ChartTellsMarket DEF BricksTellMarket
<1>2. QED
  BY <1>1, EngineInvariant, PTL

-----------------------------------------------------------------------------
(***************************************************************************)
(* The aggregation engine.                                                 *)
(***************************************************************************)

(* A candle is what the ticks it was given make of it. *)
MadeOf(c, given) ==
    /\ given \in Seq(Ticks) /\ given # <<>>
    /\ c.open = given[1].price
    /\ c.seen = {given[k] : k \in DOMAIN given}
    /\ IsFiniteSet(c.seen) /\ c.trades = Cardinality(c.seen)
    /\ c.volume = Aggregation!TradedSize(given)
    /\ \A k \in DOMAIN given :
           /\ Aggregation!Align(given[k].time) = c.start /\ given[k].time <= c.last
           /\ c.low <= given[k].price /\ given[k].price <= c.high
    /\ \E k \in DOMAIN given : given[k].price = c.high
    /\ \E k \in DOMAIN given : given[k].price = c.low
    /\ \E k \in DOMAIN given :
           /\ given[k].time = c.last /\ given[k].price = c.close
           /\ \A j \in 1..(k - 1) : given[j].time # c.last

(* What candles cs, given ticks ar, are at a time ck when those pending at *)
(* sw were closed: a candle that is closed was over, one that is over and  *)
(* open is late, and so is a second candle of a bucket.                    *)
Timely(c, ck, sw) ==
    /\ c.closed => Aggregation!End(c.start) <= ck
    /\ ~c.closed /\ Aggregation!End(c.start) <= sw => c.late

OneOpen(cs) ==
    \A i, j \in DOMAIN cs : i < j /\ cs[i].start = cs[j].start => cs[i].closed /\ cs[j].late

CandlesKept(cs, ar, ck, sw) ==
    /\ cs \in Seq(Aggregation!Candle) /\ Len(cs) <= MaxCandles
    /\ ar \in Seq(Seq(Ticks)) /\ Len(ar) = Len(cs)
    /\ ck \in Nat /\ sw \in Nat /\ sw <= ck
    /\ \A i \in DOMAIN cs : MadeOf(cs[i], ar[i]) /\ Timely(cs[i], ck, sw)
    /\ OneOpen(cs)

(* What was told of a candle: once closed only that, and of a candle that  *)
(* is; and whether the last of it is the candle as it is.                  *)
Telling == [kind : {"opened", "updated", "closed"},
            candle : [open : Nat, high : Nat, low : Nat, close : Nat, volume : Nat, trades : Nat]]

ToldClosed(c, events) ==
    \A k \in DOMAIN events : events[k].kind = "closed" =>
        /\ c.closed /\ events[k].candle = Aggregation!Shown(c)
        /\ \A m \in (k + 1)..Len(events) : events[m].kind = "closed"

UpToDate(c, events) ==
    /\ events # <<>> /\ events[Len(events)].candle = Aggregation!Shown(c)
    /\ (events[Len(events)].kind = "closed") = c.closed

InTime(cs) == \A i \in DOMAIN cs : ~cs[i].late

(* What a call has still to publish are candles, closed ones if it is      *)
(* closing, and no candle is out of date but those.                        *)
CallKept(c, cs, sw) ==
    /\ c \in Aggregation!Call
    /\ \A i \in c.closed : i \in DOMAIN cs /\ cs[i].closed
    /\ c.taken # 0 => c.taken \in DOMAIN cs /\ c.at # "closing"
    /\ c.tick # Aggregation!NoTick => c.tick.tick.time <= sw

ToPublish(cl, i) == \E t \in Tasks : i \in cl[t].closed \/ i = cl[t].taken

ToldKept(cs, tl, cl, sw) ==
    /\ cl \in [Tasks -> Aggregation!Call] /\ DOMAIN tl = DOMAIN cs
    /\ \A t \in Tasks : CallKept(cl[t], cs, sw)
    /\ \A i \in DOMAIN cs :
           /\ tl[i] \in Seq(Telling) /\ ToldClosed(cs[i], tl[i])
           /\ UpToDate(cs[i], tl[i]) \/ ToPublish(cl, i)
           /\ InTime(cs) => tl[i] # <<>> /\ tl[i][1].kind = "opened"

AggregationSafe ==
    /\ calls \in 0..MaxCalls
    /\ CandlesKept(candles, arrived, clock, swept)
    /\ ToldKept(candles, told, call, swept)


LEMMA TicksTyped ==
    /\ \A tick \in Ticks : tick \in [time : Nat, price : Nat \ {0}, size : Nat]
    /\ Starts \subseteq Nat /\ 0 \in Starts /\ Length \in Nat \ {0}
    /\ \A tick \in Ticks : \E s \in Starts : s <= tick.time /\ tick.time < s + Length
    /\ MaxCandles \in Nat /\ MaxCalls \in Nat
BY BarsInstance DEF Aggregation!AggregationConstants

(* A set of numbers has a least one, and a greatest one if it is bounded. *)
LEMMA LeastOf ==
    ASSUME NEW S \in SUBSET Nat, S # {}
    PROVE  Aggregation!Min(S) \in S /\ \A y \in S : Aggregation!Min(S) <= y
<1>1. PICK x \in S : \A y \in S : ~(<<y, x>> \in OpToRel(<, Nat))
  BY NatLessThanWellFounded, WFMin
<1>2. ASSUME NEW y \in S, y < x PROVE FALSE
  <2>1. <<y, x>> \in OpToRel(<, Nat)
    BY <1>2 DEF OpToRel
  <2>2. QED
    BY <1>1, <2>1
<1>3. \A y \in S : x <= y
  BY <1>2
<1>4. QED
  BY <1>3 DEF Aggregation!Min

LEMMA GreatestOf ==
    ASSUME NEW S \in SUBSET Nat, S # {}, NEW n \in Nat, \A y \in S : y <= n
    PROVE  Aggregation!Max(S) \in S /\ \A y \in S : y <= Aggregation!Max(S)
<1>. DEFINE rest == {n - y : y \in S}
<1>1. rest \in SUBSET Nat /\ rest # {}
  <2>1. \A y \in S : n - y \in Nat
    OBVIOUS
  <2>2. QED
    BY <2>1
<1>2. PICK r \in rest : \A q \in rest : r <= q
  BY <1>1, LeastOf
<1>3. PICK x \in S : r = n - x
  OBVIOUS
<1>4. \A y \in S : y <= x
  <2>1. TAKE y \in S
  <2>2. r <= n - y
    BY <1>2
  <2>3. QED
    BY <1>3, <2>2
<1>5. QED
  BY <1>4 DEF Aggregation!Max

LEMMA OfTwo ==
    ASSUME NEW a \in Nat, NEW b \in Nat
    PROVE  /\ Aggregation!Max({a, b}) = IF a >= b THEN a ELSE b
           /\ Aggregation!Min({a, b}) = IF a <= b THEN a ELSE b
<1>1. {a, b} \in SUBSET Nat /\ {a, b} # {}
  OBVIOUS
<1>2. Aggregation!Min({a, b}) \in {a, b} /\ \A y \in {a, b} : Aggregation!Min({a, b}) <= y
  BY <1>1, LeastOf
<1>3. \A y \in {a, b} : y <= a + b
  OBVIOUS
<1>4. Aggregation!Max({a, b}) \in {a, b} /\ \A y \in {a, b} : y <= Aggregation!Max({a, b})
  BY <1>1, <1>3, GreatestOf
<1>5. QED
  BY <1>2, <1>4

(* A tick belongs to the bucket it is aligned to. *)
LEMMA Aligned ==
    ASSUME NEW tick \in Ticks
    PROVE  LET start == Aggregation!Align(tick.time) IN
           /\ start \in Starts /\ start \in Nat
           /\ start <= tick.time /\ tick.time < Aggregation!End(start)
<1>. DEFINE S == {s \in Starts : s <= tick.time}
<1>1. tick.time \in Nat /\ S \in SUBSET Nat
  BY TicksTyped
<1>2. PICK s \in Starts : s <= tick.time /\ tick.time < s + Length
  BY TicksTyped
<1>3. Aggregation!Max(S) \in S /\ \A y \in S : y <= Aggregation!Max(S)
  BY <1>1, <1>2, GreatestOf
<1>4. QED
  BY <1>1, <1>2, <1>3, TicksTyped DEF Aggregation!Align, Aggregation!End

-----------------------------------------------------------------------------
LEMMA SameTotal == \A values, n : Aggregation!Total(values, n) = Total(values, n)
BY DEF Aggregation!Total, Aggregation!RunningTotals, Total, RunningTotals

(* A tick trades its size the first time it is given. *)
LEMMA NextTrades ==
    ASSUME NEW given \in Seq(Ticks), NEW tick \in Ticks
    PROVE  Aggregation!TradedSize(Append(given, tick))
               = Aggregation!TradedSize(given)
                     + IF \E k \in DOMAIN given : given[k] = tick THEN 0 ELSE tick.size
<1>. DEFINE more == Append(given, tick)
            n == Len(given)
            Traded(g) == [k \in DOMAIN g |-> IF \E j \in 1..(k - 1) : g[j] = g[k] THEN 0 ELSE g[k].size]
<1>1. /\ n \in Nat /\ DOMAIN given = 1..n /\ DOMAIN more = 1..(n + 1) /\ Len(more) = n + 1
      /\ \A k \in 1..n : more[k] = given[k]
      /\ more[n + 1] = tick
  OBVIOUS
<1>. HIDE DEF more
<1>2. \A k \in 1..n : Traded(more)[k] = Traded(given)[k]
  <2>1. TAKE k \in 1..n
  <2>2. \A j \in 1..(k - 1) : more[j] = given[j]
    BY <1>1
  <2>3. QED
    BY <1>1, <2>2
<1>3. Traded(more)[n + 1] = IF \E k \in DOMAIN given : given[k] = tick THEN 0 ELSE tick.size
  BY <1>1
<1>4. /\ Aggregation!TradedSize(more) = Total(Traded(more), n + 1)
      /\ Aggregation!TradedSize(given) = Total(Traded(given), n)
  BY <1>1, SameTotal DEF Aggregation!TradedSize
<1>. DEFINE old == Traded(given)
            new == Traded(more)
<1>. HIDE DEF old, new
<1>5. \A k \in 1..n : new[k] = old[k]
  BY <1>2 DEF old, new
<1>6. Total(new, n + 1) = Total(old, n) + new[n + 1]
  BY <1>1, <1>5, TotalNext
<1>7. new[n + 1] = IF \E k \in DOMAIN given : given[k] = tick THEN 0 ELSE tick.size
  BY <1>3 DEF new
<1>8. Aggregation!TradedSize(more) = Total(new, n + 1) /\ Aggregation!TradedSize(given) = Total(old, n)
  BY <1>4 DEF old, new
<1>9. QED
  BY <1>6, <1>7, <1>8 DEF more

LEMMA FirstTrades ==
    ASSUME NEW tick \in Ticks
    PROVE  Aggregation!TradedSize(<<tick>>) = tick.size
<1>1. Append(<<>>, tick) = <<tick>> /\ <<>> \in Seq(Ticks) /\ DOMAIN (<<>>) = {} /\ Len(<<>>) = 0
  OBVIOUS
<1>2. Aggregation!TradedSize(<<tick>>) = Aggregation!TradedSize(<<>>) + tick.size
  BY <1>1, NextTrades
<1>3. Aggregation!TradedSize(<<>>) = 0
  BY <1>1, SameTotal, TotalZero DEF Aggregation!TradedSize
<1>4. tick.size \in Nat
  BY TicksTyped
<1>5. QED
  BY <1>2, <1>3, <1>4


-----------------------------------------------------------------------------
LEMMA NewIsMade ==
    ASSUME NEW tick \in Ticks
    PROVE  LET c == Aggregation!NewCandle(tick) IN
           /\ c \in Aggregation!Candle /\ MadeOf(c, <<tick>>)
           /\ c.start = Aggregation!Align(tick.time) /\ c.trades = 1
           /\ ~c.closed /\ c.late = (tick.time < clock)
<1>. DEFINE c == Aggregation!NewCandle(tick)
            given == <<tick>>
            start == Aggregation!Align(tick.time)
<1>1. /\ c.start = start /\ c.open = tick.price /\ c.high = tick.price /\ c.low = tick.price
      /\ c.close = tick.price /\ c.volume = tick.size /\ c.trades = 1 /\ c.last = tick.time
      /\ c.seen = {tick} /\ c.closed = FALSE /\ c.late = (tick.time < clock)
  BY DEF Aggregation!NewCandle
<1>2. tick.time \in Nat /\ tick.price \in Nat /\ tick.size \in Nat
  BY TicksTyped
<1>3. start \in Starts
  BY Aligned
<1>4. c \in Aggregation!Candle
  <2>1. 1 \in Nat /\ {tick} \in SUBSET Ticks /\ FALSE \in BOOLEAN /\ (tick.time < clock) \in BOOLEAN
    OBVIOUS
  <2>. HIDE DEF start
  <2>2. c = [start |-> start, open |-> tick.price, high |-> tick.price, low |-> tick.price,
             close |-> tick.price, volume |-> tick.size, trades |-> 1, last |-> tick.time,
             seen |-> {tick}, closed |-> FALSE, late |-> tick.time < clock]
    BY DEF Aggregation!NewCandle, start
  <2>. HIDE DEF c
  <2>3. QED
    BY <1>2, <1>3, <2>1, <2>2, Zenon DEF Aggregation!Candle
<1>5. given \in Seq(Ticks) /\ given # <<>> /\ given[1] = tick /\ DOMAIN given = {1}
  OBVIOUS
<1>6. IsFiniteSet({tick}) /\ Cardinality({tick}) = 1
  BY FS_Singleton
<1>7. c.volume = Aggregation!TradedSize(given)
  BY <1>1, FirstTrades
<1>. HIDE DEF c, given
<1>8. {given[k] : k \in DOMAIN given} = {tick}
  BY <1>5
<1>9. \A k \in DOMAIN given : /\ Aggregation!Align(given[k].time) = c.start /\ given[k].time <= c.last
                              /\ c.low <= given[k].price /\ given[k].price <= c.high
  BY <1>1, <1>2, <1>5 DEF start
<1>10. \E k \in DOMAIN given :
           /\ given[k].time = c.last /\ given[k].price = c.close
           /\ \A j \in 1..(k - 1) : given[j].time # c.last
  <2>1. 1 \in DOMAIN given /\ 1..(1 - 1) = {}
    BY <1>5
  <2>2. QED
    BY <1>1, <1>5, <2>1
<1>11. /\ c.seen = {given[k] : k \in DOMAIN given}
       /\ IsFiniteSet(c.seen) /\ c.trades = Cardinality(c.seen)
  BY <1>1, <1>6, <1>8
<1>12. MadeOf(c, given)
  BY <1>1, <1>5, <1>7, <1>9, <1>10, <1>11 DEF MadeOf
<1>13. QED
  BY <1>1, <1>4, <1>12 DEF c, given, start

LEMMA UpdateIsMade ==
    ASSUME NEW c \in Aggregation!Candle, NEW given, MadeOf(c, given),
           NEW tick \in Ticks, Aggregation!Align(tick.time) = c.start
    PROVE  LET u == Aggregation!UpdatedCandle(c, tick) IN
           /\ u \in Aggregation!Candle /\ MadeOf(u, Append(given, tick))
           /\ u.start = c.start /\ u.closed = c.closed /\ u.late = c.late
           /\ tick \in c.seen => u = c
<1>. DEFINE u == Aggregation!UpdatedCandle(c, tick)
            more == Append(given, tick)
            n == Len(given)
<1>1. /\ tick.time \in Nat /\ tick.price \in Nat /\ tick.size \in Nat
      /\ c.open \in Nat /\ c.high \in Nat /\ c.low \in Nat /\ c.close \in Nat /\ c.volume \in Nat
      /\ c.trades \in Nat /\ c.last \in Nat /\ c.seen \in SUBSET Ticks
  BY TicksTyped DEF Aggregation!Candle
<1>2. given \in Seq(Ticks) /\ given # <<>>
  BY DEF MadeOf
<1>3. /\ n \in Nat \ {0} /\ DOMAIN given = 1..n /\ more \in Seq(Ticks) /\ more # <<>>
      /\ DOMAIN more = 1..(n + 1) /\ more[n + 1] = tick
      /\ \A k \in 1..n : more[k] = given[k]
  BY <1>2
<1>4. (\E k \in DOMAIN given : given[k] = tick) <=> tick \in c.seen
  BY DEF MadeOf
<1>5. Aggregation!TradedSize(more)
          = Aggregation!TradedSize(given) + IF tick \in c.seen THEN 0 ELSE tick.size
  BY <1>2, <1>4, NextTrades
<1>. HIDE DEF more, n
<1>6. {more[k] : k \in DOMAIN more} = c.seen \cup {tick}
  <2>1. c.seen = {given[k] : k \in 1..n}
    BY <1>3 DEF MadeOf
  <2>2. QED
    BY <1>3, <2>1
<1>7. CASE tick \in c.seen
  <2>1. u = c
    BY <1>7 DEF Aggregation!UpdatedCandle
  <2>2. PICK m \in 1..n : given[m] = tick
    BY <1>3, <1>4, <1>7
  <2>3. \A k \in DOMAIN more : \E m1 \in DOMAIN given : more[k] = given[m1]
    BY <1>3, <2>2
  <2>4. \A k \in DOMAIN more : /\ Aggregation!Align(more[k].time) = c.start /\ more[k].time <= c.last
                               /\ c.low <= more[k].price /\ more[k].price <= c.high
    BY <2>3 DEF MadeOf
  <2>5. /\ \E k \in DOMAIN more : more[k].price = c.high
        /\ \E k \in DOMAIN more : more[k].price = c.low
    BY <1>3 DEF MadeOf
  <2>6. \E k \in DOMAIN more : /\ more[k].time = c.last /\ more[k].price = c.close
                               /\ \A j \in 1..(k - 1) : more[j].time # c.last
    BY <1>3 DEF MadeOf
  <2>7. /\ c.open = more[1].price /\ c.seen = {more[k] : k \in DOMAIN more}
        /\ IsFiniteSet(c.seen) /\ c.trades = Cardinality(c.seen)
    <3>1. c.seen \cup {tick} = c.seen
      BY <1>7
    <3>2. /\ c.open = given[1].price /\ IsFiniteSet(c.seen) /\ c.trades = Cardinality(c.seen)
      BY DEF MadeOf
    <3>3. QED
      BY <1>3, <1>6, <3>1, <3>2
  <2>8. c.volume = Aggregation!TradedSize(more)
    <3>1. c.volume = Aggregation!TradedSize(given)
      BY DEF MadeOf
    <3>2. QED
      BY <1>1, <1>5, <1>7, <3>1
  <2>9. MadeOf(c, more)
    BY <1>3, <2>4, <2>5, <2>6, <2>7, <2>8 DEF MadeOf
  <2>10. QED
    BY <2>1, <2>9 DEF more
<1>8. CASE tick \notin c.seen
  <2>. DEFINE high == IF c.high >= tick.price THEN c.high ELSE tick.price
              low == IF c.low <= tick.price THEN c.low ELSE tick.price
              close == IF tick.time > c.last THEN tick.price ELSE c.close
              last == IF c.last >= tick.time THEN c.last ELSE tick.time
  <2>1. u = [c EXCEPT !.high = high, !.low = low, !.close = close, !.last = last,
                      !.volume = c.volume + tick.size, !.trades = c.trades + 1,
                      !.seen = c.seen \cup {tick}]
    BY <1>1, <1>8, OfTwo DEF Aggregation!UpdatedCandle, Aggregation!Candle
  <2>2. /\ high \in Nat /\ low \in Nat /\ close \in Nat /\ last \in Nat
        /\ c.volume + tick.size \in Nat /\ c.trades + 1 \in Nat
    BY <1>1
  <2>2a. c.seen \cup {tick} \in SUBSET Ticks
    BY <1>1
  <2>3. /\ high >= c.high /\ high >= tick.price /\ high \in {c.high, tick.price}
        /\ low <= c.low /\ low <= tick.price /\ low \in {c.low, tick.price}
        /\ c.last <= last /\ tick.time <= last
        /\ IF tick.time > c.last THEN last = tick.time /\ close = tick.price
                                 ELSE last = c.last /\ close = c.close
    BY <1>1
  <2>. HIDE DEF high, low, close, last
  <2>4. u \in Aggregation!Candle
    BY <2>1, <2>2, <2>2a DEF Aggregation!Candle
  <2>5. /\ u.start = c.start /\ u.open = c.open /\ u.closed = c.closed /\ u.late = c.late
        /\ u.high = high /\ u.low = low /\ u.close = close /\ u.last = last
        /\ u.volume = c.volume + tick.size /\ u.trades = c.trades + 1
        /\ u.seen = c.seen \cup {tick}
    BY <2>1 DEF Aggregation!Candle
  <2>. HIDE DEF u
  <2>6. ASSUME NEW k \in DOMAIN more
        PROVE  /\ Aggregation!Align(more[k].time) = u.start /\ more[k].time <= u.last
               /\ u.low <= more[k].price /\ more[k].price <= u.high
    <3>1. CASE k = n + 1
      BY <1>1, <1>3, <2>2, <2>3, <2>5, <3>1
    <3>2. CASE k # n + 1
      <4>1. k \in DOMAIN given /\ more[k] = given[k]
        BY <1>3, <3>2
      <4>2. given[k].time \in Nat /\ given[k].price \in Nat
        BY <1>2, <4>1, TicksTyped
      <4>3. /\ Aggregation!Align(given[k].time) = c.start /\ given[k].time <= c.last
            /\ c.low <= given[k].price /\ given[k].price <= c.high
        BY <4>1 DEF MadeOf
      <4>4. QED
        BY <1>1, <2>2, <2>3, <2>5, <4>1, <4>2, <4>3
    <3>3. QED
      BY <3>1, <3>2
  <2>7. /\ \E k \in DOMAIN more : more[k].price = u.high
        /\ \E k \in DOMAIN more : more[k].price = u.low
    <3>1. /\ \A k \in DOMAIN given : k \in DOMAIN more /\ more[k].price = given[k].price
          /\ n + 1 \in DOMAIN more /\ more[n + 1].price = tick.price
      BY <1>3
    <3>2. /\ \E k \in DOMAIN given : given[k].price = c.high
          /\ \E k \in DOMAIN given : given[k].price = c.low
      BY DEF MadeOf
    <3>3. u.high \in {c.high, tick.price} /\ u.low \in {c.low, tick.price}
      BY <2>3, <2>5
    <3>4. QED
      BY <3>1, <3>2, <3>3
  <2>8. \E k \in DOMAIN more : /\ more[k].time = u.last /\ more[k].price = u.close
                               /\ \A j \in 1..(k - 1) : more[j].time # u.last
    <3>1. CASE tick.time > c.last
      <4>1. n + 1 \in DOMAIN more /\ (n + 1) - 1 = n
        BY <1>3
      <4>2. ASSUME NEW j \in 1..n PROVE more[j].time # u.last
        <5>1. given[j].time <= c.last /\ given[j].time \in Nat
          <6>1. j \in DOMAIN given /\ given[j] \in Ticks
            BY <1>2, <1>3
          <6>2. QED
            BY <6>1, TicksTyped DEF MadeOf
        <5>2. more[j].time = given[j].time /\ u.last = tick.time
          BY <1>3, <2>3, <2>5, <3>1
        <5>3. QED
          BY <1>1, <3>1, <5>1, <5>2
      <4>3. more[n + 1].time = u.last /\ more[n + 1].price = u.close
        BY <1>3, <2>3, <2>5, <3>1
      <4>4. QED
        BY <4>1, <4>2, <4>3
    <3>2. CASE ~(tick.time > c.last)
      <4>1. u.last = c.last /\ u.close = c.close
        BY <2>3, <2>5, <3>2
      <4>2. PICK k \in DOMAIN given : /\ given[k].time = c.last /\ given[k].price = c.close
                                      /\ \A j \in 1..(k - 1) : given[j].time # c.last
        BY DEF MadeOf
      <4>3. k \in DOMAIN more /\ more[k] = given[k] /\ \A j \in 1..(k - 1) : more[j] = given[j]
        BY <1>3
      <4>4. QED
        BY <4>1, <4>2, <4>3
    <3>3. QED
      BY <3>1, <3>2
  <2>9. IsFiniteSet(u.seen) /\ u.trades = Cardinality(u.seen)
    <3>1. IsFiniteSet(c.seen) /\ c.trades = Cardinality(c.seen)
      BY DEF MadeOf
    <3>2. QED
      BY <1>8, <2>5, <3>1, FS_AddElement
  <2>10. u.open = more[1].price
    BY <1>3, <2>5 DEF MadeOf
  <2>11. u.volume = Aggregation!TradedSize(more)
    BY <1>5, <1>8, <2>5 DEF MadeOf
  <2>12. MadeOf(u, more)
    BY <1>3, <1>6, <2>5, <2>6, <2>7, <2>8, <2>9, <2>10, <2>11 DEF MadeOf
  <2>13. QED
    BY <1>8, <2>4, <2>5, <2>12 DEF more, u
<1>9. QED
  BY <1>7, <1>8


-----------------------------------------------------------------------------
(* Candles are closed, given a tick, or opened. *)
LEMMA ClosedCandles ==
    ASSUME NEW cs \in Seq(Aggregation!Candle), NEW ids
    PROVE  LET cs2 == Aggregation!Closed(cs, ids) IN
           /\ cs2 \in Seq(Aggregation!Candle) /\ Len(cs2) = Len(cs) /\ DOMAIN cs2 = DOMAIN cs
           /\ \A i \in DOMAIN cs :
                  /\ cs2[i] = IF i \in ids THEN [cs[i] EXCEPT !.closed = TRUE] ELSE cs[i]
                  /\ cs2[i].closed = (cs[i].closed \/ i \in ids)
                  /\ cs2[i].start = cs[i].start /\ cs2[i].late = cs[i].late
           /\ ids = {} => cs2 = cs
<1>. DEFINE cs2 == Aggregation!Closed(cs, ids)
<1>1. /\ cs2 = [i \in DOMAIN cs |-> IF i \in ids THEN [cs[i] EXCEPT !.closed = TRUE] ELSE cs[i]]
      /\ Len(cs) \in Nat /\ DOMAIN cs = 1..Len(cs)
  BY DEF Aggregation!Closed
<1>. HIDE DEF cs2
<1>2. \A i \in DOMAIN cs : cs[i] \in Aggregation!Candle
  OBVIOUS
<1>3. \A c \in Aggregation!Candle :
          /\ [c EXCEPT !.closed = TRUE] \in Aggregation!Candle
          /\ c.closed \in BOOLEAN /\ [c EXCEPT !.closed = TRUE].closed = TRUE
          /\ [c EXCEPT !.closed = TRUE].start = c.start /\ [c EXCEPT !.closed = TRUE].late = c.late
  BY DEF Aggregation!Candle
<1>4. cs2 \in [1..Len(cs) -> Aggregation!Candle]
  BY <1>1, <1>2, <1>3
<1>5. cs2 \in Seq(Aggregation!Candle) /\ Len(cs2) = Len(cs) /\ DOMAIN cs2 = DOMAIN cs
  BY <1>1, <1>4
<1>6. ASSUME NEW i \in DOMAIN cs
      PROVE  /\ cs2[i] = IF i \in ids THEN [cs[i] EXCEPT !.closed = TRUE] ELSE cs[i]
             /\ cs2[i].closed = (cs[i].closed \/ i \in ids)
             /\ cs2[i].start = cs[i].start /\ cs2[i].late = cs[i].late
  BY <1>1, <1>2, <1>3
<1>7. ASSUME ids = {} PROVE cs2 = cs
  <2>1. \A i \in 1..Len(cs) : cs2[i] = cs[i]
    BY <1>1, <1>7
  <2>2. QED
    BY <1>5, <2>1
<1>8. QED
  BY <1>5, <1>6, <1>7 DEF cs2

(* What a candle is made of does not tell whether it is closed. *)
LEMMA ClosedIsMade ==
    ASSUME NEW c \in Aggregation!Candle, NEW given, MadeOf(c, given)
    PROVE  MadeOf([c EXCEPT !.closed = TRUE], given)
<1>. DEFINE d == [c EXCEPT !.closed = TRUE]
<1>1. /\ d.start = c.start /\ d.open = c.open /\ d.high = c.high /\ d.low = c.low /\ d.close = c.close
      /\ d.volume = c.volume /\ d.trades = c.trades /\ d.last = c.last /\ d.seen = c.seen
  BY DEF Aggregation!Candle
<1>. HIDE DEF d
<1>2. MadeOf(d, given)
  BY <1>1 DEF MadeOf
<1>3. QED
  BY <1>2 DEF d

LEMMA ClosingKeeps ==
    ASSUME NEW cs, NEW ar, NEW ck, NEW sw, CandlesKept(cs, ar, ck, sw),
           NEW at \in Nat, NEW ids \in SUBSET Aggregation!Pending(cs, at),
           NEW ck2 \in Nat, ck <= ck2, at <= ck2, NEW sw2 \in Nat, sw2 <= ck2,
           \/ sw2 = sw
           \/ ids = Aggregation!Pending(cs, at) /\ sw2 = IF sw >= at THEN sw ELSE at
    PROVE  CandlesKept(Aggregation!Closed(cs, ids), ar, ck2, sw2)
<1>. DEFINE cs2 == Aggregation!Closed(cs, ids)
<1>1. /\ cs \in Seq(Aggregation!Candle) /\ Len(cs) <= MaxCandles /\ ck \in Nat /\ sw \in Nat
      /\ ar \in Seq(Seq(Ticks)) /\ Len(ar) = Len(cs)
      /\ \A i \in DOMAIN cs : MadeOf(cs[i], ar[i]) /\ Timely(cs[i], ck, sw)
      /\ OneOpen(cs)
  BY DEF CandlesKept
<1>2. /\ cs2 \in Seq(Aggregation!Candle) /\ Len(cs2) = Len(cs) /\ DOMAIN cs2 = DOMAIN cs
      /\ \A i \in DOMAIN cs :
             /\ cs2[i] = IF i \in ids THEN [cs[i] EXCEPT !.closed = TRUE] ELSE cs[i]
             /\ cs2[i].closed = (cs[i].closed \/ i \in ids)
             /\ cs2[i].start = cs[i].start /\ cs2[i].late = cs[i].late
  BY <1>1, ClosedCandles
<1>. HIDE DEF cs2
<1>3. \A i \in ids : i \in DOMAIN cs /\ Aggregation!End(cs[i].start) <= at
  BY DEF Aggregation!Pending, Aggregation!Open
<1>4. \A i \in DOMAIN cs : cs[i] \in Aggregation!Candle /\ Aggregation!End(cs[i].start) \in Nat
  <2>1. TAKE i \in DOMAIN cs
  <2>2. cs[i] \in Aggregation!Candle
    BY <1>1
  <2>3. cs[i].start \in Nat
    BY <2>2, TicksTyped DEF Aggregation!Candle
  <2>4. QED
    BY <2>2, <2>3, TicksTyped DEF Aggregation!End
<1>5. \A i \in DOMAIN cs2 : MadeOf(cs2[i], ar[i])
  <2>1. TAKE i \in DOMAIN cs2
  <2>2. i \in DOMAIN cs /\ MadeOf(cs[i], ar[i]) /\ cs[i] \in Aggregation!Candle
    BY <1>1, <1>2, <1>4
  <2>3. MadeOf([cs[i] EXCEPT !.closed = TRUE], ar[i])
    BY <2>2, ClosedIsMade
  <2>4. cs2[i] = [cs[i] EXCEPT !.closed = TRUE] \/ cs2[i] = cs[i]
    BY <1>2, <2>2
  <2>5. QED
    BY <2>2, <2>3, <2>4
<1>6. ASSUME NEW i \in DOMAIN cs2 PROVE Timely(cs2[i], ck2, sw2)
  <2>. DEFINE end == Aggregation!End(cs[i].start)
  <2>1. end \in Nat /\ Aggregation!End(cs2[i].start) = end
    BY <1>2, <1>4
  <2>2. Timely(cs[i], ck, sw)
    BY <1>1, <1>2
  <2>3. cs2[i].closed => end <= ck2
    <3>1. cs[i].closed => end <= ck
      BY <2>2 DEF Timely
    <3>2. i \in ids => end <= at
      BY <1>3
    <3>3. cs2[i].closed => cs[i].closed \/ i \in ids
      BY <1>2
    <3>. HIDE DEF end
    <3>4. (end <= ck \/ end <= at) => end <= ck2
      BY <1>1, <2>1
    <3>5. QED
      BY <3>1, <3>2, <3>3, <3>4
  <2>4. ~cs2[i].closed /\ end <= sw2 => cs2[i].late
    <3>1. SUFFICES ASSUME ~cs2[i].closed, end <= sw2 PROVE cs[i].late
      BY <1>2
    <3>2. ~cs[i].closed /\ i \notin ids
      BY <1>2, <3>1
    <3>3. end <= sw => cs[i].late
      BY <2>2, <3>2 DEF Timely
    <3>4. ids = Aggregation!Pending(cs, at) => ~(end <= at)
      BY <1>2, <2>1, <3>2 DEF Aggregation!Pending, Aggregation!Open
    <3>. HIDE DEF end
    <3>5. QED
      BY <1>1, <2>1, <3>1, <3>3, <3>4
  <2>5. QED
    BY <2>1, <2>3, <2>4 DEF Timely
<1>7. OneOpen(cs2)
  BY <1>1, <1>2 DEF OneOpen
<1>8. CandlesKept(cs2, ar, ck2, sw2)
  BY <1>1, <1>2, <1>5, <1>6, <1>7 DEF CandlesKept
<1>9. QED
  BY <1>8 DEF cs2

LEMMA TickKeeps ==
    ASSUME NEW cs, NEW ar, NEW ck, NEW sw, CandlesKept(cs, ar, ck, sw),
           NEW tick \in Ticks, NEW i \in DOMAIN cs, cs[i].start = Aggregation!Align(tick.time)
    PROVE  LET u == Aggregation!UpdatedCandle(cs[i], tick) IN
           /\ CandlesKept([cs EXCEPT ![i] = u], [ar EXCEPT ![i] = Append(@, tick)], ck, sw)
           /\ u.closed = cs[i].closed /\ u.late = cs[i].late
           /\ tick \in cs[i].seen => u = cs[i]
<1>. DEFINE u == Aggregation!UpdatedCandle(cs[i], tick)
            cs2 == [cs EXCEPT ![i] = u]
            more == Append(ar[i], tick)
            ar2 == [ar EXCEPT ![i] = more]
<1>1. /\ cs \in Seq(Aggregation!Candle) /\ Len(cs) <= MaxCandles /\ ck \in Nat /\ sw \in Nat /\ sw <= ck
      /\ ar \in Seq(Seq(Ticks)) /\ Len(ar) = Len(cs)
      /\ \A k \in DOMAIN cs : MadeOf(cs[k], ar[k]) /\ Timely(cs[k], ck, sw)
      /\ OneOpen(cs)
  BY DEF CandlesKept
<1>2. /\ i \in 1..Len(cs) /\ i \in 1..Len(ar) /\ cs[i] \in Aggregation!Candle /\ ar[i] \in Seq(Ticks)
      /\ DOMAIN cs = 1..Len(cs)
  BY <1>1
<1>3. /\ u \in Aggregation!Candle /\ MadeOf(u, more)
      /\ u.start = cs[i].start /\ u.closed = cs[i].closed /\ u.late = cs[i].late
      /\ tick \in cs[i].seen => u = cs[i]
  BY <1>1, <1>2, UpdateIsMade
<1>4. more \in Seq(Ticks)
  BY <1>2
<1>. HIDE DEF u, more
<1>5. /\ cs2 \in Seq(Aggregation!Candle) /\ Len(cs2) = Len(cs) /\ DOMAIN cs2 = DOMAIN cs
      /\ cs2[i] = u /\ \A k \in DOMAIN cs : k # i => cs2[k] = cs[k]
  BY <1>1, <1>2, <1>3
<1>6. /\ ar2 \in Seq(Seq(Ticks)) /\ Len(ar2) = Len(ar)
      /\ ar2[i] = more /\ \A k \in DOMAIN cs : k # i => ar2[k] = ar[k]
  BY <1>1, <1>2, <1>4
<1>. HIDE DEF cs2, ar2
<1>7. \A k \in DOMAIN cs : cs2[k].start = cs[k].start /\ cs2[k].closed = cs[k].closed /\ cs2[k].late = cs[k].late
  BY <1>3, <1>5
<1>8. \A k \in DOMAIN cs2 : MadeOf(cs2[k], ar2[k]) /\ Timely(cs2[k], ck, sw)
  <2>1. TAKE k \in DOMAIN cs2
  <2>2. Timely(cs2[k], ck, sw)
    BY <1>1, <1>5, <1>7 DEF Timely
  <2>3. MadeOf(cs2[k], ar2[k])
    BY <1>1, <1>3, <1>5, <1>6
  <2>4. QED
    BY <2>2, <2>3
<1>9. OneOpen(cs2)
  BY <1>1, <1>5, <1>7 DEF OneOpen
<1>10. CandlesKept(cs2, ar2, ck, sw)
  BY <1>1, <1>5, <1>6, <1>8, <1>9 DEF CandlesKept
<1>11. QED
  BY <1>3, <1>10 DEF cs2, ar2, u, more

LEMMA OpeningKeeps ==
    ASSUME NEW cs, NEW ar, NEW ck, NEW sw, CandlesKept(cs, ar, ck, sw),
           NEW tick \in Ticks, Len(cs) + 1 <= MaxCandles,
           \A i \in DOMAIN cs : cs[i].start = Aggregation!Align(tick.time) => cs[i].closed /\ tick.time < clock,
           Aggregation!End(Aggregation!Align(tick.time)) <= sw => tick.time < clock
    PROVE  CandlesKept(Append(cs, Aggregation!NewCandle(tick)), Append(ar, <<tick>>), ck, sw)
<1>. DEFINE c == Aggregation!NewCandle(tick)
            cs2 == Append(cs, c)
            ar2 == Append(ar, <<tick>>)
            n == Len(cs)
<1>1. /\ cs \in Seq(Aggregation!Candle) /\ Len(cs) <= MaxCandles /\ ck \in Nat /\ sw \in Nat /\ sw <= ck
      /\ ar \in Seq(Seq(Ticks)) /\ Len(ar) = Len(cs)
      /\ \A k \in DOMAIN cs : MadeOf(cs[k], ar[k]) /\ Timely(cs[k], ck, sw)
      /\ OneOpen(cs)
  BY DEF CandlesKept
<1>2. /\ c \in Aggregation!Candle /\ MadeOf(c, <<tick>>)
      /\ c.start = Aggregation!Align(tick.time) /\ ~c.closed /\ c.late = (tick.time < clock)
  BY NewIsMade
<1>3. <<tick>> \in Seq(Ticks)
  OBVIOUS
<1>. HIDE DEF c
<1>4. /\ cs2 \in Seq(Aggregation!Candle) /\ Len(cs2) = n + 1 /\ DOMAIN cs = 1..n /\ DOMAIN cs2 = 1..(n + 1)
      /\ n \in Nat /\ cs2[n + 1] = c /\ \A k \in 1..n : cs2[k] = cs[k]
  BY <1>1, <1>2
<1>5. /\ ar2 \in Seq(Seq(Ticks)) /\ Len(ar2) = n + 1
      /\ ar2[n + 1] = <<tick>> /\ \A k \in 1..n : ar2[k] = ar[k]
  BY <1>1, <1>3
<1>. HIDE DEF cs2, ar2, n
<1>6. \A k \in DOMAIN cs2 : MadeOf(cs2[k], ar2[k])
  <2>1. TAKE k \in DOMAIN cs2
  <2>2. CASE k = n + 1
    BY <1>2, <1>4, <1>5, <2>2
  <2>3. CASE k # n + 1
    <3>1. k \in DOMAIN cs /\ cs2[k] = cs[k] /\ ar2[k] = ar[k]
      BY <1>4, <1>5, <2>3
    <3>2. QED
      BY <1>1, <3>1
  <2>4. QED
    BY <2>2, <2>3
<1>7. Timely(c, ck, sw)
  BY <1>2 DEF Timely
<1>8. \A k \in DOMAIN cs2 : Timely(cs2[k], ck, sw)
  BY <1>1, <1>4, <1>7
<1>9. OneOpen(cs2)
  <2>1. SUFFICES ASSUME NEW i \in 1..(n + 1), NEW j \in 1..(n + 1), i < j, cs2[i].start = cs2[j].start
                 PROVE  cs2[i].closed /\ cs2[j].late
    BY <1>4 DEF OneOpen
  <2>2. CASE j = n + 1
    <3>1. i \in 1..n /\ cs2[i] = cs[i] /\ cs2[j] = c
      BY <1>4, <2>1, <2>2
    <3>2. QED
      BY <1>2, <1>4, <2>1, <3>1
  <2>3. CASE j # n + 1
    <3>1. i \in 1..n /\ j \in 1..n
      BY <1>4, <2>1, <2>3
    <3>2. QED
      BY <1>1, <1>4, <2>1, <3>1 DEF OneOpen
  <2>4. QED
    BY <2>2, <2>3
<1>10. CandlesKept(cs2, ar2, ck, sw)
  BY <1>1, <1>4, <1>5, <1>6, <1>8, <1>9 DEF CandlesKept, n
<1>11. QED
  BY <1>10 DEF cs2, ar2, c


-----------------------------------------------------------------------------
(* How the candles go on to cs in a call that then has to publish of those *)
(* it closed and the one its tick went into: nothing else is changed, no   *)
(* closed candle is, and one that is new is the one of the tick.           *)
GoOnTo(cs, closed, taken) ==
    /\ cs \in Seq(Aggregation!Candle) /\ Len(cs) <= MaxCandles
    /\ \A i \in closed : i \in DOMAIN cs /\ cs[i].closed
    /\ taken # 0 => taken \in DOMAIN cs
    /\ \A i \in DOMAIN candles :
           /\ i \in DOMAIN cs /\ cs[i].late = candles[i].late
           /\ candles[i].closed => cs[i] = candles[i]
           /\ cs[i] = candles[i] \/ i \in closed \/ i = taken
    /\ \A i \in DOMAIN cs \ DOMAIN candles :
           /\ i = taken /\ cs[i].trades = 1 /\ ~cs[i].closed
           /\ InTime(cs) => closed = {}

LEMMA EventIsTrue ==
    ASSUME NEW c \in Aggregation!Candle, NEW phase, phase = "closing" => c.closed
    PROVE  LET event == Aggregation!Event(c, phase) IN
           /\ event \in Telling /\ event.candle = Aggregation!Shown(c)
           /\ (event.kind = "closed") = c.closed
           /\ ~c.closed /\ c.trades = 1 => event.kind = "opened"
<1>1. Aggregation!Shown(c) \in [open : Nat, high : Nat, low : Nat, close : Nat, volume : Nat, trades : Nat]
  BY DEF Aggregation!Shown, Aggregation!Candle
<1>2. c.closed \in BOOLEAN
  BY DEF Aggregation!Candle
<1>3. /\ Aggregation!Kind(c, phase = "closing") \in {"opened", "updated", "closed"}
      /\ (Aggregation!Kind(c, phase = "closing") = "closed") = c.closed
      /\ ~c.closed /\ c.trades = 1 => Aggregation!Kind(c, phase = "closing") = "opened"
  BY <1>2 DEF Aggregation!Kind
<1>4. QED
  BY <1>1, <1>3 DEF Aggregation!Event, Telling

(* One more event, about the candle as it is, keeps what was told true. *)
LEMMA TellingKeeps ==
    ASSUME NEW c \in Aggregation!Candle, NEW events \in Seq(Telling), ToldClosed(c, events),
           NEW event \in Telling, event.candle = Aggregation!Shown(c),
           (event.kind = "closed") = c.closed
    PROVE  LET more == Append(events, event) IN
           /\ more \in Seq(Telling) /\ ToldClosed(c, more) /\ UpToDate(c, more)
           /\ more # <<>> /\ more[1] = IF events = <<>> THEN event ELSE events[1]
<1>. DEFINE more == Append(events, event)
            n == Len(events)
<1>1. /\ n \in Nat /\ DOMAIN events = 1..n /\ more \in Seq(Telling) /\ Len(more) = n + 1
      /\ DOMAIN more = 1..(n + 1) /\ more[n + 1] = event /\ \A k \in 1..n : more[k] = events[k]
      /\ more # <<>> /\ (events = <<>>) = (n = 0)
  OBVIOUS
<1>. HIDE DEF more, n
<1>2. ASSUME NEW k \in 1..(n + 1), more[k].kind = "closed"
      PROVE  /\ c.closed /\ more[k].candle = Aggregation!Shown(c)
             /\ \A m \in (k + 1)..(n + 1) : more[m].kind = "closed"
  <2>1. CASE k = n + 1
    <3>1. (k + 1)..(n + 1) = {}
      BY <1>1, <2>1
    <3>2. QED
      BY <1>1, <1>2, <2>1, <3>1
  <2>2. CASE k # n + 1
    <3>1. k \in 1..n /\ more[k] = events[k]
      BY <1>1, <2>2
    <3>2. /\ c.closed /\ events[k].candle = Aggregation!Shown(c)
          /\ \A m \in (k + 1)..n : events[m].kind = "closed"
      BY <1>1, <1>2, <3>1 DEF ToldClosed, n
    <3>3. \A m \in (k + 1)..(n + 1) : more[m].kind = "closed"
      <4>1. TAKE m \in (k + 1)..(n + 1)
      <4>2. CASE m = n + 1
        BY <1>1, <3>2, <4>2
      <4>3. CASE m # n + 1
        <5>1. m \in (k + 1)..n /\ m \in 1..n
          BY <1>1, <4>3
        <5>2. QED
          BY <1>1, <3>2, <5>1
      <4>4. QED
        BY <4>2, <4>3
    <3>4. QED
      BY <3>1, <3>2, <3>3
  <2>3. QED
    BY <2>1, <2>2
<1>3. ToldClosed(c, more)
  BY <1>1, <1>2 DEF ToldClosed
<1>4. UpToDate(c, more)
  BY <1>1 DEF UpToDate
<1>5. more[1] = IF events = <<>> THEN event ELSE events[1]
  <2>1. CASE n = 0
    BY <1>1, <2>1
  <2>2. CASE n # 0
    BY <1>1, <2>2
  <2>3. QED
    BY <2>1, <2>2
<1>6. QED
  BY <1>1, <1>3, <1>4, <1>5 DEF more

LEMMA PublishingKeeps ==
    ASSUME ToldKept(candles, told, call, swept), swept \in Nat,
           NEW t \in Tasks, NEW cs, NEW phase \in {"idle", "closing", "telling"},
           NEW tick \in {Aggregation!NoTick} \cup [tick : Ticks, session : BOOLEAN],
           NEW closed, NEW taken, NEW sw2 \in Nat, swept <= sw2,
           tick # Aggregation!NoTick => tick.tick.time <= sw2,
           GoOnTo(cs, closed, taken), taken # 0 => phase # "closing",
           closed # {} \/ taken # 0,
           call[t].closed \subseteq closed, call[t].taken \in {0, taken},
           Aggregation!Publishes(t, phase, tick, closed, taken, cs)
    PROVE  ToldKept(cs, told', call', sw2)
<1>. DEFINE next == IF closed = {} THEN taken ELSE Aggregation!Min(closed)
            left == closed \ {next}
            later == IF closed = {} THEN 0 ELSE taken
            record == [at |-> phase, tick |-> tick, closed |-> left, taken |-> later]
<1>1. /\ cs \in Seq(Aggregation!Candle) /\ Len(cs) \in Nat /\ Len(cs) <= MaxCandles
      /\ DOMAIN cs = 1..Len(cs) /\ DOMAIN cs \subseteq Nat \ {0}
      /\ \A i \in DOMAIN cs : cs[i] \in Aggregation!Candle
  BY DEF GoOnTo
<1>2. next \in closed \cup {taken} /\ next \in DOMAIN cs
  <2>1. closed \subseteq Nat
    BY <1>1 DEF GoOnTo
  <2>2. closed # {} => next \in closed
    BY <2>1, LeastOf
  <2>3. QED
    BY <2>2 DEF GoOnTo
<1>3. phase = "closing" => cs[next].closed
  BY <1>2 DEF GoOnTo
<1>4. /\ told' = [i \in DOMAIN cs |-> IF i = next
                      THEN Append(Aggregation!ToldOf(i), Aggregation!Event(cs[i], phase))
                      ELSE Aggregation!ToldOf(i)]
      /\ call' = [call EXCEPT ![t] = record]
  BY DEF Aggregation!Publishes
<1>. HIDE DEF next
<1>5. record \in Aggregation!Call
  <2>1. left \in SUBSET (1..MaxCandles) /\ later \in 0..MaxCandles
    BY <1>1, TicksTyped DEF GoOnTo
  <2>. HIDE DEF left, later
  <2>2. QED
    BY <2>1 DEF Aggregation!Call
<1>6. CallKept(record, cs, sw2)
  BY <1>5 DEF CallKept, GoOnTo
<1>. HIDE DEF record
<1>7. /\ call' \in [Tasks -> Aggregation!Call] /\ call'[t] = record
      /\ \A t2 \in Tasks : t2 # t => call'[t2] = call[t2]
  BY <1>4, <1>5 DEF ToldKept
<1>8. \A t2 \in Tasks : CallKept(call'[t2], cs, sw2)
  <2>1. TAKE t2 \in Tasks
  <2>2. CASE t2 = t
    BY <1>6, <1>7, <2>2
  <2>3. CASE t2 # t
    <3>1. CallKept(call[t2], candles, swept) /\ call'[t2] = call[t2]
      BY <1>7, <2>3 DEF ToldKept
    <3>2. \A i \in DOMAIN candles : candles[i].closed => i \in DOMAIN cs /\ cs[i].closed
      BY DEF GoOnTo
    <3>3. DOMAIN candles \subseteq DOMAIN cs
      BY DEF GoOnTo
    <3>4. call[t2].tick # Aggregation!NoTick => call[t2].tick.tick.time <= sw2
      <4>1. SUFFICES ASSUME call[t2].tick # Aggregation!NoTick PROVE call[t2].tick.tick.time <= sw2
        OBVIOUS
      <4>2. call[t2].tick.tick.time <= swept /\ call[t2].tick.tick \in Ticks
        BY <3>1, <4>1 DEF CallKept, Aggregation!Call
      <4>3. call[t2].tick.tick.time \in Nat
        BY <4>2, TicksTyped
      <4>4. QED
        BY <4>2, <4>3
    <3>5. QED
      BY <3>1, <3>2, <3>3, <3>4 DEF CallKept
  <2>4. QED
    BY <2>2, <2>3
<1>9. ASSUME NEW i \in DOMAIN cs
      PROVE  /\ told'[i] \in Seq(Telling) /\ ToldClosed(cs[i], told'[i])
             /\ UpToDate(cs[i], told'[i]) \/ ToPublish(call', i)
             /\ InTime(cs) => told'[i] # <<>> /\ told'[i][1].kind = "opened"
  <2>. DEFINE before == Aggregation!ToldOf(i)
              event == Aggregation!Event(cs[i], phase)
  <2>1. /\ before \in Seq(Telling) /\ ToldClosed(cs[i], before)
        /\ i \notin DOMAIN candles => before = <<>>
        /\ i \in DOMAIN candles => before = told[i]
    <3>1. DOMAIN told = DOMAIN candles
      BY DEF ToldKept
    <3>2. CASE i \in DOMAIN candles
      <4>1. before = told[i]
        BY <3>1, <3>2 DEF Aggregation!ToldOf
      <4>2. told[i] \in Seq(Telling) /\ ToldClosed(candles[i], told[i])
        BY <3>2 DEF ToldKept
      <4>3. candles[i].closed => cs[i] = candles[i]
        BY <3>2 DEF GoOnTo
      <4>4. ToldClosed(cs[i], told[i])
        BY <4>2, <4>3 DEF ToldClosed
      <4>5. QED
        BY <3>2, <4>1, <4>2, <4>4
    <3>3. CASE i \notin DOMAIN candles
      <4>1. before = <<>> /\ <<>> \in Seq(Telling) /\ DOMAIN (<<>>) = {}
        BY <3>1, <3>3 DEF Aggregation!ToldOf
      <4>2. ToldClosed(cs[i], <<>>)
        BY <4>1 DEF ToldClosed
      <4>3. QED
        BY <3>3, <4>1, <4>2
    <3>4. QED
      BY <3>2, <3>3
  <2>2. ASSUME InTime(cs), i \in DOMAIN candles PROVE before # <<>> /\ before[1].kind = "opened"
    <3>1. InTime(candles)
      BY <2>2 DEF InTime, GoOnTo
    <3>2. QED
      BY <2>1, <2>2, <3>1 DEF ToldKept
  <2>3. CASE i = next
    <3>1. told'[i] = Append(before, event)
      BY <1>4, <2>3
    <3>2. /\ event \in Telling /\ event.candle = Aggregation!Shown(cs[i])
          /\ (event.kind = "closed") = cs[i].closed
          /\ ~cs[i].closed /\ cs[i].trades = 1 => event.kind = "opened"
      BY <1>1, <1>3, <2>3, EventIsTrue
    <3>. HIDE DEF before, event
    <3>3. /\ told'[i] \in Seq(Telling) /\ ToldClosed(cs[i], told'[i]) /\ UpToDate(cs[i], told'[i])
          /\ told'[i] # <<>> /\ told'[i][1] = IF before = <<>> THEN event ELSE before[1]
      BY <1>1, <2>1, <3>1, <3>2, TellingKeeps
    <3>4. i \notin DOMAIN candles => event.kind = "opened" /\ before = <<>>
      BY <2>1, <3>2 DEF GoOnTo
    <3>5. QED
      BY <2>2, <3>3, <3>4
  <2>4. CASE i # next
    <3>1. told'[i] = before
      BY <1>4, <2>4
    <3>2. i \in closed \cup {taken} => i \in left \/ i = later
      BY <2>4 DEF next
    <3>3. i \in left \/ i = later => ToPublish(call', i)
      BY <1>7 DEF ToPublish, record
    <3>4. CASE i \notin DOMAIN candles
      <4>1. i = taken /\ (InTime(cs) => closed = {})
        BY <3>4 DEF GoOnTo
      <4>2. ~InTime(cs)
        BY <2>4, <4>1 DEF next
      <4>3. QED
        BY <2>1, <3>1, <3>2, <3>3, <4>1, <4>2
    <3>5. CASE i \in DOMAIN candles
      <4>1. UpToDate(cs[i], before) \/ ToPublish(call', i)
        <5>1. CASE i \in closed \cup {taken}
          BY <3>2, <3>3, <5>1
        <5>2. CASE i \notin closed \cup {taken}
          <6>1. cs[i] = candles[i]
            BY <3>5, <5>2 DEF GoOnTo
          <6>2. UpToDate(cs[i], before) \/ ToPublish(call, i)
            BY <2>1, <3>5, <6>1 DEF ToldKept
          <6>3. ASSUME NEW t2 \in Tasks, i \in call[t2].closed \/ i = call[t2].taken
                PROVE  ToPublish(call', i)
            <7>1. t2 # t
              BY <1>1, <5>2, <6>3
            <7>2. call'[t2] = call[t2]
              BY <1>7, <7>1
            <7>3. QED
              BY <6>3, <7>2 DEF ToPublish
          <6>4. QED
            BY <6>2, <6>3 DEF ToPublish
        <5>3. QED
          BY <5>1, <5>2
      <4>2. QED
        BY <2>1, <2>2, <3>1, <3>5, <4>1
    <3>6. QED
      BY <3>4, <3>5
  <2>5. QED
    BY <2>3, <2>4
<1>10. DOMAIN told' = DOMAIN cs
  BY <1>4
<1>11. QED
  BY <1>7, <1>8, <1>9, <1>10 DEF ToldKept

LEMMA ReturningKeeps ==
    ASSUME ToldKept(candles, told, call, swept), swept \in Nat, candles \in Seq(Aggregation!Candle),
           NEW t \in Tasks, NEW sw2 \in Nat, swept <= sw2,
           call[t].closed = {}, call[t].taken = 0,
           Aggregation!Returns(t)
    PROVE  ToldKept(candles, told', call', sw2)
<1>1. Aggregation!Idle \in Aggregation!Call
  <2>1. {} \in SUBSET (1..MaxCandles) /\ 0 \in 0..MaxCandles
    BY TicksTyped
  <2>2. QED
    BY <2>1 DEF Aggregation!Idle, Aggregation!Call
<1>2. CallKept(Aggregation!Idle, candles, sw2)
  BY <1>1 DEF CallKept, Aggregation!Idle
<1>3. /\ call' \in [Tasks -> Aggregation!Call] /\ call'[t] = Aggregation!Idle
      /\ \A t2 \in Tasks : t2 # t => call'[t2] = call[t2]
      /\ told' = told
  BY <1>1 DEF ToldKept, Aggregation!Returns
<1>4. \A t2 \in Tasks : CallKept(call'[t2], candles, sw2)
  <2>1. TAKE t2 \in Tasks
  <2>2. CASE t2 = t
    BY <1>2, <1>3, <2>2
  <2>3. CASE t2 # t
    <3>1. CallKept(call[t2], candles, swept) /\ call'[t2] = call[t2]
      BY <1>3, <2>3 DEF ToldKept
    <3>2. call[t2].tick # Aggregation!NoTick => call[t2].tick.tick.time <= sw2
      <4>1. SUFFICES ASSUME call[t2].tick # Aggregation!NoTick PROVE call[t2].tick.tick.time <= sw2
        OBVIOUS
      <4>2. call[t2].tick.tick.time <= swept /\ call[t2].tick.tick \in Ticks
        BY <3>1, <4>1 DEF CallKept, Aggregation!Call
      <4>3. call[t2].tick.tick.time \in Nat
        BY <4>2, TicksTyped
      <4>4. QED
        BY <4>2, <4>3
    <3>3. QED
      BY <3>1, <3>2 DEF CallKept
  <2>4. QED
    BY <2>2, <2>3
<1>5. ASSUME NEW i \in DOMAIN candles, ToPublish(call, i) PROVE ToPublish(call', i)
  <2>1. PICK t2 \in Tasks : i \in call[t2].closed \/ i = call[t2].taken
    BY <1>5 DEF ToPublish
  <2>2. i # 0
    OBVIOUS
  <2>3. t2 # t
    BY <2>1, <2>2
  <2>4. QED
    BY <1>3, <2>1, <2>3 DEF ToPublish
<1>6. QED
  BY <1>3, <1>4, <1>5 DEF ToldKept


-----------------------------------------------------------------------------
(* How the times the engine was told of go on when a call comes to take in *)
(* a tick: either the tick waited until the pending candles were           *)
(* published, or it has just come and nothing is pending.                  *)
TimeGoesOn(time) ==
    /\ clock' \in Nat /\ swept' \in Nat /\ clock <= clock' /\ swept <= swept' /\ swept' <= clock'
    /\ time <= clock' /\ time <= swept'
    /\ \/ swept' = swept
       \/ /\ Aggregation!Pending(candles, time) = {}
          /\ swept' = IF swept >= time THEN swept ELSE time

LEMMA NothingClosedKeeps ==
    ASSUME CandlesKept(candles, arrived, clock, swept), NEW time \in Nat, TimeGoesOn(time),
           candles' = candles, arrived' = arrived
    PROVE  CandlesKept(candles', arrived', clock', swept')
<1>1. {} \in SUBSET Aggregation!Pending(candles, time)
  OBVIOUS
<1>2. candles \in Seq(Aggregation!Candle)
  BY DEF CandlesKept
<1>3. CandlesKept(Aggregation!Closed(candles, {}), arrived, clock', swept')
  BY <1>1, ClosingKeeps DEF TimeGoesOn
<1>4. Aggregation!Closed(candles, {}) = candles
  BY <1>2, ClosedCandles
<1>5. QED
  BY <1>3, <1>4

LEMMA IngestSteps ==
    ASSUME CandlesKept(candles, arrived, clock, swept), ToldKept(candles, told, call, swept),
           NEW t \in Tasks, call[t].closed = {}, call[t].taken = 0,
           NEW tick \in Ticks, TimeGoesOn(tick.time), Aggregation!Ingest(t, tick, candles)
    PROVE  CandlesKept(candles', arrived', clock', swept') /\ ToldKept(candles', told', call', swept')
<1>. DEFINE pending == Aggregation!Pending(candles, tick.time)
            cs == Aggregation!Closed(candles, pending)
            start == Aggregation!Align(tick.time)
            mine == {i \in Aggregation!Open(cs) : cs[i].start = start}
            i == IF mine = {} THEN Len(cs) + 1 ELSE CHOOSE k \in mine : TRUE
            new == Aggregation!NewCandle(tick)
            next == IF mine = {} THEN Append(cs, new)
                    ELSE [cs EXCEPT ![i] = Aggregation!UpdatedCandle(@, tick)]
            taken == IF mine # {} /\ tick \in cs[i].seen THEN 0 ELSE i
<1>1. /\ Len(next) <= MaxCandles /\ candles' = next
      /\ arrived' = IF mine = {} THEN Append(arrived, <<tick>>) ELSE [arrived EXCEPT ![i] = Append(@, tick)]
      /\ IF pending = {} /\ taken = 0 THEN Aggregation!Returns(t)
         ELSE Aggregation!Publishes(t, "telling", Aggregation!NoTick, pending, taken, next)
  BY DEF Aggregation!Ingest
<1>2. /\ candles \in Seq(Aggregation!Candle) /\ Len(candles) <= MaxCandles
      /\ clock \in Nat /\ swept \in Nat /\ swept <= clock
      /\ \A k \in DOMAIN candles : Timely(candles[k], clock, swept)
  BY DEF CandlesKept
<1>3. tick.time \in Nat /\ clock' \in Nat /\ swept' \in Nat /\ clock <= clock' /\ swept <= swept'
      /\ swept' <= clock' /\ tick.time <= clock' /\ tick.time <= swept'
  BY TicksTyped DEF TimeGoesOn
<1>4. CandlesKept(cs, arrived, clock', swept')
  <2>1. pending \in SUBSET Aggregation!Pending(candles, tick.time)
    OBVIOUS
  <2>2. swept' = swept \/ swept' = IF swept >= tick.time THEN swept ELSE tick.time
    BY DEF TimeGoesOn
  <2>. HIDE DEF pending
  <2>3. pending = Aggregation!Pending(candles, tick.time)
    BY DEF pending
  <2>4. QED
    BY <1>3, <2>1, <2>2, <2>3, ClosingKeeps
<1>5. /\ cs \in Seq(Aggregation!Candle) /\ Len(cs) = Len(candles) /\ DOMAIN cs = DOMAIN candles
      /\ DOMAIN cs = 1..Len(cs) /\ Len(cs) \in Nat
      /\ \A k \in DOMAIN candles :
             /\ cs[k] = IF k \in pending THEN [candles[k] EXCEPT !.closed = TRUE] ELSE candles[k]
             /\ cs[k].closed = (candles[k].closed \/ k \in pending)
             /\ cs[k].start = candles[k].start /\ cs[k].late = candles[k].late
  BY <1>2, ClosedCandles
<1>6. start \in Nat /\ start <= tick.time /\ tick.time < Aggregation!End(start)
      /\ Aggregation!End(start) \in Nat
  BY <1>3, Aligned, TicksTyped DEF Aggregation!End
<1>7. /\ pending \subseteq DOMAIN candles
      /\ \A k \in pending : ~candles[k].closed /\ tick.time >= Aggregation!End(candles[k].start)
  BY DEF Aggregation!Pending, Aggregation!Open
<1>. HIDE DEF cs, pending, start
<1>8. \A k \in DOMAIN candles : /\ cs[k].closed => candles[k].closed \/ k \in pending
                                /\ k \in pending => cs[k].closed
  BY <1>5
<1>9. \A k \in DOMAIN candles : /\ candles[k].closed => k \notin pending
                                /\ k \notin pending => cs[k] = candles[k]
  BY <1>5, <1>7
<1>10. Aggregation!NoTick \in {Aggregation!NoTick} \cup [tick : Ticks, session : BOOLEAN]
  OBVIOUS
<1>11. CASE mine = {}
  <2>1. /\ i = Len(cs) + 1 /\ next = Append(cs, new) /\ taken = i /\ taken # 0
        /\ i \notin DOMAIN cs
    BY <1>5, <1>11
  <2>2. ASSUME NEW k \in DOMAIN cs, cs[k].start = start
        PROVE  cs[k].closed /\ tick.time < clock
    <3>1. cs[k].closed
      BY <1>5, <1>11, <2>2 DEF Aggregation!Open
    <3>2. k \notin pending
      BY <1>5, <1>6, <1>7, <2>2, <1>3
    <3>3. candles[k].closed
      BY <1>5, <1>8, <3>1, <3>2
    <3>4. Aggregation!End(start) <= clock
      BY <1>2, <1>5, <2>2, <3>3 DEF Timely
    <3>5. QED
      BY <1>2, <1>3, <1>6, <3>1, <3>4
  <2>3. Aggregation!End(start) <= swept' => tick.time < clock
    <3>1. swept' = swept \/ swept' = IF swept >= tick.time THEN swept ELSE tick.time
      BY DEF TimeGoesOn
    <3>2. QED
      BY <1>2, <1>3, <1>6, <3>1
  <2>6. new \in Aggregation!Candle /\ new.trades = 1 /\ ~new.closed
    BY NewIsMade
  <2>. DEFINE more == Append(cs, new)
  <2>4. Len(more) <= MaxCandles /\ candles' = more /\ arrived' = Append(arrived, <<tick>>)
    BY <1>1, <1>11, <2>1
  <2>4a. next = more
    BY <2>1
  <2>. HIDE DEF next, new, i, taken, mine
  <2>4b. /\ DOMAIN more = 1..(Len(cs) + 1) /\ Len(more) = Len(cs) + 1 /\ more[Len(cs) + 1] = new
         /\ more \in Seq(Aggregation!Candle) /\ \A k \in 1..Len(cs) : more[k] = cs[k]
    BY <1>5, <2>6
  <2>5. CandlesKept(candles', arrived', clock', swept')
    BY <1>4, <2>2, <2>3, <2>4, <2>4b, OpeningKeeps DEF start, new
  <2>7. /\ DOMAIN next = 1..(Len(cs) + 1) /\ next[i] = new /\ \A k \in DOMAIN cs : next[k] = cs[k]
        /\ next \in Seq(Aggregation!Candle) /\ i \in DOMAIN next
    BY <1>5, <2>1, <2>4a, <2>4b
  <2>8. InTime(next) => pending = {}
    <3>1. SUFFICES ASSUME InTime(next), NEW k \in pending PROVE FALSE
      OBVIOUS
    <3>2. k \in DOMAIN cs /\ ~candles[k].closed /\ ~candles[k].late
      <4>1. k \in DOMAIN cs /\ k \in DOMAIN next
        BY <1>5, <1>7, <2>7, <3>1
      <4>2. ~next[k].late
        BY <3>1, <4>1 DEF InTime
      <4>3. QED
        BY <1>5, <1>7, <2>7, <3>1, <4>1, <4>2
    <3>3. swept' = swept
      BY <3>1 DEF TimeGoesOn, pending
    <3>4. Aggregation!End(candles[k].start) <= swept
      <4>0. candles[k] \in Aggregation!Candle
        BY <1>2, <1>5, <3>2
      <4>1. candles[k].start \in Nat
        BY <4>0, TicksTyped DEF Aggregation!Candle
      <4>2. Aggregation!End(candles[k].start) \in Nat
        BY <4>1, TicksTyped DEF Aggregation!End
      <4>3. QED
        BY <1>2, <1>3, <1>7, <3>1, <3>3, <4>2
    <3>5. QED
      BY <1>2, <1>5, <3>2, <3>4 DEF Timely
  <2>9. GoOnTo(next, pending, taken)
    <3>1. \A k \in pending : k \in DOMAIN next /\ next[k].closed
      BY <1>5, <1>7, <1>8, <2>7
    <3>2. \A k \in DOMAIN candles :
              /\ k \in DOMAIN next /\ next[k].late = candles[k].late
              /\ candles[k].closed => next[k] = candles[k]
              /\ next[k] = candles[k] \/ k \in pending \/ k = taken
      BY <1>5, <1>9, <2>7
    <3>3. \A k \in DOMAIN next \ DOMAIN candles :
              /\ k = taken /\ next[k].trades = 1 /\ ~next[k].closed
              /\ InTime(next) => pending = {}
      <4>1. TAKE k \in DOMAIN next \ DOMAIN candles
      <4>2. k = i
        BY <1>5, <2>1, <2>7
      <4>3. QED
        BY <2>1, <2>6, <2>7, <2>8, <4>2
    <3>4. QED
      BY <1>1, <2>1, <2>7, <3>1, <3>2, <3>3 DEF GoOnTo
  <2>10. Aggregation!Publishes(t, "telling", Aggregation!NoTick, pending, taken, next)
    BY <1>1, <2>1
  <2>11. ToldKept(next, told', call', swept')
    BY <1>2, <1>3, <1>10, <2>1, <2>9, <2>10, PublishingKeeps
  <2>12. QED
    BY <1>1, <2>5, <2>11
<1>12. CASE mine # {}
  <2>. DEFINE u == Aggregation!UpdatedCandle(cs[i], tick)
  <2>1. /\ i \in DOMAIN cs /\ ~cs[i].closed /\ cs[i].start = start
        /\ next = [cs EXCEPT ![i] = u]
        /\ taken = IF tick \in cs[i].seen THEN 0 ELSE i
    <3>1. i \in mine
      BY <1>12
    <3>2. QED
      BY <1>12, <3>1 DEF Aggregation!Open
  <2>2. arrived' = [arrived EXCEPT ![i] = Append(@, tick)]
    BY <1>1, <1>12
  <2>. HIDE DEF i, mine
  <2>3. /\ CandlesKept(next, arrived', clock', swept')
        /\ u.closed = cs[i].closed /\ u.late = cs[i].late
        /\ tick \in cs[i].seen => u = cs[i]
    <3>1. cs[i].start = Aggregation!Align(tick.time)
      BY <2>1 DEF start
    <3>2. /\ CandlesKept([cs EXCEPT ![i] = u], [arrived EXCEPT ![i] = Append(@, tick)], clock', swept')
          /\ u.closed = cs[i].closed /\ u.late = cs[i].late
          /\ tick \in cs[i].seen => u = cs[i]
      BY <1>4, <2>1, <3>1, TickKeeps
    <3>. HIDE DEF next, u
    <3>3. QED
      BY <2>1, <2>2, <3>2
  <2>4. /\ next \in Seq(Aggregation!Candle) /\ DOMAIN next = DOMAIN cs /\ next[i] = u
        /\ \A k \in DOMAIN cs : k # i => next[k] = cs[k]
    BY <2>1, <2>3 DEF CandlesKept
  <2>5. i \notin pending /\ cs[i] = candles[i] /\ i # 0
    <3>1. i \in DOMAIN candles /\ i # 0
      <4>1. i \in DOMAIN cs
        BY <2>1
      <4>2. i \in 1..Len(cs)
        BY <1>5, <4>1
      <4>3. i # 0
        BY <4>2
      <4>4. QED
        BY <1>5, <4>1, <4>3
    <3>2. i \notin pending
      BY <1>8, <2>1, <3>1
    <3>3. QED
      BY <1>9, <3>1, <3>2
  <2>. HIDE DEF next, u, taken
  <2>6. CASE pending = {} /\ taken = 0
    <3>1. u = cs[i]
      BY <2>1, <2>3, <2>5, <2>6
    <3>2. \A k \in 1..Len(candles) : next[k] = candles[k]
      BY <1>5, <1>9, <2>4, <2>5, <2>6, <3>1
    <3>3. next = candles
      <4>1. Len(next) = Len(candles)
        BY <1>5, <2>4, <1>2
      <4>2. QED
        BY <1>2, <2>4, <3>2, <4>1
    <3>4. Aggregation!Returns(t)
      BY <1>1, <2>6
    <3>5. ToldKept(candles, told', call', swept')
      BY <1>2, <1>3, <3>4, ReturningKeeps
    <3>6. QED
      BY <1>1, <2>3, <3>3, <3>5
  <2>7. CASE ~(pending = {} /\ taken = 0)
    <3>1. taken = 0 => u = cs[i]
      BY <2>1, <2>3, <2>5
    <3>2. taken # 0 => taken = i
      BY <2>1
    <3>3. \A k \in pending : k \in DOMAIN next /\ next[k].closed
      BY <1>5, <1>7, <1>8, <2>4, <2>5
    <3>4. \A k \in DOMAIN candles :
              /\ k \in DOMAIN next /\ next[k].late = candles[k].late
              /\ candles[k].closed => next[k] = candles[k]
              /\ next[k] = candles[k] \/ k \in pending \/ k = taken
      <4>1. TAKE k \in DOMAIN candles
      <4>2. CASE k = i
        BY <1>5, <2>1, <2>3, <2>4, <2>5, <3>1, <3>2, <4>2
      <4>3. CASE k # i
        BY <1>5, <1>9, <2>4, <4>3
      <4>4. QED
        BY <4>2, <4>3
    <3>5. GoOnTo(next, pending, taken)
      BY <1>1, <1>5, <2>1, <2>4, <3>2, <3>3, <3>4 DEF GoOnTo
    <3>6. Aggregation!Publishes(t, "telling", Aggregation!NoTick, pending, taken, next)
      BY <1>1, <2>7
    <3>7. ToldKept(next, told', call', swept')
      BY <1>2, <1>3, <1>10, <2>7, <3>5, <3>6, PublishingKeeps
    <3>8. QED
      BY <1>1, <2>3, <3>7
  <2>8. QED
    BY <2>6, <2>7
<1>13. QED
  BY <1>11, <1>12


LEMMA TakesInSteps ==
    ASSUME CandlesKept(candles, arrived, clock, swept), ToldKept(candles, told, call, swept),
           NEW t \in Tasks, call[t].closed = {}, call[t].taken = 0,
           NEW tick \in Ticks, NEW session, TimeGoesOn(tick.time),
           Aggregation!TakesIn(t, tick, candles, session)
    PROVE  CandlesKept(candles', arrived', clock', swept') /\ ToldKept(candles', told', call', swept')
<1>1. CASE session /\ tick.time % Day \notin Session
  <2>1. candles' = candles /\ arrived' = arrived /\ Aggregation!Returns(t)
    BY <1>1 DEF Aggregation!TakesIn
  <2>2. tick.time \in Nat
    BY TicksTyped
  <2>3. CandlesKept(candles', arrived', clock', swept')
    BY <2>1, <2>2, NothingClosedKeeps
  <2>4. swept \in Nat /\ candles \in Seq(Aggregation!Candle) /\ swept' \in Nat /\ swept <= swept'
    BY DEF CandlesKept, TimeGoesOn
  <2>5. ToldKept(candles, told', call', swept')
    BY <2>1, <2>4, ReturningKeeps
  <2>6. QED
    BY <2>1, <2>3, <2>5
<1>2. CASE ~(session /\ tick.time % Day \notin Session)
  BY <1>2, IngestSteps DEF Aggregation!TakesIn
<1>3. QED
  BY <1>1, <1>2

LEMMA IdleWaits ==
    ASSUME NEW t, call[t] = Aggregation!Idle
    PROVE  call[t].closed = {} /\ call[t].taken = 0
BY DEF Aggregation!Idle

(* What is pending is closed and has to be published. *)
LEMMA ClosingSteps ==
    ASSUME CandlesKept(candles, arrived, clock, swept), ToldKept(candles, told, call, swept),
           NEW t \in Tasks, call[t] = Aggregation!Idle,
           NEW at \in Nat, NEW ids \in SUBSET Aggregation!Pending(candles, at),
           clock' = IF clock >= at THEN clock ELSE at,
           \/ swept' = swept
           \/ ids = Aggregation!Pending(candles, at) /\ swept' = IF swept >= at THEN swept ELSE at,
           candles' = Aggregation!Closed(candles, ids), arrived' = arrived,
           NEW tick \in {Aggregation!NoTick} \cup [tick : Ticks, session : BOOLEAN],
           tick # Aggregation!NoTick => tick.tick.time <= swept',
           IF ids = {} THEN Aggregation!Returns(t)
           ELSE Aggregation!Publishes(t, "closing", tick, ids, 0, candles')
    PROVE  CandlesKept(candles', arrived', clock', swept') /\ ToldKept(candles', told', call', swept')
<1>1. /\ candles \in Seq(Aggregation!Candle) /\ Len(candles) <= MaxCandles
      /\ clock \in Nat /\ swept \in Nat /\ swept <= clock
  BY DEF CandlesKept
<1>2. /\ clock' \in Nat /\ swept' \in Nat /\ clock <= clock' /\ at <= clock' /\ swept' <= clock'
      /\ swept <= swept'
  BY <1>1
<1>3. CandlesKept(candles', arrived', clock', swept')
  BY <1>2, ClosingKeeps
<1>4. /\ candles' \in Seq(Aggregation!Candle) /\ Len(candles') = Len(candles)
      /\ DOMAIN candles' = DOMAIN candles
      /\ \A k \in DOMAIN candles :
             /\ candles'[k] = IF k \in ids THEN [candles[k] EXCEPT !.closed = TRUE] ELSE candles[k]
             /\ candles'[k].closed = (candles[k].closed \/ k \in ids)
             /\ candles'[k].late = candles[k].late
      /\ ids = {} => candles' = candles
  BY <1>1, ClosedCandles
<1>5. ids \subseteq DOMAIN candles /\ \A k \in ids : ~candles[k].closed
  BY DEF Aggregation!Pending, Aggregation!Open
<1>6. call[t].closed = {} /\ call[t].taken = 0
  BY IdleWaits
<1>7. CASE ids = {}
  <2>1. ToldKept(candles, told', call', swept')
    BY <1>1, <1>2, <1>6, <1>7, ReturningKeeps
  <2>2. QED
    BY <1>3, <1>4, <1>7, <2>1
<1>8. CASE ids # {}
  <2>1. GoOnTo(candles', ids, 0)
    <3>1. \A k \in ids : k \in DOMAIN candles' /\ candles'[k].closed
      BY <1>4, <1>5
    <3>2. \A k \in DOMAIN candles :
              /\ k \in DOMAIN candles' /\ candles'[k].late = candles[k].late
              /\ candles[k].closed => candles'[k] = candles[k]
              /\ candles'[k] = candles[k] \/ k \in ids \/ k = 0
      BY <1>4, <1>5
    <3>3. QED
      BY <1>1, <1>4, <3>1, <3>2 DEF GoOnTo
  <2>2. ToldKept(candles', told', call', swept')
    BY <1>1, <1>2, <1>6, <1>8, <2>1, PublishingKeeps
  <2>3. QED
    BY <1>3, <2>2
<1>9. QED
  BY <1>7, <1>8

LEMMA ProcessTickSteps ==
    ASSUME AggregationSafe, NEW t \in Tasks, NEW tick \in Ticks, NEW session \in BOOLEAN,
           Aggregation!ProcessTick(t, tick, session)
    PROVE  AggregationSafe'
<1>. DEFINE pending == Aggregation!Pending(candles, tick.time)
            cs == Aggregation!Closed(candles, pending)
            step == [tick |-> tick, session |-> session]
<1>1. /\ CandlesKept(candles, arrived, clock, swept) /\ ToldKept(candles, told, call, swept)
      /\ calls \in 0..MaxCalls /\ candles \in Seq(Aggregation!Candle)
      /\ clock \in Nat /\ swept \in Nat /\ swept <= clock
  BY DEF AggregationSafe, CandlesKept
<1>2. tick.time \in Nat /\ MaxCalls \in Nat
  BY TicksTyped
<1>3. /\ call[t] = Aggregation!Idle /\ calls' = calls + 1 /\ calls < MaxCalls
      /\ clock' = IF clock >= tick.time THEN clock ELSE tick.time
      /\ swept' = IF swept >= tick.time THEN swept ELSE tick.time
  BY <1>1, <1>2, OfTwo DEF Aggregation!ProcessTick, Aggregation!Begin
<1>4. calls' \in 0..MaxCalls
  BY <1>1, <1>2, <1>3
<1>5. CASE pending = {}
  <2>1. Aggregation!TakesIn(t, tick, cs, session)
    BY <1>5 DEF Aggregation!ProcessTick
  <2>2. cs = candles
    BY <1>1, <1>5, ClosedCandles
  <2>. HIDE DEF cs
  <2>3. TimeGoesOn(tick.time)
    BY <1>1, <1>2, <1>3, <1>5 DEF TimeGoesOn
  <2>4. CandlesKept(candles', arrived', clock', swept') /\ ToldKept(candles', told', call', swept')
    BY <1>1, <1>3, <2>1, <2>2, <2>3, IdleWaits, TakesInSteps
  <2>5. QED
    BY <1>4, <2>4 DEF AggregationSafe
<1>6. CASE pending # {}
  <2>1. candles' = cs /\ arrived' = arrived /\ Aggregation!Publishes(t, "closing", step, pending, 0, candles')
    BY <1>6 DEF Aggregation!ProcessTick
  <2>2. step \in [tick : Ticks, session : BOOLEAN] /\ step.tick.time <= swept'
    BY <1>1, <1>2, <1>3
  <2>3. CandlesKept(candles', arrived', clock', swept') /\ ToldKept(candles', told', call', swept')
    BY <1>1, <1>2, <1>3, <1>6, <2>1, <2>2, ClosingSteps
  <2>4. QED
    BY <1>4, <2>3 DEF AggregationSafe
<1>7. QED
  BY <1>5, <1>6

LEMMA ClosePendingSteps ==
    ASSUME AggregationSafe, NEW t \in Tasks, NEW at \in Aggregation!Times,
           Aggregation!ClosePending(t, at) \/ Aggregation!CloseSession(t, at)
    PROVE  AggregationSafe'
<1>. DEFINE pending == Aggregation!Pending(candles, at)
            ofDay == {i \in pending : candles[i].start \div Day = at \div Day}
<1>1. /\ CandlesKept(candles, arrived, clock, swept) /\ ToldKept(candles, told, call, swept)
      /\ calls \in 0..MaxCalls /\ clock \in Nat /\ swept \in Nat /\ swept <= clock
  BY DEF AggregationSafe, CandlesKept
<1>2. at \in Nat /\ MaxCalls \in Nat
  BY TicksTyped DEF Aggregation!Times
<1>3. Aggregation!Begin(t, at)
  BY DEF Aggregation!ClosePending, Aggregation!CloseSession
<1>4. /\ call[t] = Aggregation!Idle /\ calls' = calls + 1 /\ calls < MaxCalls
      /\ clock' = IF clock >= at THEN clock ELSE at
  BY <1>1, <1>2, <1>3, OfTwo DEF Aggregation!Begin
<1>5. calls' \in 0..MaxCalls
  BY <1>1, <1>2, <1>4
<1>6. Aggregation!NoTick \in {Aggregation!NoTick} \cup [tick : Ticks, session : BOOLEAN]
  OBVIOUS
<1>7. CASE Aggregation!ClosePending(t, at)
  <2>1. /\ swept' = IF swept >= at THEN swept ELSE at
        /\ candles' = Aggregation!Closed(candles, pending) /\ arrived' = arrived
        /\ IF pending = {} THEN Aggregation!Returns(t)
           ELSE Aggregation!Publishes(t, "closing", Aggregation!NoTick, pending, 0, candles')
    BY <1>1, <1>2, <1>7, OfTwo DEF Aggregation!ClosePending
  <2>2. CandlesKept(candles', arrived', clock', swept') /\ ToldKept(candles', told', call', swept')
    BY <1>1, <1>2, <1>4, <1>6, <2>1, ClosingSteps
  <2>3. QED
    BY <1>5, <2>2 DEF AggregationSafe
<1>8. CASE Aggregation!CloseSession(t, at)
  <2>1. /\ swept' = swept
        /\ candles' = Aggregation!Closed(candles, ofDay) /\ arrived' = arrived
        /\ IF ofDay = {} THEN Aggregation!Returns(t)
           ELSE Aggregation!Publishes(t, "closing", Aggregation!NoTick, ofDay, 0, candles')
    BY <1>8 DEF Aggregation!CloseSession
  <2>2. ofDay \in SUBSET pending
    OBVIOUS
  <2>. HIDE DEF ofDay
  <2>3. CandlesKept(candles', arrived', clock', swept') /\ ToldKept(candles', told', call', swept')
    BY <1>1, <1>2, <1>4, <1>6, <2>1, <2>2, ClosingSteps
  <2>4. QED
    BY <1>5, <2>3 DEF AggregationSafe
<1>9. QED
  BY <1>7, <1>8

LEMMA GoOnSteps ==
    ASSUME AggregationSafe, NEW t \in Tasks, Aggregation!GoOn(t)
    PROVE  AggregationSafe'
<1>. DEFINE c == call[t]
<1>1. /\ CandlesKept(candles, arrived, clock, swept) /\ ToldKept(candles, told, call, swept)
      /\ calls \in 0..MaxCalls /\ candles \in Seq(Aggregation!Candle) /\ Len(candles) <= MaxCandles
      /\ clock \in Nat /\ swept \in Nat /\ swept <= clock
  BY DEF AggregationSafe, CandlesKept
<1>2. calls' = calls /\ clock' = clock /\ swept' = swept
  BY DEF Aggregation!GoOn
<1>3. CallKept(c, candles, swept)
  BY <1>1 DEF ToldKept
<1>4. /\ c.at \in {"idle", "closing", "telling"}
      /\ c.tick \in {Aggregation!NoTick} \cup [tick : Ticks, session : BOOLEAN]
      /\ c.tick # Aggregation!NoTick => c.tick.tick.time <= swept
      /\ c.taken # 0 => c.at # "closing"
  BY <1>3 DEF CallKept, Aggregation!Call
<1>5. CASE c.closed # {} \/ c.taken # 0
  <2>1. /\ Aggregation!Publishes(t, c.at, c.tick, c.closed, c.taken, candles)
        /\ candles' = candles /\ arrived' = arrived
    BY <1>5 DEF Aggregation!GoOn
  <2>2. GoOnTo(candles, c.closed, c.taken)
    BY <1>1, <1>3 DEF GoOnTo, CallKept
  <2>3. ToldKept(candles, told', call', swept')
    <3>1. swept <= swept /\ c.closed \subseteq c.closed /\ c.taken \in {0, c.taken}
      BY <1>1
    <3>. HIDE DEF c
    <3>2. call[t].closed \subseteq c.closed /\ call[t].taken \in {0, c.taken}
      BY DEF c
    <3>3. QED
      BY <1>1, <1>2, <1>4, <1>5, <2>1, <2>2, <3>1, <3>2, PublishingKeeps
  <2>4. QED
    BY <1>1, <1>2, <2>1, <2>3 DEF AggregationSafe
<1>6. CASE c.closed = {} /\ c.taken = 0 /\ c.tick # Aggregation!NoTick
  <2>1. Aggregation!TakesIn(t, c.tick.tick, candles, c.tick.session)
    BY <1>6 DEF Aggregation!GoOn
  <2>2. c.tick.tick \in Ticks /\ c.tick.tick.time <= swept
    BY <1>4, <1>6
  <2>3. c.tick.tick.time \in Nat
    BY <2>2, TicksTyped
  <2>4. TimeGoesOn(c.tick.tick.time)
    BY <1>1, <1>2, <2>2, <2>3 DEF TimeGoesOn
  <2>5. CandlesKept(candles', arrived', clock', swept') /\ ToldKept(candles', told', call', swept')
    BY <1>1, <1>6, <2>1, <2>2, <2>4, TakesInSteps
  <2>6. QED
    BY <1>1, <1>2, <2>5 DEF AggregationSafe
<1>7. CASE c.closed = {} /\ c.taken = 0 /\ c.tick = Aggregation!NoTick
  <2>1. Aggregation!Returns(t) /\ candles' = candles /\ arrived' = arrived
    BY <1>7 DEF Aggregation!GoOn
  <2>2. ToldKept(candles, told', call', swept')
    BY <1>1, <1>2, <1>7, <2>1, ReturningKeeps
  <2>3. QED
    BY <1>1, <1>2, <2>1, <2>2 DEF AggregationSafe
<1>8. QED
  BY <1>5, <1>6, <1>7

LEMMA AggregationSteps ==
    ASSUME AggregationSafe, Aggregation!Next
    PROVE  AggregationSafe'
BY ProcessTickSteps, ClosePendingSteps, GoOnSteps DEF Aggregation!Next

LEMMA AggregationBegins == Aggregation!Init => AggregationSafe
<1>1. SUFFICES ASSUME Aggregation!Init PROVE AggregationSafe
  OBVIOUS
<1>2. /\ candles = <<>> /\ call = [t \in Tasks |-> Aggregation!Idle] /\ calls = 0 /\ clock = 0 /\ swept = 0
      /\ arrived = <<>> /\ told = <<>>
  BY <1>1 DEF Aggregation!Init
<1>3. CandlesKept(<<>>, <<>>, 0, 0)
  BY TicksTyped DEF CandlesKept, OneOpen
<1>4. Aggregation!Idle \in Aggregation!Call
  <2>1. {} \in SUBSET (1..MaxCandles) /\ 0 \in 0..MaxCandles
    BY TicksTyped
  <2>2. QED
    BY <2>1 DEF Aggregation!Idle, Aggregation!Call
<1>5. CallKept(Aggregation!Idle, <<>>, 0)
  BY <1>4 DEF CallKept, Aggregation!Idle
<1>6. ToldKept(<<>>, <<>>, call, 0)
  BY <1>2, <1>4, <1>5 DEF ToldKept
<1>7. QED
  BY <1>2, <1>3, <1>6, TicksTyped DEF AggregationSafe


LEMMA SameCardinality == \A S : Aggregation!Cardinality(S) = Cardinality(S)
BY DEF Aggregation!Cardinality, Cardinality

(* What the invariant says of a candle is what its ticks say. *)
LEMMA MadeOfItsTicks ==
    ASSUME NEW c \in Aggregation!Candle, NEW given, MadeOf(c, given)
    PROVE  LET set   == Aggregation!ToSet(given)
               newest == Aggregation!Max({tick.time : tick \in set})
               first == Aggregation!SelectInSeq(given, LAMBDA tick : tick.time = newest)
           IN /\ c.open = given[1].price /\ c.close = given[first].price
              /\ c.high = Aggregation!Max({tick.price : tick \in set})
              /\ c.low = Aggregation!Min({tick.price : tick \in set})
              /\ c.trades = Cardinality(set) /\ c.volume = Aggregation!TradedSize(given)
              /\ \A tick \in set : Aggregation!Align(tick.time) = c.start
<1>. DEFINE set == Aggregation!ToSet(given)
            times == {tick.time : tick \in set}
            prices == {tick.price : tick \in set}
            newest == Aggregation!Max(times)
            first == Aggregation!SelectInSeq(given, LAMBDA tick : tick.time = newest)
            I == {i \in 1..Len(given) : given[i].time = newest}
<1>1. /\ given \in Seq(Ticks) /\ given # <<>> /\ DOMAIN given = 1..Len(given) /\ Len(given) \in Nat \ {0}
      /\ c.seen = {given[k] : k \in DOMAIN given}
      /\ c.open = given[1].price /\ c.trades = Cardinality(c.seen) /\ c.volume = Aggregation!TradedSize(given)
  <2>1. given \in Seq(Ticks) /\ given # <<>>
    BY DEF MadeOf
  <2>2. QED
    BY <2>1 DEF MadeOf
<1>2. set = c.seen
  BY <1>1 DEF Aggregation!ToSet
<1>3. /\ c.last \in Nat /\ c.high \in Nat /\ c.low \in Nat
      /\ \A k \in DOMAIN given : given[k] \in Ticks /\ given[k].time \in Nat /\ given[k].price \in Nat
  <2>1. c.last \in Nat /\ c.high \in Nat /\ c.low \in Nat
    BY DEF Aggregation!Candle
  <2>2. \A k \in DOMAIN given : given[k] \in Ticks
    BY <1>1
  <2>3. QED
    BY <2>1, <2>2, TicksTyped
<1>4. /\ \A k \in DOMAIN given : /\ Aggregation!Align(given[k].time) = c.start
                                 /\ given[k].time <= c.last
                                 /\ c.low <= given[k].price /\ given[k].price <= c.high
      /\ \E k \in DOMAIN given : given[k].price = c.high
      /\ \E k \in DOMAIN given : given[k].price = c.low
  BY DEF MadeOf
<1>5. PICK latest \in DOMAIN given :
          /\ given[latest].time = c.last /\ given[latest].price = c.close
          /\ \A j \in 1..(latest - 1) : given[j].time # c.last
  BY DEF MadeOf
<1>. HIDE DEF set
<1>6. /\ times \subseteq Nat /\ c.last \in times /\ \A y \in times : y <= c.last
      /\ prices \subseteq Nat /\ c.high \in prices /\ c.low \in prices
      /\ \A y \in prices : c.low <= y /\ y <= c.high
  BY <1>1, <1>2, <1>3, <1>4, <1>5
<1>. HIDE DEF times, prices
<1>7. newest = c.last
  <2>1. newest \in times /\ \A y \in times : y <= newest
    BY <1>3, <1>6, GreatestOf
  <2>2. newest <= c.last /\ c.last <= newest /\ newest \in Nat
    BY <1>6, <2>1
  <2>3. QED
    BY <1>3, <2>2
<1>8. Aggregation!Max(prices) = c.high /\ Aggregation!Min(prices) = c.low
  <2>1. /\ Aggregation!Max(prices) \in prices /\ \A y \in prices : y <= Aggregation!Max(prices)
        /\ Aggregation!Min(prices) \in prices /\ \A y \in prices : Aggregation!Min(prices) <= y
    BY <1>3, <1>6, GreatestOf, LeastOf
  <2>2. /\ Aggregation!Max(prices) <= c.high /\ c.high <= Aggregation!Max(prices)
        /\ Aggregation!Max(prices) \in Nat /\ Aggregation!Min(prices) \in Nat
        /\ Aggregation!Min(prices) <= c.low /\ c.low <= Aggregation!Min(prices)
    BY <1>6, <2>1
  <2>3. QED
    BY <1>3, <2>2
<1>9. first = latest
  <2>1. latest \in I /\ I \subseteq Nat
    BY <1>1, <1>5, <1>7
  <2>2. first = Aggregation!Min(I)
    BY <2>1 DEF Aggregation!SelectInSeq
  <2>3. Aggregation!Min(I) \in I /\ Aggregation!Min(I) <= latest
    BY <2>1, LeastOf
  <2>4. ~(Aggregation!Min(I) \in 1..(latest - 1))
    BY <1>5, <1>7, <2>3
  <2>. DEFINE m == Aggregation!Min(I)
  <2>5. m \in 1..Len(given) /\ m <= latest /\ ~(m \in 1..(latest - 1)) /\ first = m
    BY <2>2, <2>3, <2>4
  <2>. HIDE DEF m, first
  <2>6. QED
    BY <1>1, <2>5
<1>. HIDE DEF first, newest
<1>10. \A tick \in set : Aggregation!Align(tick.time) = c.start
  BY <1>1, <1>2, <1>4
<1>11. c.close = given[first].price
  BY <1>5, <1>9
<1>12. QED
  BY <1>1, <1>2, <1>8, <1>10, <1>11 DEF set, times, prices, newest, first

(* The invariant says of candles and events what the run checks. *)
LEMMA CandlesAreTold == AggregationSafe => Aggregation!TypeOK /\ (part = "aggregation" => CandlesTellTicks)
<1>1. SUFFICES ASSUME AggregationSafe PROVE Aggregation!TypeOK /\ CandlesTellTicks
  OBVIOUS
<1>2. /\ candles \in Seq(Aggregation!Candle) /\ Len(candles) <= MaxCandles /\ Len(candles) \in Nat
      /\ arrived \in Seq(Seq(Ticks)) /\ Len(arrived) = Len(candles)
      /\ DOMAIN candles = 1..Len(candles) /\ DOMAIN arrived = DOMAIN candles
      /\ clock \in Nat /\ swept \in Nat
      /\ \A i \in DOMAIN candles : /\ candles[i] \in Aggregation!Candle
                                   /\ MadeOf(candles[i], arrived[i]) /\ Timely(candles[i], clock, swept)
      /\ OneOpen(candles)
  BY <1>1 DEF AggregationSafe, CandlesKept
<1>3. /\ ToldKept(candles, told, call, swept) /\ calls \in 0..MaxCalls
      /\ DOMAIN told = DOMAIN candles /\ call \in [Tasks -> Aggregation!Call]
      /\ \A i \in DOMAIN candles : told[i] \in Seq(Telling) /\ ToldClosed(candles[i], told[i])
  BY <1>1 DEF AggregationSafe, ToldKept
<1>4. Aggregation!TypeOK
  <2>1. ASSUME NEW t \in Tasks
        PROVE  call[t].closed \cup ({call[t].taken} \ {0}) \subseteq DOMAIN candles
    BY <1>3 DEF ToldKept, CallKept
  <2>2. QED
    BY <1>2, <1>3, <2>1 DEF Aggregation!TypeOK
<1>5. Aggregation!CandleIsItsTicks
  <2>1. ASSUME NEW i \in DOMAIN candles
        PROVE  LET c     == candles[i]
                   given == arrived[i]
                   set   == Aggregation!ToSet(given)
                   newest == Aggregation!Max({tick.time : tick \in set})
                   first == Aggregation!SelectInSeq(given, LAMBDA tick : tick.time = newest)
               IN /\ c.open = given[1].price /\ c.close = given[first].price
                  /\ c.high = Aggregation!Max({tick.price : tick \in set})
                  /\ c.low = Aggregation!Min({tick.price : tick \in set})
                  /\ c.trades = Cardinality(set) /\ c.volume = Aggregation!TradedSize(given)
                  /\ \A tick \in set : Aggregation!Align(tick.time) = c.start
    BY <1>2, MadeOfItsTicks DEF Aggregation!SelectInSeq
  <2>2. QED
    BY <2>1, SameCardinality DEF Aggregation!CandleIsItsTicks, Aggregation!SelectInSeq
<1>6. Aggregation!OneCandlePerBucket
  BY <1>2 DEF OneOpen, Aggregation!OneCandlePerBucket
<1>7. Aggregation!ClosedInTime
  BY <1>2 DEF Timely, Aggregation!ClosedInTime, Aggregation!Open
<1>8. Aggregation!ClosedIsFinal
  BY <1>3 DEF ToldClosed, Aggregation!ClosedIsFinal
<1>9. Aggregation!LastEventIsTrue
  <2>1. SUFFICES ASSUME \A t \in Tasks : call[t] = Aggregation!Idle, NEW i \in DOMAIN candles
                 PROVE  /\ told[i] # <<>>
                        /\ told[i][Len(told[i])].candle = Aggregation!Shown(candles[i])
                        /\ (told[i][Len(told[i])].kind = "closed") = candles[i].closed
    BY DEF Aggregation!LastEventIsTrue, Aggregation!Last
  <2>2. ~ToPublish(call, i)
    <3>1. \A t \in Tasks : call[t].closed = {} /\ call[t].taken = 0
      BY <2>1, IdleWaits
    <3>2. i # 0
      BY <1>2
    <3>3. QED
      BY <3>1, <3>2 DEF ToPublish
  <2>3. UpToDate(candles[i], told[i])
    BY <1>3, <2>2 DEF ToldKept
  <2>4. QED
    BY <2>3 DEF UpToDate
<1>10. Aggregation!OpenedFirst
  BY <1>3 DEF ToldKept, InTime, Aggregation!OpenedFirst
<1>11. QED
  BY <1>4, <1>5, <1>6, <1>7, <1>8, <1>9, <1>10 DEF CandlesTellTicks

(* What the candles keep, whatever the other parts of the run do *)
THEOREM AggregationInvariant == Spec => []AggregationSafe
<1>1. Init => AggregationSafe
  BY AggregationBegins DEF Init
<1>2. AggregationSafe /\ [Next]_mcVars => AggregationSafe'
  <2>1. SUFFICES ASSUME AggregationSafe, Next \/ UNCHANGED mcVars PROVE AggregationSafe'
    OBVIOUS
  <2>2. CASE AggregationStep
    BY <2>1, <2>2, AggregationSteps DEF AggregationStep
  <2>3. CASE UNCHANGED aggregationVars
    BY <2>1, <2>3 DEF aggregationVars, AggregationSafe
  <2>4. QED
    BY <2>1, <2>2, <2>3 DEF Next, mcVars, EngineStep, SizeStep, ConfigStep, PipelineStep
<1>3. QED
  BY <1>1, <1>2, PTL DEF Spec

(* A candle is the ticks of its bucket, the only one of the bucket except  *)
(* for late ticks; it closes in time and for good, and those who listen    *)
(* are left with the candle as it is, however the calls of the aggregation *)
(* engine overlap (process_tick, ingest_tick, close_pending_candles).      *)
THEOREM CandlesTold == Spec => []CandlesTellTicks
<1>1. AggregationSafe => CandlesTellTicks
  BY CandlesAreTold DEF CandlesTellTicks
<1>2. QED
  BY <1>1, AggregationInvariant, PTL

-----------------------------------------------------------------------------
(***************************************************************************)
(* The wiring of engines.                                                  *)
(***************************************************************************)

WellFormed(c) ==
    /\ DOMAIN c = Config!Fields
    /\ c.adaptive_thresholds # NoValue => DOMAIN c.adaptive_thresholds = {"kind", "items"}

(* What the constructors accept, whatever is registered *)
Constructs(c) ==
    /\ Config!Provider(c) = "fixed" => Config!FixedBuilds(c)
    /\ Config!Provider(c) = "atr" => Config!AtrBuilds(c)
    /\ Config!Provider(c) = "percentage" => Config!PercentageBuilds(c)
    /\ Config!Provider(c) = "adaptive" => Config!AdaptiveBuilds(c)

(* The configuration and the components of an engine that fit *)
Fits(e) ==
    /\ WellFormed(e.config) /\ Constructs(e.config)
    /\ e.provider = Config!Provider(e.config) /\ e.builder = Config!Builder(e.config)
    /\ e.strategy = Config!VisibleStrategy(e.config)

Registered == /\ DOMAIN registry = DOMAIN Config!Builtin
              /\ \A kind \in DOMAIN Config!Builtin : Config!Builtin[kind] \subseteq registry[kind]

EngineFits ==
    /\ wired = [config |-> wired.config, provider |-> wired.provider, strategy |-> wired.strategy,
                builder |-> wired.builder]
    /\ checked /\ wired.config # NoValue => Fits(wired)

SavedFits ==
    checked /\ saved # NoValue =>
        /\ Fits(original) /\ saved = [config |-> saved.config, damage |-> saved.damage]
        /\ saved.config = Config!AsText(original.config) /\ saved.damage \in {"none", "cut", "version"}
        /\ outcome = "restored" => saved.damage = "none" /\ wired = Config!Rewired(saved.config)

ConfigSafe == Registered /\ EngineFits /\ SavedFits

(* The text of a configuration names the same components and builds alike. *)
LEMMA TextNamesTheSame ==
    ASSUME NEW c, WellFormed(c)
    PROVE  LET text == Config!AsText(c) IN
           /\ WellFormed(text) /\ Config!AsText(text) = text
           /\ Config!Provider(text) = Config!Provider(c) /\ Config!Builder(text) = Config!Builder(c)
           /\ Config!Strategy(text) = Config!Strategy(c)
           /\ Config!VisibleStrategy(text) = Config!VisibleStrategy(c)
           /\ Constructs(c) => Constructs(text)
<1>1. PICK text : text = Config!AsText(c)
  OBVIOUS
<1>2. /\ DOMAIN text = Config!Fields
      /\ \A f \in Config!Fields : f # "adaptive_thresholds" => text[f] = c[f]
      /\ c.adaptive_thresholds = NoValue => text = c
      /\ c.adaptive_thresholds # NoValue =>
            text.adaptive_thresholds = [kind |-> "list", items |-> c.adaptive_thresholds.items]
  BY <1>1 DEF Config!AsText, WellFormed, Config!Fields
<1>3. /\ text.brick_type = c.brick_type /\ text.brick_size = c.brick_size /\ text.provider = c.provider
      /\ text.builder_type = c.builder_type /\ text.builder = c.builder /\ text.metadata = c.metadata
      /\ text.atr_period = c.atr_period /\ text.atr_multiplier = c.atr_multiplier
      /\ text.percentage = c.percentage /\ text.minimum_brick_size = c.minimum_brick_size
      /\ text.rounding_mode = c.rounding_mode /\ text.reference_price = c.reference_price
      /\ text.reference_price_strategy = c.reference_price_strategy
      /\ text.adaptive_window = c.adaptive_window /\ text.adaptive_hysteresis = c.adaptive_hysteresis
  BY <1>2 DEF Config!Fields
<1>4. Config!Provider(text) = Config!Provider(c)
  BY <1>3 DEF Config!Provider
<1>5. Config!Builder(text) = Config!Builder(c)
  BY <1>3 DEF Config!Builder
<1>6. Config!Strategy(text) = Config!Strategy(c)
  BY <1>3 DEF Config!Strategy
<1>7. Config!VisibleStrategy(text) = Config!VisibleStrategy(c)
  BY <1>4, <1>6 DEF Config!VisibleStrategy
<1>8. WellFormed(text)
  BY <1>2 DEF WellFormed
<1>9. Config!AsText(text) = text
  <2>1. CASE c.adaptive_thresholds = NoValue
    BY <2>1, <1>1, <1>2
  <2>2. CASE c.adaptive_thresholds # NoValue
    <3>1. text.adaptive_thresholds = [text.adaptive_thresholds EXCEPT !.kind = "list"]
      BY <2>2, <1>2
    <3>2. text = [text EXCEPT !.adaptive_thresholds.kind = "list"]
      <4>1. text = [f \in Config!Fields |-> text[f]]
        BY <2>2, <1>1, <1>2 DEF Config!AsText, WellFormed
      <4>2. QED
        BY <4>1, <3>1, <1>2 DEF Config!Fields
    <3>3. QED
      BY <3>2 DEF Config!AsText
  <2>3. QED
    BY <2>1, <2>2
<1>10. Constructs(c) => Constructs(text)
  <2>1. Config!FixedBuilds(text) <=> Config!FixedBuilds(c)
    BY <1>3 DEF Config!FixedBuilds
  <2>2. Config!AtrBuilds(text) <=> Config!AtrBuilds(c)
    BY <1>3 DEF Config!AtrBuilds
  <2>3. Config!PercentageBuilds(text) <=> Config!PercentageBuilds(c)
    BY <1>3, <1>6 DEF Config!PercentageBuilds
  <2>4. Config!AdaptiveBuilds(c) => Config!AdaptiveBuilds(text)
    <3>1. \A t, u : t.items = u.items => (Config!Ascending(t) <=> Config!Ascending(u))
      BY DEF Config!Ascending
    <3>2. CASE c.adaptive_thresholds = NoValue
      BY <3>2, <1>2
    <3>3. CASE c.adaptive_thresholds # NoValue
      <4>1. text.adaptive_thresholds.items = c.adaptive_thresholds.items
        BY <3>3, <1>2
      <4>2. QED
        BY <4>1, <3>1, <3>3, <2>1, <2>2, <2>3, <1>3 DEF Config!AdaptiveBuilds
    <3>4. QED
      BY <3>2, <3>3
  <2>5. QED
    BY <1>4, <2>1, <2>2, <2>3, <2>4 DEF Constructs
<1>11. QED
  BY <1>1, <1>4, <1>5, <1>6, <1>7, <1>8, <1>9, <1>10

(* A provider is built of what its constructor accepts and what is         *)
(* registered.                                                             *)
LEMMA BuildsAsConstructed ==
    ASSUME NEW c
    PROVE  Config!ProviderBuilds(c) <=>
               /\ Config!Provider(c) \in registry.providers /\ Constructs(c)
               /\ Config!Provider(c) = "percentage" => Config!Strategy(c) \in registry.strategies
<1>1. CASE Config!Provider(c) = "fixed"
  BY <1>1 DEF Config!ProviderBuilds, Constructs
<1>2. CASE Config!Provider(c) = "atr"
  BY <1>2 DEF Config!ProviderBuilds, Constructs
<1>3. CASE Config!Provider(c) = "percentage"
  BY <1>3 DEF Config!ProviderBuilds, Constructs
<1>4. CASE Config!Provider(c) = "adaptive"
  BY <1>4 DEF Config!ProviderBuilds, Constructs
<1>5. CASE Config!Provider(c) \notin {"fixed", "atr", "percentage", "adaptive"}
  BY <1>5 DEF Config!ProviderBuilds, Constructs
<1>6. QED
  BY <1>1, <1>2, <1>3, <1>4, <1>5

LEMMA ConfigBegins == Config!Init => ConfigSafe
BY DEF Config!Init, Config!Unwired, ConfigSafe, Registered, EngineFits, SavedFits

(* An engine that is given a configuration has the components it names; a  *)
(* configuration that a validator with the registries accepts is given as  *)
(* a whole or not at all.                                                  *)
LEMMA ExecuteKeeps ==
    ASSUME ConfigSafe, NEW c \in Submitted, NEW data, Config!Execute(c, data)
    PROVE  ConfigSafe'
<1>1. /\ UNCHANGED <<registry, checked, engineType, saved, original>> /\ outcome' # "restored"
  BY DEF Config!Execute
<1>2. WellFormed(c)
  BY BarsInstance DEF WellFormed, Config!ConfigConstants
<1>3. \/ wired' = wired
      \/ ~checked /\ wired' = Config!Created(c)
      \/ wired' = Config!Rewired(c) /\ Constructs(c)
  <2>1. CASE wired' = wired
    BY <2>1
  <2>2. CASE wired' # wired /\ ~Config!Creates(c)
    <3>1. wired' = Config!Created(c) /\ Config!Accepts(c)
      BY <2>2 DEF Config!Execute
    <3>2. CASE checked
      <4>1. Config!Builder(c) \in registry.builders
        BY <3>1, <3>2 DEF Config!Accepts
      <4>2. wired' = wired
        BY <2>2, <3>1, <4>1 DEF Config!Created, Config!Creates
      <4>3. QED
        BY <4>2
    <3>3. QED
      BY <3>1, <3>2
  <2>3. CASE wired' # wired /\ Config!Creates(c)
    <3>1. wired' = [Config!Created(c) EXCEPT !.config = c]
      BY <2>3 DEF Config!Execute
    <3>2. Config!Created(c) = [[wired EXCEPT !.provider = Config!Provider(c), !.strategy = Config!VisibleStrategy(c)]
                               EXCEPT !.builder = Config!Builder(c)]
      BY <2>3 DEF Config!Created, Config!Creates
    <3>3. wired' = Config!Rewired(c)
      BY <3>1, <3>2 DEF ConfigSafe, EngineFits, Config!Rewired
    <3>4. Constructs(c)
      BY <2>3, BuildsAsConstructed DEF Config!Creates
    <3>5. QED
      BY <3>3, <3>4
  <2>4. QED
    BY <2>1, <2>2, <2>3
<1>4. EngineFits'
  <2>1. CASE wired' = wired
    BY <1>1, <2>1 DEF ConfigSafe, EngineFits, Fits
  <2>2. CASE ~checked /\ wired' = Config!Created(c)
    <3>1. wired' = [config |-> wired'.config, provider |-> wired'.provider, strategy |-> wired'.strategy,
                    builder |-> wired'.builder]
      BY <2>2 DEF ConfigSafe, EngineFits, Config!Created
    <3>2. QED
      BY <1>1, <2>2, <3>1 DEF EngineFits
  <2>3. CASE wired' = Config!Rewired(c) /\ Constructs(c)
    BY <1>2, <2>3 DEF EngineFits, Fits, Config!Rewired
  <2>4. QED
    BY <1>3, <2>1, <2>2, <2>3
<1>5. QED
  BY <1>1, <1>4 DEF ConfigSafe, Registered, SavedFits

LEMMA ConfigSteps ==
    ASSUME ConfigSafe, Config!Next
    PROVE  ConfigSafe'
<1>1. ASSUME NEW kind \in DOMAIN Config!Builtin, Config!Register(kind) PROVE ConfigSafe'
  BY <1>1 DEF Config!Register, ConfigSafe, Registered, EngineFits, Fits, SavedFits
<1>2. ASSUME NEW c \in Submitted, NEW data \in {"none", "no_price", "other_price", "good"}, Config!Execute(c, data)
      PROVE ConfigSafe'
  BY <1>2, ExecuteKeeps
<1>3. CASE Config!Save
  <2>1. /\ wired.config # NoValue /\ saved' = [config |-> Config!AsText(wired.config), damage |-> "none"]
        /\ outcome' # "restored" /\ original' = wired /\ UNCHANGED <<registry, checked, engineType, wired>>
    BY <1>3 DEF Config!Save, Config!Snapshot
  <2>2. SavedFits'
    BY <2>1 DEF ConfigSafe, EngineFits, SavedFits, Fits
  <2>3. QED
    BY <2>1, <2>2 DEF ConfigSafe, Registered, EngineFits, Fits
<1>4. CASE Config!NewProcess
  BY <1>4 DEF Config!NewProcess, Config!Unwired, ConfigSafe, Registered, EngineFits, SavedFits
<1>5. CASE Config!Restore
  <2>1. saved # NoValue /\ UNCHANGED <<registry, checked, engineType, saved, original>>
    BY <1>5 DEF Config!Restore
  <2>2. CASE outcome' # "restored"
    <3>1. UNCHANGED wired
      BY <1>5, <2>2 DEF Config!Restore
    <3>2. QED
      BY <2>1, <2>2, <3>1 DEF ConfigSafe, Registered, EngineFits, Fits, SavedFits
  <2>3. CASE outcome' = "restored"
    <3>1. /\ Config!Readable(saved) /\ Config!ProviderBuilds(saved.config)
          /\ wired' = Config!Rewired(saved.config)
      BY <1>5, <2>3 DEF Config!Restore
    <3>2. wired' = [config |-> wired'.config, provider |-> wired'.provider, strategy |-> wired'.strategy,
                    builder |-> wired'.builder]
      BY <3>1 DEF Config!Rewired
    <3>3. ASSUME checked
          PROVE  Fits(wired)' /\ saved.damage = "none"
      <4>1. Fits(original) /\ saved.config = Config!AsText(original.config)
            /\ saved.damage \in {"none", "cut", "version"}
        BY <2>1, <3>3 DEF ConfigSafe, SavedFits
      <4>2. WellFormed(saved.config) /\ Constructs(saved.config)
        BY <4>1, TextNamesTheSame DEF Fits
      <4>3. QED
        BY <4>1, <4>2, <3>1 DEF Fits, Config!Rewired, Config!Readable, Config!Complete
    <3>4. QED
      BY <2>1, <2>3, <3>1, <3>2, <3>3 DEF ConfigSafe, Registered, EngineFits, SavedFits
  <2>4. QED
    BY <2>2, <2>3
<1>6. ASSUME NEW damage \in {"cut", "version"}, Config!TextAges(damage) PROVE ConfigSafe'
  <2>1. /\ saved' = [saved EXCEPT !.damage = damage] /\ outcome' = "none"
        /\ UNCHANGED <<registry, checked, engineType, wired, original>> /\ saved # NoValue
    BY <1>6 DEF Config!TextAges
  <2>2. SavedFits'
    BY <2>1 DEF ConfigSafe, SavedFits
  <2>3. QED
    BY <2>1, <2>2 DEF ConfigSafe, Registered, EngineFits, Fits
<1>7. QED
  BY <1>1, <1>2, <1>3, <1>4, <1>5, <1>6 DEF Config!Next

(* What the validator accepts can be built.  *)
LEMMA AcceptedIsBuilt ==
    ASSUME ConfigSafe, NEW c, c.provider = NoValue, Config!Strategy(c) \in Config!BuiltinStrategies,
           Config!Accepts(c)
    PROVE  Config!ProviderBuilds(c)
<1>1. Config!Provider(c) \in {"fixed", "atr", "percentage"}
  BY DEF Config!Provider
<1>2. Config!Provider(c) \in registry.providers /\ Config!Strategy(c) \in registry.strategies
  BY <1>1 DEF ConfigSafe, Registered, Config!Builtin, Config!BuiltinProviders
<1>3. Config!AcceptsValues(c)
  BY DEF Config!Accepts
<1>4. CASE Config!Provider(c) = "fixed"
  <2>1. Config!FixedBuilds(c)
    BY <1>3 DEF Config!AcceptsValues, Config!FixedBuilds
  <2>2. Constructs(c)
    BY <1>4, <2>1 DEF Constructs
  <2>3. QED
    BY <1>2, <1>4, <2>2, BuildsAsConstructed
<1>5. CASE Config!Provider(c) = "atr"
  <2>1. c.brick_type = "atr"
    BY <1>5 DEF Config!Provider
  <2>2. Config!AtrBuilds(c)
    BY <1>3, <2>1 DEF Config!AcceptsValues, Config!AtrBuilds
  <2>3. Constructs(c)
    BY <1>5, <2>2 DEF Constructs
  <2>4. QED
    BY <1>2, <1>5, <2>3, BuildsAsConstructed
<1>6. CASE Config!Provider(c) = "percentage"
  <2>1. Config!PercentageBuilds(c)
    BY <1>3, <1>6 DEF Config!AcceptsValues, Config!PercentageBuilds
  <2>2. Constructs(c)
    BY <1>6, <2>1 DEF Constructs
  <2>3. QED
    BY <1>2, <1>6, <2>2, BuildsAsConstructed
<1>7. QED
  BY <1>1, <1>4, <1>5, <1>6

LEMMA ConfigWorks ==
    ASSUME ConfigSafe
    PROVE  Config!AcceptedBuilds /\ Config!EngineIsAsConfigured /\ Config!RestoredAsSaved
<1>1. Config!AcceptedBuilds
  BY AcceptedIsBuilt DEF Config!AcceptedBuilds
<1>2. Config!EngineIsAsConfigured
  BY DEF ConfigSafe, EngineFits, Fits, Config!EngineIsAsConfigured
<1>3. ASSUME checked, saved # NoValue, saved = Config!Snapshot(original), Config!Readable(saved)
      PROVE  Config!ProviderBuilds(saved.config)
  BY <1>3, TextNamesTheSame, BuildsAsConstructed DEF ConfigSafe, SavedFits, Fits, Config!Readable
<1>4. ASSUME checked, saved # NoValue, outcome = "restored"
      PROVE  /\ \A p \in {"provider", "strategy", "builder"} : wired[p] = original[p]
             /\ Config!Snapshot(wired) = saved
  <2>1. /\ Fits(original) /\ saved.config = Config!AsText(original.config)
        /\ wired = Config!Rewired(saved.config)
        /\ saved = [config |-> saved.config, damage |-> "none"]
    BY <1>4 DEF ConfigSafe, SavedFits
  <2>2. QED
    BY <2>1, TextNamesTheSame DEF Fits, Config!Rewired, Config!Snapshot
<1>5. QED
  BY <1>1, <1>2, <1>3, <1>4 DEF Config!RestoredAsSaved

-----------------------------------------------------------------------------
(***************************************************************************)
(* The pipeline.                                                           *)
(***************************************************************************)

IsSequence(s) == \E S : s \in Seq(S)

LEMMA OneMore ==
    ASSUME NEW s, IsSequence(s), NEW e
    PROVE  /\ IsSequence(Append(s, e)) /\ Len(s) \in Nat /\ Len(Append(s, e)) = Len(s) + 1
           /\ DOMAIN s = 1..Len(s) /\ DOMAIN Append(s, e) = 1..(Len(s) + 1)
           /\ \A i \in 1..Len(s) : Append(s, e)[i] = s[i]
           /\ Append(s, e)[Len(s) + 1] = e
<1>1. PICK S : s \in Seq(S)
  BY DEF IsSequence
<1>2. s \in Seq(S \cup {e}) /\ e \in S \cup {e}
  BY <1>1
<1>3. Append(s, e) \in Seq(S \cup {e})
  BY <1>2
<1>4. QED
  BY <1>2, <1>3 DEF IsSequence

LEMMA TwoMore ==
    ASSUME NEW s, IsSequence(s), NEW d, NEW e
    PROVE  s \o <<d, e>> = Append(Append(s, d), e)
<1>1. PICK S : s \in Seq(S)
  BY DEF IsSequence
<1>2. s \in Seq(S \cup {d, e}) /\ <<d, e>> \in Seq(S \cup {d, e})
  BY <1>1
<1>3. Append(s, d) \in Seq(S \cup {d, e})
  BY <1>2
<1>4. QED
  BY <1>2, <1>3

(* Each result has its two events. *)
EventsOfResults(results, events) ==
    \A i \in DOMAIN results :
        /\ events[2 * i] = <<"PipelineStageStarted", results[i].stage>>
        /\ events[2 * i + 1] \in {<<"PipelineStageCompleted", results[i].stage>>, <<"PipelineStageFailed", results[i].stage>>}

(* What the events and results of a run are while it runs, and at its end  *)
PipeSafe ==
    /\ IsSequence(ran) /\ IsSequence(published) /\ attempt \in 0..Pipe!Ordering
    /\ \A i \in DOMAIN ran : ran[i].retries <= RetryCount
    /\ \A i \in DOMAIN ran : ran[i].status = "failed" => i = Len(ran) /\ result = "failed"
    /\ result \in {"running", "success", "failed"} => EventsOfResults(ran, published)
    /\ result = "running" =>
           /\ attempt > RetryCount => Len(published) = 2 * Len(ran) + 1
           /\ attempt <= RetryCount =>
                 /\ Len(published) = 2 * Len(ran) + 2
                 /\ published[Len(published)] = <<"PipelineStageStarted", Head(todo)>>
    /\ result = "success" => Len(published) = 2 * Len(ran) + 2 /\ published[Len(published)] = <<"PipelineCompleted">>
    /\ result = "failed" =>
           /\ Len(published) = 2 * Len(ran) + 2 /\ published[Len(published)][1] = "PipelineError"
           /\ published[Len(published) - 1][1] = "PipelineStageFailed" => ran[Len(ran)].retries = RetryCount

LEMMA RetryCounts == /\ RetryCount \in Nat /\ Pipe!Waiting = RetryCount + 1 /\ Pipe!Ordering = RetryCount + 2
BY BarsInstance DEF Pipe!PipelineConstants, Pipe!Waiting, Pipe!Ordering

LEMMA PipeBegins == Pipe!PipelineInit => PipeSafe
<1>1. IsSequence(<<>>)
  <2>1. <<>> \in Seq({})
    OBVIOUS
  <2>2. QED
    BY <2>1 DEF IsSequence
<1>2. QED
  BY <1>1, RetryCounts DEF Pipe!PipelineInit, PipeSafe

(* A stage that is over has a result and a second event. *)
LEMMA RecordKeeps ==
    ASSUME PipeSafe, result = "running", attempt <= RetryCount,
           NEW status, Pipe!Recorded(status),
           NEW event \in {"PipelineStageCompleted", "PipelineStageFailed"}
    PROVE  LET events == Append(published, <<event, Head(todo)>>) IN
           /\ IsSequence(ran') /\ Len(ran') = Len(ran) + 1 /\ DOMAIN ran' = 1..Len(ran')
           /\ \A i \in DOMAIN ran' : ran'[i].retries <= RetryCount
           /\ \A i \in DOMAIN ran' : ran'[i].status = "failed" => i = Len(ran')
           /\ status # "failed" => \A i \in DOMAIN ran' : ran'[i].status # "failed"
           /\ ran'[Len(ran')].retries = attempt
           /\ Len(ran') \in Nat /\ Len(events) = 2 * Len(ran') + 1 /\ IsSequence(events)
           /\ events[Len(events)] = <<event, Head(todo)>>
           /\ EventsOfResults(ran', events)
<1>1. PICK events : events = Append(published, <<event, Head(todo)>>)
  OBVIOUS
<1>2. PICK record : record = [stage |-> Head(todo), status |-> status, retries |-> attempt]
  OBVIOUS
<1>3. ran' = Append(ran, record)
  BY <1>2 DEF Pipe!Recorded
<1>4. /\ IsSequence(ran') /\ Len(ran) \in Nat /\ Len(ran') = Len(ran) + 1
      /\ DOMAIN ran = 1..Len(ran) /\ DOMAIN ran' = 1..(Len(ran) + 1)
      /\ \A i \in 1..Len(ran) : ran'[i] = ran[i]
      /\ ran'[Len(ran) + 1] = record
  BY <1>3, OneMore DEF PipeSafe
<1>5. /\ IsSequence(events) /\ Len(published) \in Nat /\ Len(events) = Len(published) + 1
      /\ \A i \in 1..Len(published) : events[i] = published[i]
      /\ events[Len(published) + 1] = <<event, Head(todo)>>
  BY <1>1, OneMore DEF PipeSafe
<1>6. Len(published) = 2 * Len(ran) + 2 /\ published[Len(published)] = <<"PipelineStageStarted", Head(todo)>>
  BY DEF PipeSafe
<1>7. EventsOfResults(ran', events)
  <2>1. SUFFICES ASSUME NEW i \in 1..(Len(ran) + 1)
                 PROVE  /\ events[2 * i] = <<"PipelineStageStarted", ran'[i].stage>>
                        /\ events[2 * i + 1] \in {<<"PipelineStageCompleted", ran'[i].stage>>,
                                                   <<"PipelineStageFailed", ran'[i].stage>>}
    BY <1>4 DEF EventsOfResults
  <2>2. CASE i \in 1..Len(ran)
    <3>1. 2 * i \in 1..Len(published) /\ 2 * i + 1 \in 1..Len(published)
      BY <2>2, <1>4, <1>6
    <3>2. ran'[i] = ran[i] /\ events[2 * i] = published[2 * i] /\ events[2 * i + 1] = published[2 * i + 1]
      BY <2>2, <3>1, <1>4, <1>5
    <3>3. QED
      BY <2>2, <3>2, <1>4 DEF PipeSafe, EventsOfResults
  <2>3. CASE i = Len(ran) + 1
    <3>1. 2 * i = Len(published) /\ 2 * i + 1 = Len(published) + 1 /\ 2 * i \in 1..Len(published)
      BY <2>3, <1>4, <1>6
    <3>2. events[2 * i] = published[Len(published)] /\ events[2 * i + 1] = <<event, Head(todo)>>
      BY <3>1, <1>5
    <3>3. ran'[i].stage = Head(todo)
      BY <2>3, <1>2, <1>4
    <3>4. QED
      BY <3>2, <3>3, <1>6
  <2>4. QED
    BY <2>1, <2>2, <2>3, <1>4
<1>8. /\ \A i \in DOMAIN ran' : ran'[i].retries <= RetryCount
      /\ \A i \in DOMAIN ran' : ran'[i].status = "failed" => i = Len(ran')
      /\ status # "failed" => \A i \in DOMAIN ran' : ran'[i].status # "failed"
      /\ ran'[Len(ran')].retries = attempt
  BY <1>2, <1>4 DEF PipeSafe
<1>9. Len(events) = 2 * Len(ran') + 1 /\ events[Len(events)] = <<event, Head(todo)>> /\ Len(ran') \in Nat
  BY <1>4, <1>5, <1>6
<1>10. QED
  BY <1>1, <1>4, <1>5, <1>7, <1>8, <1>9

(* One more event leaves those of the results. *)
LEMMA EventsStay ==
    ASSUME NEW results, IsSequence(results), NEW events, IsSequence(events), EventsOfResults(results, events),
           Len(events) >= 2 * Len(results) + 1, NEW e
    PROVE  EventsOfResults(results, Append(events, e))
<1>1. /\ Len(results) \in Nat /\ DOMAIN results = 1..Len(results) /\ Len(events) \in Nat
      /\ \A i \in 1..Len(events) : Append(events, e)[i] = events[i]
  BY OneMore
<1>2. \A i \in DOMAIN results : 2 * i \in 1..Len(events) /\ 2 * i + 1 \in 1..Len(events)
  BY <1>1
<1>3. QED
  BY <1>1, <1>2 DEF EventsOfResults

LEMMA FailingKeeps ==
    ASSUME PipeSafe, result = "running", attempt <= RetryCount,
           NEW event \in {"PipelineStageCompleted", "PipelineStageFailed"}, Pipe!Fails(event),
           event = "PipelineStageFailed" => attempt = RetryCount
    PROVE  PipeSafe'
<1>1. PICK events : events = Append(published, <<event, Head(todo)>>)
  OBVIOUS
<1>2. /\ Pipe!Recorded("failed") /\ result' = "failed" /\ attempt' = Pipe!Waiting
      /\ published' = Append(events, <<"PipelineError", Head(todo)>>)
  <2>1. /\ Pipe!Recorded("failed") /\ result' = "failed" /\ attempt' = Pipe!Waiting
        /\ published' = published \o <<<<event, Head(todo)>>, <<"PipelineError", Head(todo)>>>>
    BY DEF Pipe!Fails
  <2>2. PICK d, e : d = <<event, Head(todo)>> /\ e = <<"PipelineError", Head(todo)>>
    OBVIOUS
  <2>3. IsSequence(published)
    BY DEF PipeSafe
  <2>4. published \o <<d, e>> = Append(Append(published, d), e)
    BY <2>3, TwoMore
  <2>5. QED
    BY <1>1, <2>1, <2>2, <2>4
<1>3. /\ IsSequence(ran') /\ Len(ran') \in Nat /\ Len(events) = 2 * Len(ran') + 1 /\ IsSequence(events)
      /\ \A i \in DOMAIN ran' : ran'[i].retries <= RetryCount
      /\ \A i \in DOMAIN ran' : ran'[i].status = "failed" => i = Len(ran')
      /\ ran'[Len(ran')].retries = attempt /\ events[Len(events)] = <<event, Head(todo)>>
      /\ EventsOfResults(ran', events)
  BY <1>1, <1>2, RecordKeeps
<1>4. /\ IsSequence(published') /\ Len(published') = 2 * Len(ran') + 2
      /\ published'[Len(published')] = <<"PipelineError", Head(todo)>>
      /\ published'[Len(published') - 1] = <<event, Head(todo)>>
  <2>1. /\ IsSequence(published') /\ Len(published') = Len(events) + 1 /\ Len(events) \in 1..Len(events)
        /\ published'[Len(events)] = events[Len(events)]
        /\ published'[Len(events) + 1] = <<"PipelineError", Head(todo)>>
    <3>1. PICK e : e = <<"PipelineError", Head(todo)>>
      OBVIOUS
    <3>2. /\ IsSequence(Append(events, e)) /\ Len(Append(events, e)) = Len(events) + 1
          /\ \A i \in 1..Len(events) : Append(events, e)[i] = events[i]
          /\ Append(events, e)[Len(events) + 1] = e
      BY <1>3, OneMore
    <3>3. Len(events) \in 1..Len(events)
      BY <1>3
    <3>4. published' = Append(events, e)
      BY <1>2, <3>1
    <3>5. QED
      BY <3>1, <3>2, <3>3, <3>4
  <2>2. Len(events) = Len(published') - 1
    BY <2>1, <1>3
  <2>3. QED
    BY <1>3, <2>1, <2>2
<1>5. EventsOfResults(ran', published')
  BY <1>2, <1>3, EventsStay
<1>6. QED
  BY <1>2, <1>3, <1>4, <1>5, RetryCounts DEF PipeSafe

LEMMA PipeSteps ==
    ASSUME PipeSafe, Pipe!PipelineNext
    PROVE  PipeSafe'
<1>1. ASSUME NEW source, NEW target, Pipe!AddEdge(source, target) PROVE PipeSafe'
  BY <1>1 DEF Pipe!AddEdge, PipeSafe
<1>2. CASE Pipe!Run
  <2>1. ran' = <<>> /\ published' = <<<<"PipelineStarted">>>> /\ result' = "running" /\ attempt' = Pipe!Ordering
    BY <1>2 DEF Pipe!Run
  <2>2. IsSequence(<<>>) /\ IsSequence(<<<<"PipelineStarted">>>>)
    <3>1. <<>> \in Seq({}) /\ <<<<"PipelineStarted">>>> \in Seq({<<"PipelineStarted">>})
      OBVIOUS
    <3>2. QED
      BY <3>1 DEF IsSequence
  <2>3. QED
    BY <2>1, <2>2, RetryCounts DEF PipeSafe, EventsOfResults
<1>3. CASE Pipe!OrderStages
  BY <1>3, RetryCounts DEF Pipe!OrderStages, PipeSafe
<1>4. CASE Pipe!StartStage
  <2>1. /\ result = "running" /\ attempt = Pipe!Waiting /\ attempt' = 0 /\ UNCHANGED <<todo, ran, result>>
        /\ published' = Append(published, <<"PipelineStageStarted", Head(todo)>>)
    BY <1>4 DEF Pipe!StartStage
  <2>2. Len(published) = 2 * Len(ran) + 1 /\ Len(ran) \in Nat
    BY <2>1, RetryCounts, OneMore DEF PipeSafe
  <2>3. /\ IsSequence(published') /\ Len(published') = 2 * Len(ran) + 2
        /\ published'[Len(published')] = <<"PipelineStageStarted", Head(todo)>>
    BY <2>1, <2>2, OneMore DEF PipeSafe
  <2>4. EventsOfResults(ran, published')
    BY <2>1, <2>2, EventsStay DEF PipeSafe
  <2>5. QED
    BY <2>1, <2>3, <2>4, RetryCounts DEF PipeSafe
<1>5. CASE Pipe!StageRaises
  <2>1. result = "running" /\ attempt <= RetryCount
    BY <1>5 DEF Pipe!StageRaises, Pipe!Trying
  <2>2. CASE Pipe!RetriesLeft /\ attempt' = attempt + 1 /\ UNCHANGED <<todo, ran, published, result>>
    BY <2>1, <2>2, RetryCounts DEF PipeSafe, Pipe!RetriesLeft
  <2>3. CASE ~Pipe!RetriesLeft /\ Pipe!Fails("PipelineStageFailed")
    <3>1. attempt = RetryCount
      BY <2>1, <2>3, RetryCounts DEF PipeSafe, Pipe!RetriesLeft
    <3>2. QED
      BY <2>1, <2>3, <3>1, FailingKeeps
  <2>4. QED
    BY <1>5, <2>2, <2>3 DEF Pipe!StageRaises
<1>6. CASE Pipe!StageReturnsFailure
  BY <1>6, FailingKeeps DEF Pipe!StageReturnsFailure, Pipe!Trying
<1>7. ASSUME NEW status \in {"success", "skipped"}, Pipe!StageReturns(status) PROVE PipeSafe'
  <2>1. /\ result = "running" /\ attempt <= RetryCount /\ Pipe!Recorded(status)
        /\ published' = Append(published, <<"PipelineStageCompleted", Head(todo)>>)
        /\ attempt' = Pipe!Waiting /\ result' = result
    BY <1>7 DEF Pipe!StageReturns, Pipe!Trying
  <2>2. /\ IsSequence(ran') /\ Len(published') = 2 * Len(ran') + 1 /\ IsSequence(published')
        /\ \A i \in DOMAIN ran' : ran'[i].retries <= RetryCount
        /\ \A i \in DOMAIN ran' : ran'[i].status # "failed"
        /\ EventsOfResults(ran', published')
    BY <1>7, <2>1, RecordKeeps
  <2>3. QED
    BY <2>1, <2>2, RetryCounts DEF PipeSafe
<1>8. CASE Pipe!RunCompletes
  <2>1. /\ result = "running" /\ attempt = Pipe!Waiting /\ UNCHANGED <<todo, attempt, ran>> /\ result' = "success"
        /\ published' = Append(published, <<"PipelineCompleted">>)
    BY <1>8 DEF Pipe!RunCompletes
  <2>2. Len(published) = 2 * Len(ran) + 1 /\ Len(ran) \in Nat
    BY <2>1, RetryCounts, OneMore DEF PipeSafe
  <2>3. /\ IsSequence(published') /\ Len(published') = 2 * Len(ran) + 2
        /\ published'[Len(published')] = <<"PipelineCompleted">>
    <3>1. PICK e : e = <<"PipelineCompleted">>
      OBVIOUS
    <3>2. /\ IsSequence(Append(published, e)) /\ Len(Append(published, e)) = Len(published) + 1
          /\ Append(published, e)[Len(published) + 1] = e
      BY OneMore DEF PipeSafe
    <3>3. published' = Append(published, e)
      BY <2>1, <3>1
    <3>4. QED
      BY <2>1, <2>2, <3>1, <3>2, <3>3
  <2>4. EventsOfResults(ran, published')
    BY <2>1, <2>2, EventsStay DEF PipeSafe
  <2>5. QED
    BY <2>1, <2>3, <2>4, RetryCounts DEF PipeSafe
<1>9. CASE Pipe!HandlerRaises
  BY <1>9, RetryCounts DEF Pipe!HandlerRaises, PipeSafe
<1>10. QED
  BY <1>1, <1>2, <1>3, <1>4, <1>5, <1>6, <1>7, <1>8, <1>9 DEF Pipe!PipelineNext

LEMMA PipeWorks ==
    ASSUME PipeSafe
    PROVE  Pipe!RetriesAsConfigured /\ Pipe!EventsTellRun
<1>1. Pipe!RetriesAsConfigured
  BY DEF PipeSafe, Pipe!RetriesAsConfigured, Pipe!Last
<1>2. Pipe!EventsTellRun
  BY DEF PipeSafe, EventsOfResults, Pipe!EventsTellRun
<1>3. QED
  BY <1>1, <1>2

-----------------------------------------------------------------------------
(***************************************************************************)
(* Brick sizes.                                                            *)
(***************************************************************************)

Regimes == {"none", "low", "medium", "high"}

(* A change of regime that is not the first has cleared the threshold it   *)
(* passes by the hysteresis.                                               *)
Cleared(switch, hysteresis) ==
    /\ switch.to # "none" /\ switch.to # switch.from
    /\ switch.from # "none" /\ switch.to = "low" => switch.stat < Low - hysteresis
    /\ switch.from = "low" => switch.stat >= Low + hysteresis
    /\ switch.from # "none" /\ switch.to = "high" => switch.stat >= High + hysteresis
    /\ switch.from = "high" => switch.stat < High - hysteresis

ProviderTyped(p) ==
    /\ p = [f \in DOMAIN Size!Unset |-> p[f]]
    /\ p.stat \in Int /\ p.prev \in Int /\ p.regime \in Regimes

SizeSafe ==
    /\ size \in SizeConfigurations /\ sizeSeen \in Seq(SizeCandles)
    /\ ProviderTyped(provider) /\ sizeTwin \in {<<>>, <<provider>>}
    /\ switches \in Seq([from : Regimes, to : Regimes, stat : Int])
    /\ provider.regime = IF switches = <<>> THEN "none" ELSE switches[Len(switches)].to
    /\ \A i \in DOMAIN switches : Cleared(switches[i], size.hysteresis)
    /\ \A i \in 2..Len(switches) : switches[i].from = switches[i - 1].to

LEMMA SizesTyped ==
    /\ One \in Int /\ Window \in Nat \ {0} /\ Period \in Nat \ {0} /\ Low \in Int /\ High \in Int /\ Low < High
    /\ \A c \in SizeCandles : DOMAIN c \subseteq Size!Field /\ DOMAIN c # {} /\ \A f \in DOMAIN c : c[f] \in Nat
    /\ \A c \in SizeConfigurations : c.hysteresis \in Nat
<1>1. /\ One \in Int /\ Window \in Nat \ {0} /\ Period \in Nat \ {0} /\ Low \in Int /\ High \in Int /\ Low < High
      /\ \A c \in SizeCandles : DOMAIN c \subseteq Size!Field /\ DOMAIN c # {} /\ \A f \in DOMAIN c : c[f] \in Nat
  BY BarsInstance DEF Size!SizeConstants
<1>2. \A c \in SizeConfigurations : c.hysteresis \in Nat
  BY BarsInstance DEF Size!SizeConstants
<1>3. QED
  BY <1>1, <1>2

(* What a candle is priced at is one of its prices. *)
LEMMA PricedWithin ==
    ASSUME NEW c \in SizeCandles, NEW field
    PROVE  /\ Size!Close(c) \in {c[f] : f \in DOMAIN c} /\ Size!Close(c) \in Nat
           /\ Size!Price(c, field) \in {c[f] : f \in DOMAIN c} /\ Size!Price(c, field) \in Nat
<1>1. PICK fields : fields = <<"close", "open", "high", "low">>
  OBVIOUS
<1>2. PICK I : I = {i \in 1..4 : fields[i] \in DOMAIN c}
  OBVIOUS
<1>3. I \in SUBSET Nat /\ I # {}
  <2>1. PICK f \in Size!Field : f \in DOMAIN c
    BY SizesTyped
  <2>2. \E i \in 1..4 : fields[i] = f
    BY <1>1 DEF Size!Field
  <2>3. QED
    BY <1>2, <2>1, <2>2
<1>4. PICK first : first = Size!Min(I)
  OBVIOUS
<1>5. first \in I
  BY <1>3, <1>4, LeastOf DEF Size!Min, Aggregation!Min
<1>6. Size!Close(c) = c[fields[first]]
  BY <1>1, <1>2, <1>3, <1>4 DEF Size!Close, Size!SelectInSeq
<1>7. fields[first] \in DOMAIN c
  BY <1>2, <1>5
<1>8. QED
  BY <1>6, <1>7, SizesTyped DEF Size!Price

(* The reference price lies between the least price and the greatest. *)
LEMMA MeansLieBetween ==
    ASSUME NEW low \in Nat, NEW high \in Nat,
           NEW a \in low..high, NEW b \in low..high, NEW c \in low..high, NEW d \in low..high
    PROVE  /\ (a + b) \div 2 \in low..high
           /\ (a + b + c) \div 3 \in low..high
           /\ (a + b + c + d) \div 4 \in low..high
OBVIOUS

LEMMA ReferencesLieBetween ==
    ASSUME NEW c \in SizeCandles, NEW s \in Size!Field \cup {"typical", "mean", "median"}
    PROVE  Size!ReferencePrice(c, s) \in
               Size!Min({c[f] : f \in DOMAIN c})..Size!Max({c[f] : f \in DOMAIN c})
<1>1. PICK prices : prices = {c[f] : f \in DOMAIN c}
  OBVIOUS
<1>2. prices \in SUBSET Nat /\ prices # {}
  BY <1>1, SizesTyped
<1>3. PICK low : low = Size!Min(prices)
  OBVIOUS
<1>4. low \in prices /\ \A y \in prices : low <= y
  BY <1>2, <1>3, LeastOf DEF Size!Min, Aggregation!Min
<1>5. PICK bound \in Nat : \A y \in prices : y <= bound
  <2>1. PICK F : F = [f \in Size!Field |-> IF f \in DOMAIN c THEN c[f] ELSE 0]
    OBVIOUS
  <2>2. \A f \in Size!Field : F[f] \in Nat
    BY <2>1, SizesTyped
  <2>3. /\ F["open"] \in Nat /\ F["high"] \in Nat /\ F["low"] \in Nat /\ F["close"] \in Nat
    BY <2>2 DEF Size!Field
  <2>4. \A f \in Size!Field : F[f] <= F["open"] + F["high"] + F["low"] + F["close"]
    BY <2>3 DEF Size!Field
  <2>5. \A f \in DOMAIN c : f \in Size!Field /\ F[f] = c[f]
    BY <2>1, SizesTyped
  <2>6. F["open"] + F["high"] + F["low"] + F["close"] \in Nat
    BY <2>3
  <2>7. QED
    BY <1>1, <2>4, <2>5, <2>6
<1>6. PICK high : high = Size!Max(prices)
  OBVIOUS
<1>7. high \in prices /\ \A y \in prices : y <= high
  <2>1. Aggregation!Max(prices) \in prices /\ \A y \in prices : y <= Aggregation!Max(prices)
    BY <1>2, <1>5, GreatestOf
  <2>2. Aggregation!Max(prices) = Size!Max(prices)
    BY DEF Size!Max, Aggregation!Max
  <2>3. QED
    BY <1>6, <2>1, <2>2
<1>8. low \in Nat /\ high \in Nat
  BY <1>2, <1>4, <1>7
<1>9. \A f : Size!Price(c, f) \in low..high /\ Size!Close(c) \in low..high
  BY <1>1, <1>4, <1>7, <1>8, PricedWithin
<1>10. PICK o, h, l, k : /\ o = Size!Price(c, "open") /\ h = Size!Price(c, "high") /\ l = Size!Price(c, "low")
                         /\ k = Size!Close(c)
  OBVIOUS
<1>11. {o, h, l, k} \subseteq low..high
  BY <1>9, <1>10
<1>12. /\ (h + l) \div 2 \in low..high /\ (h + l + k) \div 3 \in low..high
       /\ (o + h + l + k) \div 4 \in low..high
  BY <1>8, <1>11, MeansLieBetween
<1>13. Size!ReferencePrice(c, s) \in low..high
  <2>1. CASE s \in Size!Field
    BY <2>1, <1>9 DEF Size!ReferencePrice, Size!Field
  <2>2. CASE s = "typical"
    BY <2>2, <1>10, <1>12 DEF Size!ReferencePrice, Size!Field
  <2>3. CASE s = "mean"
    BY <2>3, <1>10, <1>12 DEF Size!ReferencePrice, Size!Field
  <2>4. CASE s = "median"
    BY <2>4, <1>10, <1>12 DEF Size!ReferencePrice, Size!Field
  <2>5. QED
    BY <2>1, <2>2, <2>3, <2>4
<1>14. QED
  BY <1>1, <1>3, <1>6, <1>13

LEMMA RangeTyped ==
    ASSUME NEW c \in SizeCandles, NEW prev \in Int
    PROVE  Size!TrueRange(c, prev) \in Int
<1>1. PICK h, l : h = Size!Price(c, "high") /\ l = Size!Price(c, "low")
  OBVIOUS
<1>2. h \in Nat /\ l \in Nat
  BY <1>1, PricedWithin
<1>3. \A a, b, d \in Int : Size!Max({a, b, d}) \in Int
  <2>1. SUFFICES ASSUME NEW a \in Int, NEW b \in Int, NEW d \in Int PROVE Size!Max({a, b, d}) \in Int
    OBVIOUS
  <2>2. \E x \in {a, b, d} : \A y \in {a, b, d} : x >= y
    OBVIOUS
  <2>3. Size!Max({a, b, d}) \in {a, b, d}
    BY <2>2 DEF Size!Max
  <2>4. QED
    BY <2>3
<1>4. Size!Abs(h - prev) \in Int /\ Size!Abs(l - prev) \in Int /\ h - l \in Int
  BY <1>2 DEF Size!Abs
<1>5. QED
  BY <1>1, <1>3, <1>4 DEF Size!TrueRange

(* A provider that is updated keeps its type, and changes its regime only  *)
(* past a threshold.                                                       *)
LEMMA UpdatedClears ==
    ASSUME NEW p, ProviderTyped(p), NEW c \in SizeCandles, size \in SizeConfigurations
    PROVE  LET q == Size!Updated(p, c) IN
           /\ ProviderTyped(q)
           /\ q.regime # p.regime => Cleared([from |-> p.regime, to |-> q.regime, stat |-> q.stat], size.hysteresis)
<1>1. PICK tr : tr = Size!TrueRange(c, p.prev)
  OBVIOUS
<1>2. tr \in Int
  BY <1>1, RangeTyped DEF ProviderTyped
<1>3. PICK stat : stat = IF p.stat = Size!None THEN tr ELSE (2 * tr + (Window - 1) * p.stat) \div (Window + 1)
  OBVIOUS
<1>4. stat \in Int
  <2>1. \A x, y \in Int, w \in Nat \ {0} : (2 * x + (w - 1) * y) \div (w + 1) \in Int
    OBVIOUS
  <2>2. QED
    BY <1>2, <1>3, <2>1, SizesTyped DEF ProviderTyped
<1>5. PICK child : child = Size!AtrUpdated(p, c)
  OBVIOUS
<1>6. /\ child = [f \in DOMAIN Size!Unset |-> child[f]]
      /\ child.stat = p.stat /\ child.regime = p.regime
  <2>1. p = [f \in DOMAIN Size!Unset |-> p[f]]
    BY DEF ProviderTyped
  <2>2. QED
    BY <1>5, <2>1 DEF Size!AtrUpdated, Size!Unset
<1>7. PICK next : next = [child EXCEPT !.size = Size!PercentageSize(@, c),
                                       !.stat = IF @ = Size!None THEN tr ELSE (2 * tr + (Window - 1) * @) \div (Window + 1),
                                       !.prev = Size!Close(c), !.count = @ + 1]
  OBVIOUS
<1>8. /\ next = [f \in DOMAIN Size!Unset |-> next[f]]
      /\ next.stat = stat /\ next.prev = Size!Close(c) /\ next.regime = p.regime
  BY <1>3, <1>6, <1>7 DEF Size!Unset
<1>9. PICK q : q = [next EXCEPT !.regime = Size!Regime(next)]
  OBVIOUS
<1>10. q = Size!Updated(p, c)
  BY <1>1, <1>5, <1>7, <1>9 DEF Size!Updated
<1>11. /\ q = [f \in DOMAIN Size!Unset |-> q[f]]
       /\ q.stat = stat /\ q.prev = Size!Close(c) /\ q.regime = Size!Regime(next)
  BY <1>8, <1>9 DEF Size!Unset
<1>12. size.hysteresis \in Nat
  BY SizesTyped
<1>13. /\ Size!Regime(next) \in Regimes \ {"none"}
       /\ Size!Regime(next) # p.regime => Cleared([from |-> p.regime, to |-> Size!Regime(next), stat |-> stat], size.hysteresis)
  <2>1. CASE p.regime = "none"
    BY <2>1, <1>4, <1>8, <1>12, SizesTyped DEF Size!Regime, Cleared, Regimes
  <2>2. CASE p.regime = "low"
    BY <2>2, <1>4, <1>8, <1>12, SizesTyped DEF Size!Regime, Cleared, Regimes
  <2>3. CASE p.regime = "medium"
    BY <2>3, <1>4, <1>8, <1>12, SizesTyped DEF Size!Regime, Cleared, Regimes
  <2>4. CASE p.regime = "high"
    BY <2>4, <1>4, <1>8, <1>12, SizesTyped DEF Size!Regime, Cleared, Regimes
  <2>5. QED
    BY <2>1, <2>2, <2>3, <2>4 DEF ProviderTyped, Regimes
<1>14. ProviderTyped(q)
  BY <1>4, <1>11, <1>13, PricedWithin DEF ProviderTyped
<1>15. QED
  BY <1>10, <1>11, <1>13, <1>14

LEMMA SizeBegins == Size!Init => SizeSafe
BY DEF Size!Init, Size!Unset, Size!None, SizeSafe, ProviderTyped, Regimes

LEMMA SizeSteps ==
    ASSUME SizeSafe, Size!Next
    PROVE  SizeSafe'
<1>1. CASE Size!SaveAndRestore
  BY <1>1 DEF Size!SaveAndRestore, Size!Restored, SizeSafe, Cleared
<1>2. CASE Size!Reset
  BY <1>2 DEF Size!Reset, Size!Unset, Size!None, SizeSafe, ProviderTyped, Regimes
<1>3. ASSUME NEW c \in SizeCandles, Size!Update(c) PROVE SizeSafe'
  <2>1. PICK q : q = Size!Updated(provider, c)
    OBVIOUS
  <2>2. /\ ProviderTyped(q)
        /\ q.regime # provider.regime => Cleared([from |-> provider.regime, to |-> q.regime, stat |-> q.stat], size.hysteresis)
    BY <2>1, UpdatedClears DEF SizeSafe
  <2>3. /\ size' = size /\ provider' = q /\ sizeSeen' = Append(sizeSeen, c)
        /\ sizeTwin' = IF sizeTwin = <<>> THEN sizeTwin ELSE <<Size!Updated(sizeTwin[1], c)>>
        /\ switches' = IF q.regime = provider.regime THEN switches
                       ELSE Append(switches, [from |-> provider.regime, to |-> q.regime, stat |-> q.stat])
    BY <1>3, <2>1 DEF Size!Update
  <2>4. sizeTwin' \in {<<>>, <<q>>}
    <3>1. CASE sizeTwin = <<>>
      BY <2>3, <3>1
    <3>2. CASE sizeTwin = <<provider>>
      <4>1. sizeTwin[1] = provider /\ sizeTwin # <<>>
        BY <3>2
      <4>2. QED
        BY <2>1, <2>3, <4>1
    <3>3. QED
      BY <3>1, <3>2 DEF SizeSafe
  <2>5. CASE q.regime = provider.regime
    <3>1. size' = size /\ switches' = switches /\ sizeSeen' \in Seq(SizeCandles)
      BY <1>3, <2>3, <2>5 DEF SizeSafe
    <3>2. ProviderTyped(provider)' /\ sizeTwin' \in {<<>>, <<provider'>>} /\ provider'.regime = provider.regime
      BY <2>2, <2>3, <2>4, <2>5 DEF ProviderTyped
    <3>3. QED
      BY <3>1, <3>2 DEF SizeSafe
  <2>6. CASE q.regime # provider.regime
    <3>1. PICK s : s = [from |-> provider.regime, to |-> q.regime, stat |-> q.stat]
      OBVIOUS
    <3>2. s \in [from : Regimes, to : Regimes, stat : Int] /\ Cleared(s, size.hysteresis)
      BY <2>2, <2>6, <3>1 DEF SizeSafe, ProviderTyped
    <3>3. switches' = Append(switches, s)
      BY <2>3, <2>6, <3>1
    <3>4. /\ switches' \in Seq([from : Regimes, to : Regimes, stat : Int])
          /\ Len(switches) \in Nat /\ Len(switches') = Len(switches) + 1
          /\ \A i \in 1..Len(switches) : switches'[i] = switches[i]
          /\ switches'[Len(switches) + 1] = s
          /\ DOMAIN switches = 1..Len(switches) /\ DOMAIN switches' = 1..(Len(switches) + 1)
      BY <3>2, <3>3 DEF SizeSafe
    <3>5. \A i \in DOMAIN switches' : Cleared(switches'[i], size.hysteresis)
      BY <3>2, <3>4 DEF SizeSafe
    <3>7. \A i \in 2..Len(switches') : switches'[i].from = switches'[i - 1].to
      <4>1. TAKE i \in 2..Len(switches')
      <4>2. CASE i \in 2..Len(switches)
        <5>1. i \in 1..Len(switches) /\ i - 1 \in 1..Len(switches)
          BY <4>2, <3>4
        <5>2. QED
          BY <4>2, <5>1, <3>4 DEF SizeSafe
      <4>3. CASE i = Len(switches) + 1
        <5>1. Len(switches) \in 1..Len(switches) /\ switches # <<>> /\ i - 1 = Len(switches)
          BY <4>1, <4>3, <3>4
        <5>2. provider.regime = switches[Len(switches)].to
          BY <5>1 DEF SizeSafe
        <5>3. QED
          BY <4>3, <5>1, <5>2, <3>1, <3>4
      <4>4. QED
        BY <4>1, <4>2, <4>3, <3>4
    <3>8. q.regime = IF switches' = <<>> THEN "none" ELSE switches'[Len(switches')].to
      BY <3>1, <3>4
    <3>9. sizeSeen' \in Seq(SizeCandles)
      BY <1>3, <2>3 DEF SizeSafe
    <3>10. QED
      BY <2>2, <2>3, <2>4, <3>4, <3>5, <3>7, <3>8, <3>9 DEF SizeSafe, ProviderTyped
  <2>7. QED
    BY <2>5, <2>6
<1>4. QED
  BY <1>1, <1>2, <1>3 DEF Size!Next

LEMMA SizeWorks ==
    ASSUME SizeSafe
    PROVE  Size!ResumedProviderAgrees /\ Size!NoFlapping /\ Size!ReferenceInCandle
<1>1. Size!ResumedProviderAgrees
  BY DEF SizeSafe, Size!ResumedProviderAgrees
<1>2. Size!NoFlapping
  <2>1. SUFFICES ASSUME NEW i \in 2..(Len(switches) - 1), switches[i].from = switches[i + 1].to
                 PROVE  Size!Abs(switches[i].stat - switches[i + 1].stat) > 2 * size.hysteresis
    BY DEF Size!NoFlapping
  <2>2. /\ i \in DOMAIN switches /\ i + 1 \in DOMAIN switches /\ i - 1 \in DOMAIN switches
        /\ i \in 2..Len(switches) /\ i + 1 \in 2..Len(switches) /\ (i + 1) - 1 = i
    BY <2>1 DEF SizeSafe
  <2>3. PICK r, s : r = switches[i] /\ s = switches[i + 1]
    OBVIOUS
  <2>4. /\ r \in [from : Regimes, to : Regimes, stat : Int] /\ s \in [from : Regimes, to : Regimes, stat : Int]
        /\ Cleared(r, size.hysteresis) /\ Cleared(s, size.hysteresis) /\ r.from # "none" /\ s.from = r.to
    <3>1. r \in [from : Regimes, to : Regimes, stat : Int] /\ s \in [from : Regimes, to : Regimes, stat : Int]
      <4>1. PICK R : R = [from : Regimes, to : Regimes, stat : Int]
        OBVIOUS
      <4>2. switches \in Seq(R)
        BY <4>1 DEF SizeSafe
      <4>3. r \in R /\ s \in R
        BY <2>2, <2>3, <4>2
      <4>4. QED
        BY <4>1, <4>3
    <3>2. Cleared(r, size.hysteresis) /\ Cleared(s, size.hysteresis) /\ Cleared(switches[i - 1], size.hysteresis)
      BY <2>2, <2>3 DEF SizeSafe
    <3>3. r.from = switches[i - 1].to /\ s.from = r.to
      BY <2>2, <2>3 DEF SizeSafe
    <3>4. QED
      BY <3>1, <3>2, <3>3 DEF Cleared
  <2>5. size.hysteresis \in Nat
    BY SizesTyped DEF SizeSafe
  <2>6. r.from = s.to
    BY <2>1, <2>3
  <2>7. r.stat \in Int /\ s.stat \in Int
    BY <2>4
  <2>8. \/ r.stat >= Low + size.hysteresis /\ s.stat < Low - size.hysteresis
        \/ s.stat >= Low + size.hysteresis /\ r.stat < Low - size.hysteresis
        \/ r.stat >= High + size.hysteresis /\ s.stat < High - size.hysteresis
        \/ s.stat >= High + size.hysteresis /\ r.stat < High - size.hysteresis
    BY <2>4, <2>6 DEF Cleared, Regimes
  <2>9. Size!Abs(r.stat - s.stat) > 2 * size.hysteresis
    <3>1. PICK x, y, h : x = r.stat /\ y = s.stat /\ h = size.hysteresis
      OBVIOUS
    <3>2. x \in Int /\ y \in Int /\ h \in Nat /\ Low \in Int /\ High \in Int
      BY <2>5, <2>7, <3>1, SizesTyped
    <3>3. x - y > 2 * h \/ y - x > 2 * h
      BY <2>8, <3>1, <3>2
    <3>4. Size!Abs(x - y) > 2 * h
      BY <3>2, <3>3 DEF Size!Abs
    <3>5. QED
      BY <3>1, <3>4
  <2>10. QED
    BY <2>3, <2>9
<1>3. Size!ReferenceInCandle
  <2>1. SUFFICES ASSUME sizeSeen # <<>>, NEW s \in Size!Field \cup {"typical", "mean", "median"}
                 PROVE  LET c == Size!Last(sizeSeen) IN
                        Size!ReferencePrice(c, s) \in
                            Size!Min({c[f] : f \in DOMAIN c})..Size!Max({c[f] : f \in DOMAIN c})
    BY DEF Size!ReferenceInCandle
  <2>2. Size!Last(sizeSeen) \in SizeCandles
    BY <2>1 DEF SizeSafe, Size!Last
  <2>3. QED
    BY <2>2, ReferencesLieBetween
<1>4. QED
  BY <1>1, <1>2, <1>3

-----------------------------------------------------------------------------
(* What sizes, wired engines and pipelines keep, whatever the other parts  *)
(* of the run do                                                           *)
WorksSafe == SizeSafe /\ ConfigSafe /\ PipeSafe

(* Every step of the size providers, of the wiring and of the pipeline     *)
(* keeps what theirs is (BrickSize, RenkoConfig, ProcessingPipeline).      *)
THEOREM WorksInvariant == Spec => []WorksSafe
<1>1. Init => WorksSafe
  BY SizeBegins, ConfigBegins, PipeBegins DEF Init, WorksSafe
<1>2. ASSUME SizeSafe, [Next]_mcVars PROVE SizeSafe'
  <2>1. CASE SizeStep
    BY <1>2, <2>1, SizeSteps DEF SizeStep
  <2>2. CASE UNCHANGED sizeVars
    BY <1>2, <2>2 DEF sizeVars, SizeSafe, ProviderTyped
  <2>3. QED
    BY <1>2, <2>1, <2>2 DEF Next, mcVars, AggregationStep, EngineStep, ConfigStep, PipelineStep
<1>3. ASSUME ConfigSafe, [Next]_mcVars PROVE ConfigSafe'
  <2>1. CASE ConfigStep
    BY <1>3, <2>1, ConfigSteps DEF ConfigStep
  <2>2. CASE UNCHANGED configVars
    BY <1>3, <2>2 DEF configVars, ConfigSafe, Registered, EngineFits, SavedFits, Fits
  <2>3. QED
    BY <1>3, <2>1, <2>2 DEF Next, mcVars, AggregationStep, EngineStep, SizeStep, PipelineStep
<1>4. ASSUME PipeSafe, [Next]_mcVars PROVE PipeSafe'
  <2>1. CASE PipelineStep
    BY <1>4, <2>1, PipeSteps DEF PipelineStep
  <2>2. CASE UNCHANGED pipelineVars
    BY <1>4, <2>2 DEF pipelineVars, PipeSafe
  <2>3. QED
    BY <1>4, <2>1, <2>2 DEF Next, mcVars, AggregationStep, EngineStep, SizeStep, ConfigStep
<1>5. WorksSafe /\ [Next]_mcVars => WorksSafe'
  BY <1>2, <1>3, <1>4 DEF WorksSafe
<1>6. QED
  BY <1>1, <1>5, PTL DEF Spec

(* What the validator accepts can be built, an engine has the components   *)
(* its configuration names and is restored with them; a restored provider  *)
(* gives the sizes of the one that went on, a regime that goes there and   *)
(* back has seen a swing of twice the hysteresis, and a reference price is *)
(* a price of the candle; a stage is tried again as often as it may be and *)
(* no stage follows one that failed, as the events of the run tell, for    *)
(* any candles, configurations, registrations, stages and retries.         *)
THEOREM WorksRight == Spec => []WorksAsConfigured
<1>1. WorksSafe => WorksAsConfigured
  BY SizeWorks, ConfigWorks, PipeWorks DEF WorksSafe, WorksAsConfigured
<1>2. QED
  BY <1>1, WorksInvariant, PTL
=============================================================================

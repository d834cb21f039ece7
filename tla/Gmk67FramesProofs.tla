-------------------------- MODULE Gmk67FramesProofs --------------------------
(***************************************************************************)
(* What the GMK67-family driver's encodings promise, for every lighting,   *)
(* every colour and every key index table that meets KeyIndexAssumption.   *)
(***************************************************************************)
EXTENDS Gmk67Frames, TLAPS

-----------------------------------------------------------------------------
(* The two scales. *)

\* Both conversions stay on their scale: brightness and speed never overflow
\* the frame's 0..15 nor a reply's byte (scale_255_to_15, scale_15_to_255).
THEOREM ScalesInRange ==
  /\ \A v \in Byte : scale_255_to_15(v) \in 0 .. LEVEL_MAX
  /\ \A v \in Byte : scale_15_to_255(v) \in Byte
<1>1. ASSUME NEW v \in Byte PROVE scale_255_to_15(v) \in 0 .. LEVEL_MAX
  BY DEF scale_255_to_15, Byte, LEVEL_MAX
<1>2. ASSUME NEW v \in Byte PROVE scale_15_to_255(v) \in Byte
  BY DEF scale_15_to_255, Byte, LEVEL_MAX, Lesser
<1>3. QED BY <1>1, <1>2

\* A level read on VIA's scale and written back is the same level on the board.
THEOREM LevelRoundTrip ==
  \A v \in 0 .. LEVEL_MAX : scale_255_to_15(scale_15_to_255(v)) = v
BY DEF scale_255_to_15, scale_15_to_255, LEVEL_MAX, Lesser

\* A level written on VIA's scale reads back within half a step of the board's.
THEOREM LevelWithinHalfAStep ==
  \A v \in Byte : Diff(scale_15_to_255(scale_255_to_15(v)), v) <= 8
BY DEF scale_255_to_15, scale_15_to_255, LEVEL_MAX, Lesser, Greater, Diff, Byte

\* Levels keep their order: more brightness asked for is never less shown.
THEOREM LevelsKeepOrder ==
  \A v, w \in Byte : v <= w => scale_255_to_15(v) <= scale_255_to_15(w)
BY DEF scale_255_to_15, Byte

-----------------------------------------------------------------------------
(* Colours. *)

\* The products of hs_to_rgb stay within its 16 bits.
LEMMA ProductBound ==
  ASSUME NEW s \in Byte, NEW x \in Byte
  PROVE  /\ (s * x) \div 255 \in 0 .. s
         /\ s * x \in Nat /\ s * x <= 255 * 255
<1> DEFINE y == s * x
<1>1. y \in Nat /\ y <= 255 * s
  BY DEF Byte
<1> HIDE DEF y
<1>2. y \div 255 \in 0 .. s
  BY <1>1 DEF Byte
<1>3. y \in Nat /\ y <= 255 * 255
  <2>1. s \in Nat /\ s <= 255
    BY DEF Byte
  <2>2. 255 * s <= 255 * 255
    BY <2>1
  <2>3. QED BY <1>1, <2>1, <2>2
<1>4. QED BY <1>2, <1>3, Zenon DEF y

\* The three levels of a hue: p is the lowest, q and t lie between it and 255.
LEMMA ColourLevels ==
  ASSUME NEW h \in Byte, NEW s \in Byte, s # 0
  PROVE  LET remainder == (h - (h \div 43) * 43) * 6
             q == 255 - (s * remainder) \div 255
             t == 255 - (s * (255 - remainder)) \div 255
         IN q \in (255 - s) .. 255 /\ t \in (255 - s) .. 255
<1> DEFINE remainder == (h - (h \div 43) * 43) * 6
           other == 255 - remainder
<1>1. remainder \in Byte /\ other \in Byte
  BY DEF Byte
<1> HIDE DEF remainder, other
<1>2. /\ (s * remainder) \div 255 \in 0 .. s
      /\ (s * other) \div 255 \in 0 .. s
  BY <1>1, ProductBound, Zenon
<1>3. \A y \in 0 .. s : 255 - y \in (255 - s) .. 255
  BY DEF Byte
<1>4. QED BY <1>2, <1>3, Zenon DEF remainder, other

\* A colour at full value: some channel is at 255, the lowest at 255 - s.
LEMMA FullValue ==
  ASSUME NEW h \in Byte, NEW s \in Byte
  PROVE  \E q \in (255 - s) .. 255 :
           hs_to_rgb(h, s) \in {<<255, q, 255 - s>>, <<q, 255, 255 - s>>, <<255 - s, 255, q>>,
                                <<255 - s, q, 255>>, <<q, 255 - s, 255>>, <<255, 255 - s, q>>}
<1> DEFINE remainder == (h - (h \div 43) * 43) * 6
           q == 255 - (s * remainder) \div 255
           t == 255 - (s * (255 - remainder)) \div 255
<1>1. CASE s = 0
  <2>1. 255 \in (255 - s) .. 255 /\ 255 - s = 255
    BY <1>1
  <2>2. hs_to_rgb(h, s) = <<255, 255, 255 - s>>
    BY <1>1, <2>1 DEF hs_to_rgb
  <2>3. QED BY <2>1, <2>2
<1>2. CASE s # 0
  <2>1. q \in (255 - s) .. 255 /\ t \in (255 - s) .. 255
    BY <1>2, ColourLevels
  <2>2. hs_to_rgb(h, s) \in {<<255, t, 255 - s>>, <<q, 255, 255 - s>>, <<255 - s, 255, t>>,
                            <<255 - s, q, 255>>, <<t, 255 - s, 255>>, <<255, 255 - s, q>>}
    BY <1>2 DEF hs_to_rgb
  <2> HIDE DEF q, t
  <2>3. QED BY <2>1, <2>2
<1>3. QED BY <1>1, <1>2

\* Hue and saturation always make a colour the mode frame can carry.
THEOREM ColourIsBytes ==
  \A h, s \in Byte : hs_to_rgb(h, s) \in Byte \X Byte \X Byte
<1>1. SUFFICES ASSUME NEW h \in Byte, NEW s \in Byte
               PROVE  hs_to_rgb(h, s) \in Byte \X Byte \X Byte
  OBVIOUS
<1>2. PICK q \in (255 - s) .. 255 :
           hs_to_rgb(h, s) \in {<<255, q, 255 - s>>, <<q, 255, 255 - s>>, <<255 - s, 255, q>>,
                                <<255 - s, q, 255>>, <<q, 255 - s, 255>>, <<255, 255 - s, q>>}
  BY FullValue
<1>3. q \in Byte /\ 255 - s \in Byte /\ 255 \in Byte
  BY DEF Byte
<1>4. QED BY <1>2, <1>3

\* Saturation survives RGB exactly: what GetLighting returns of a colour set over
\* VIA has the saturation that was set, whatever the hue (rgb_to_hs of hs_to_rgb).
THEOREM SaturationRoundTrip ==
  \A h, s \in Byte : LET c == hs_to_rgb(h, s) IN rgb_to_hs(c[1], c[2], c[3])[2] = s
<1>1. SUFFICES ASSUME NEW h \in Byte, NEW s \in Byte
               PROVE  LET c == hs_to_rgb(h, s) IN rgb_to_hs(c[1], c[2], c[3])[2] = s
  OBVIOUS
<1> DEFINE c == hs_to_rgb(h, s)
<1>2. PICK q \in (255 - s) .. 255 :
           c \in {<<255, q, 255 - s>>, <<q, 255, 255 - s>>, <<255 - s, 255, q>>,
                  <<255 - s, q, 255>>, <<q, 255 - s, 255>>, <<255, 255 - s, q>>}
  BY FullValue
<1> HIDE DEF c
<1>3. /\ Greater(Greater(c[1], c[2]), c[3]) = 255
      /\ Lesser(Lesser(c[1], c[2]), c[3]) = 255 - s
  BY <1>2 DEF Greater, Lesser, Byte
<1>4. 255 - (255 - s) = s /\ (s * 255) \div 255 = s
  BY DEF Byte
<1>5. ASSUME NEW r, NEW g, NEW b,
             Greater(Greater(r, g), b) = 255, Lesser(Lesser(r, g), b) = 255 - s
      PROVE  rgb_to_hs(r, g, b)[2] = s
  <2>1. CASE s = 0
    BY <1>4, <1>5, <2>1 DEF rgb_to_hs
  <2>2. CASE s # 0
    BY <1>4, <1>5, <2>2 DEF rgb_to_hs
  <2>3. QED BY <2>1, <2>2
<1>6. QED BY <1>3, <1>5 DEF c

-----------------------------------------------------------------------------
(* How far a hue drifts. *)

\* A colour of the wheel: the sixth it is in, its saturation, and by how much its middle
\* channel exceeds its lowest.
Mixed(k, s, v) ==
  LET p == 255 - s
      m == p + v
  IN CASE k = 0 -> <<255, m, p>> [] k = 1 -> <<m, 255, p>> [] k = 2 -> <<p, 255, m>>
       [] k = 3 -> <<p, m, 255>> [] k = 4 -> <<m, p, 255>> [] k = 5 -> <<255, p, m>>

\* That excess at the step x of a sixth: it rises in the even ones, falls in the odd ones.
Rise(s, x) == s - (s * (255 - 6 * x)) \div 255
Fall(s, x) == s - (s * (6 * x)) \div 255
Excess(k, s, x) == IF k \in {0, 2, 4} THEN Rise(s, x) ELSE Fall(s, x)

Saturation == 1 .. 255
Close(v, w) == v - w <= 12 /\ w - v <= 12

\* The wheel is what hs_to_rgb goes round.
LEMMA Wheel ==
  ASSUME NEW k \in 0 .. 5, NEW x \in 0 .. 42, 43 * k + x \in Byte, NEW s \in Saturation
  PROVE  hs_to_rgb(43 * k + x, s) = Mixed(k, s, Excess(k, s, x))
<1> DEFINE h == 43 * k + x
           low == (s * (255 - 6 * x)) \div 255
           high == (s * (6 * x)) \div 255
<1>1. h \div 43 = k /\ (h - k * 43) * 6 = 6 * x
  BY DEF Byte
<1>2. low \in Int /\ high \in Int
  <2>1. s * (255 - 6 * x) \in Int /\ s * (6 * x) \in Int
    BY DEF Saturation
  <2> QED  BY <2>1
<1>3. s # 0 /\ s \in Int
  BY DEF Saturation
<1> HIDE DEF h
<1>4. Excess(k, s, x) = IF k \in {0, 2, 4} THEN s - low ELSE s - high
  BY Zenon DEF Excess, Rise, Fall
<1> HIDE DEF low, high
<1>5. /\ 255 - s + (s - low) = 255 - low
      /\ 255 - s + (s - high) = 255 - high
  BY <1>2, <1>3
<1>6. k = 0 => Excess(k, s, x) = s - low /\ hs_to_rgb(h, s) = <<255, 255 - low, 255 - s>>
  BY <1>1, <1>3, <1>4 DEF hs_to_rgb, low
<1>7. k = 1 => Excess(k, s, x) = s - high /\ hs_to_rgb(h, s) = <<255 - high, 255, 255 - s>>
  BY <1>1, <1>3, <1>4 DEF hs_to_rgb, high
<1>8. k = 2 => Excess(k, s, x) = s - low /\ hs_to_rgb(h, s) = <<255 - s, 255, 255 - low>>
  BY <1>1, <1>3, <1>4 DEF hs_to_rgb, low
<1>9. k = 3 => Excess(k, s, x) = s - high /\ hs_to_rgb(h, s) = <<255 - s, 255 - high, 255>>
  BY <1>1, <1>3, <1>4 DEF hs_to_rgb, high
<1>10. k = 4 => Excess(k, s, x) = s - low /\ hs_to_rgb(h, s) = <<255 - low, 255 - s, 255>>
  BY <1>1, <1>3, <1>4 DEF hs_to_rgb, low
<1>11. k = 5 => Excess(k, s, x) = s - high /\ hs_to_rgb(h, s) = <<255, 255 - s, 255 - high>>
  BY <1>1, <1>3, <1>4 DEF hs_to_rgb, high
<1>12. k \in {0, 1, 2, 3, 4, 5}
  OBVIOUS
<1> QED  BY <1>5, <1>6, <1>7, <1>8, <1>9, <1>10, <1>11, <1>12 DEF h, Mixed

\* The step nearest below an excess.
LEMMA StepOf ==
  ASSUME NEW s \in Saturation, NEW v \in 0 .. s
  PROVE  LET y == (43 * v) \div s IN
         /\ y \in 0 .. 43
         /\ s * y <= 43 * v /\ 43 * v < s * y + s
         /\ y = 43 <=> v = s
<1> DEFINE y == (43 * v) \div s
<1>1. y \in Int /\ s * y <= 43 * v /\ 43 * v < s * y + s
  BY DEF Saturation
<1> HIDE DEF y
<1>2. s \in Nat /\ s >= 1 /\ v \in Nat /\ v <= s
  BY DEF Saturation
<1>3. y >= 0
  BY <1>1, <1>2
<1>4. y <= 43
  BY <1>1, <1>2
<1>5. v = s => y = 43
  BY <1>1, <1>2, <1>4
<1>6. y = 43 => v = s
  BY <1>1, <1>2
<1> QED  BY <1>1, <1>3, <1>4, <1>5, <1>6 DEF y

\* At that step, one off it, and at its mirror images, the excess comes back close.
LEMMA StepsAreClose ==
  ASSUME NEW s \in Saturation, NEW v \in 0 .. s, NEW y \in 0 .. 43,
         s * y <= 43 * v, 43 * v < s * y + s
  PROVE  /\ Close(Rise(s, y), v)
         /\ Close(Rise(s, y - 1), v)
         /\ Close(Fall(s, 42 - y), v)
         /\ Close(Fall(s, 41 - y), v)
<1> DEFINE w == s * y
<1>1. s \in Int /\ 1 <= s /\ s <= 255 /\ v \in Int /\ 0 <= v /\ v <= s /\ w \in Int
      /\ w <= 43 * v /\ 43 * v < w + s
  BY DEF Saturation
<1>2. /\ s * (255 - 6 * y) = 255 * s - 6 * w
      /\ s * (255 - 6 * (y - 1)) = 261 * s - 6 * w
      /\ s * (6 * (42 - y)) = 252 * s - 6 * w
      /\ s * (6 * (41 - y)) = 246 * s - 6 * w
  BY DEF Saturation
<1> HIDE DEF w
<1>3. Close(s - (255 * s - 6 * w) \div 255, v)
  BY <1>1 DEF Close
<1>4. Close(s - (261 * s - 6 * w) \div 255, v)
  BY <1>1 DEF Close
<1>5. Close(s - (252 * s - 6 * w) \div 255, v)
  BY <1>1 DEF Close
<1>6. Close(s - (246 * s - 6 * w) \div 255, v)
  BY <1>1 DEF Close
<1>7. /\ Rise(s, y) = s - (255 * s - 6 * w) \div 255
      /\ Rise(s, y - 1) = s - (261 * s - 6 * w) \div 255
      /\ Fall(s, 42 - y) = s - (252 * s - 6 * w) \div 255
      /\ Fall(s, 41 - y) = s - (246 * s - 6 * w) \div 255
  BY <1>2 DEF Rise, Fall
<1> QED  BY <1>3, <1>4, <1>5, <1>6, <1>7

\* The hue rgb_to_hs gives the step y of the sixth k: some hues are one off.
HueAt(k, y) ==
  CASE k = 0 -> y [] k = 1 -> 85 - y [] k = 2 -> 85 + y
    [] k = 3 -> 171 - y [] k = 4 -> 171 + y [] k = 5 -> IF y = 0 THEN 0 ELSE 256 - y

\* Where two sixths meet, the conversion takes the colour for one of the first channel
\* that is at its highest.
Own(k, s, v) == v = s => k \in {0, 2, 5}
LEMMA SixthOf ==
  ASSUME NEW k \in 0 .. 5, NEW s \in Saturation, NEW v \in 0 .. s
  PROVE  \E j \in 0 .. 5 : Own(j, s, v) /\ Mixed(k, s, v) = Mixed(j, s, v)
<1>1. CASE v # s
  BY <1>1 DEF Own
<1>2. CASE v = s
  <2>1. 255 - s + v = 255
    BY <1>2 DEF Saturation
  <2>2. /\ Mixed(1, s, v) = Mixed(0, s, v)
        /\ Mixed(3, s, v) = Mixed(2, s, v)
        /\ Mixed(4, s, v) = Mixed(5, s, v)
    BY <2>1 DEF Mixed
  <2>3. k \in {0, 2, 5} \/ k = 1 \/ k = 3 \/ k = 4
    OBVIOUS
  <2>4. 0 \in 0 .. 5 /\ 2 \in 0 .. 5 /\ 5 \in 0 .. 5
    OBVIOUS
  <2> QED  BY <2>2, <2>3, <2>4, Zenon DEF Own
<1> QED  BY <1>1, <1>2

\* So its hue is that of a step, and its saturation exact.
LEMMA HueOf ==
  ASSUME NEW k \in 0 .. 5, NEW s \in Saturation, NEW v \in 0 .. s, Own(k, s, v)
  PROVE  LET c == Mixed(k, s, v) IN
         rgb_to_hs(c[1], c[2], c[3]) = <<HueAt(k, (43 * v) \div s), s>>
<1> DEFINE p == 255 - s
           m == p + v
           y == (43 * v) \div s
<1>1. /\ s \in Int /\ s >= 1 /\ s <= 255 /\ v \in Int /\ 0 <= v /\ v <= s
      /\ p \in Int /\ 0 <= p /\ p < 255 /\ p <= m /\ m \in Int /\ m <= 255
      /\ m - p = v /\ p - m = -v /\ 255 - p = s /\ (s * 255) \div 255 = s
      /\ m = 255 <=> v = s
  BY DEF Saturation
<1>2. y \in 0 .. 43 /\ Truncated(43 * v, s) = y
  BY <1>1, StepOf DEF Truncated
<1>3. Truncated(43 * (-v), s) = -y
  <2>1. 43 * (-v) = -(43 * v) /\ -(-(43 * v)) = 43 * v
    BY <1>1
  <2>2. CASE v = 0
    <3>1. y = 0 /\ 43 * (-v) >= 0 /\ 43 * (-v) = 43 * v
      BY <1>1, <1>2, <2>2, StepOf
    <3> QED  BY <1>2, <3>1
  <2>3. CASE v # 0
    <3>1. ~(-(43 * v) >= 0)
      BY <1>1, <2>3
    <3> QED  BY <2>1, <3>1 DEF Truncated
  <2> QED  BY <2>2, <2>3
<1>4. y % 256 = y /\ (85 - y) % 256 = 85 - y /\ (85 + y) % 256 = 85 + y
      /\ (171 - y) % 256 = 171 - y /\ (171 + y) % 256 = 171 + y
      /\ (-y) % 256 = IF y = 0 THEN 0 ELSE 256 - y
  <2> HIDE DEF y
  <2> QED  BY <1>2
<1> HIDE DEF p, m, y
<1>5. CASE k = 0
  <2>1. rgb_to_hs(255, m, p) = <<y, s>>
    BY <1>1, <1>2, <1>4 DEF rgb_to_hs, Greater, Lesser
  <2> QED  BY <1>5, <2>1 DEF Mixed, HueAt, m, p, y
<1>6. CASE k = 1
  <2>1. rgb_to_hs(m, 255, p) = <<85 - y, s>>
    <3>1. m # 255
      BY <1>1, <1>6 DEF Own
    <3> QED  BY <1>1, <1>2, <1>3, <1>4, <3>1 DEF rgb_to_hs, Greater, Lesser
  <2> QED  BY <1>6, <2>1 DEF Mixed, HueAt, m, p, y
<1>7. CASE k = 2
  <2>1. rgb_to_hs(p, 255, m) = <<85 + y, s>>
    BY <1>1, <1>2, <1>4 DEF rgb_to_hs, Greater, Lesser
  <2> QED  BY <1>7, <2>1 DEF Mixed, HueAt, m, p, y
<1>8. CASE k = 3
  <2>1. rgb_to_hs(p, m, 255) = <<171 - y, s>>
    <3>1. m # 255
      BY <1>1, <1>8 DEF Own
    <3> QED  BY <1>1, <1>2, <1>3, <1>4, <3>1 DEF rgb_to_hs, Greater, Lesser
  <2> QED  BY <1>8, <2>1 DEF Mixed, HueAt, m, p, y
<1>9. CASE k = 4
  <2>1. rgb_to_hs(m, p, 255) = <<171 + y, s>>
    <3>1. m # 255
      BY <1>1, <1>9 DEF Own
    <3> QED  BY <1>1, <1>2, <1>4, <3>1 DEF rgb_to_hs, Greater, Lesser
  <2> QED  BY <1>9, <2>1 DEF Mixed, HueAt, m, p, y
<1>10. CASE k = 5
  <2>1. rgb_to_hs(255, p, m) = <<IF y = 0 THEN 0 ELSE 256 - y, s>>
    BY <1>1, <1>2, <1>3, <1>4 DEF rgb_to_hs, Greater, Lesser
  <2> QED  BY <1>10, <2>1 DEF Mixed, HueAt, m, p, y
<1> QED  BY <1>5, <1>6, <1>7, <1>8, <1>9, <1>10

Near(c, d) == \A i \in 1 .. 3 : Diff(c[i], d[i]) <= 12

\* At the two ends of a sixth.
LEMMA Ends ==
  ASSUME NEW s \in Saturation
  PROVE  /\ Fall(s, 0) = s /\ Rise(s, 0) = 0
         /\ Fall(s, 42) \in 0 .. 3 /\ s - Rise(s, 42) \in 0 .. 3 /\ s - Rise(s, 41) \in 0 .. 9
<1>1. s \in Int /\ 1 <= s /\ s <= 255
  BY DEF Saturation
<1> QED  BY <1>1 DEF Rise, Fall

\* The excess is a number, within the saturation.
LEMMA ExcessIsInt ==
  ASSUME NEW s \in Saturation, NEW x \in Int
  PROVE  Rise(s, x) \in Int /\ Fall(s, x) \in Int
<1>1. s * (255 - 6 * x) \in Int /\ s * (6 * x) \in Int /\ s \in Int
  BY DEF Saturation
<1> QED  BY <1>1 DEF Rise, Fall

LEMMA ExcessInRange ==
  ASSUME NEW k \in 0 .. 5, NEW s \in Saturation, NEW x \in 0 .. 42
  PROVE  Excess(k, s, x) \in 0 .. s
<1>1. s \in Byte /\ 255 - 6 * x \in Byte /\ 6 * x \in Byte
  BY DEF Saturation, Byte
<1>2. /\ (s * (255 - 6 * x)) \div 255 \in 0 .. s
      /\ (s * (6 * x)) \div 255 \in 0 .. s
  BY <1>1, ProductBound, Zenon
<1>3. \A y \in 0 .. s : s - y \in 0 .. s
  BY <1>1 DEF Byte
<1> QED  BY <1>2, <1>3 DEF Excess, Rise, Fall

\* Colours of a sixth are as near as their middle channels.
LEMMA NearIfClose ==
  ASSUME NEW k \in 0 .. 5, NEW s \in Saturation, NEW v \in Int, NEW w \in Int, Close(w, v)
  PROVE  Near(Mixed(k, s, v), Mixed(k, s, w))
<1> DEFINE p == 255 - s
           m == p + v
           n == p + w
<1>1. p \in Int /\ m \in Int /\ n \in Int
  BY DEF Saturation
<1>2. Diff(255, 255) <= 12 /\ Diff(p, p) <= 12 /\ Diff(m, n) <= 12
  BY <1>1 DEF Diff, Greater, Lesser, Close
<1> HIDE DEF p, m, n
<1>3. k \in {0, 1, 2, 3, 4, 5}
  OBVIOUS
<1>4. \A i \in 1 .. 3 : i = 1 \/ i = 2 \/ i = 3
  OBVIOUS
<1> QED  BY <1>2, <1>3, <1>4 DEF Near, Mixed, p, m, n

\* Where the hue leaves its sixth, the colour is next to the border on both sides.
LEMMA NearAtBorder ==
  ASSUME NEW s \in Saturation, NEW v \in Int, NEW w \in Int
  PROVE  /\ v \in 0 .. 6 /\ w \in 0 .. 3 => /\ Near(Mixed(2, s, v), Mixed(1, s, w))
                                         /\ Near(Mixed(4, s, v), Mixed(3, s, w))
                                         /\ Near(Mixed(5, s, v), Mixed(0, s, w))
         /\ s - v \in 0 .. 6 /\ s - w \in 0 .. 9 => Near(Mixed(5, s, v), Mixed(4, s, w))
<1> DEFINE p == 255 - s
           m == p + v
           n == p + w
<1>1. p \in Int /\ m \in Int /\ n \in Int
  BY DEF Saturation
<1>2. \A i \in 1 .. 3 : i = 1 \/ i = 2 \/ i = 3
  OBVIOUS
<1>3. ASSUME v \in 0 .. 6, w \in 0 .. 3
      PROVE  Diff(255, 255) <= 12 /\ Diff(p, p) <= 12 /\ Diff(m, p) <= 12 /\ Diff(p, n) <= 12
  BY <1>1, <1>3 DEF Diff, Greater, Lesser
<1>4. ASSUME s - v \in 0 .. 6, s - w \in 0 .. 9
      PROVE  Diff(255, n) <= 12 /\ Diff(p, p) <= 12 /\ Diff(m, 255) <= 12
  BY <1>1, <1>4 DEF Diff, Greater, Lesser, Saturation
<1> HIDE DEF p, m, n
<1>5. ASSUME v \in 0 .. 6, w \in 0 .. 3
      PROVE  /\ Near(Mixed(2, s, v), Mixed(1, s, w))
             /\ Near(Mixed(4, s, v), Mixed(3, s, w))
             /\ Near(Mixed(5, s, v), Mixed(0, s, w))
  BY <1>2, <1>3, <1>5 DEF Near, Mixed, p, m, n
<1>6. ASSUME s - v \in 0 .. 6, s - w \in 0 .. 9
      PROVE  Near(Mixed(5, s, v), Mixed(4, s, w))
  BY <1>2, <1>4, <1>6 DEF Near, Mixed, p, m, n
<1> QED  BY <1>5, <1>6

\* What the wheel shows at the hue of a colour.
LEMMA HueIsNear ==
  ASSUME NEW k \in 0 .. 5, NEW s \in Saturation, NEW v \in 0 .. s, Own(k, s, v)
  PROVE  LET h == HueAt(k, (43 * v) \div s) IN
         h \in Byte /\ Near(Mixed(k, s, v), hs_to_rgb(h, s))
<1> DEFINE y == (43 * v) \div s
           h == HueAt(k, y)
<1> SUFFICES h \in Byte /\ Near(Mixed(k, s, v), hs_to_rgb(h, s))
  OBVIOUS
<1>1. /\ y \in 0 .. 43 /\ s * y <= 43 * v /\ 43 * v < s * y + s
      /\ y = 43 <=> v = s
  BY StepOf
<1>2. k \in {1, 3, 4} => y # 43
  BY <1>1 DEF Own
<1>3. /\ y = 0 => v \in 0 .. 6
      /\ y \in {42, 43} => s - v \in 0 .. 6
  BY <1>1 DEF Saturation
<1>4. v \in Int
  BY DEF Saturation
<1> HIDE DEF y
<1>5. /\ Close(Rise(s, y), v) /\ Close(Rise(s, y - 1), v)
      /\ Close(Fall(s, 42 - y), v) /\ Close(Fall(s, 41 - y), v)
  BY <1>1, StepsAreClose
<1>6. ASSUME NEW j \in 0 .. 5, NEW x \in 0 .. 42, 43 * j + x \in Byte, h = 43 * j + x,
             Near(Mixed(k, s, v), Mixed(j, s, Excess(j, s, x)))
      PROVE  h \in Byte /\ Near(Mixed(k, s, v), hs_to_rgb(h, s))
  BY <1>6, Wheel
<1>7. ASSUME NEW x \in 0 .. 42, 43 * k + x \in Byte, h = 43 * k + x, Close(Excess(k, s, x), v)
      PROVE  h \in Byte /\ Near(Mixed(k, s, v), hs_to_rgb(h, s))
  <2>1. Excess(k, s, x) \in Int
    BY ExcessIsInt DEF Excess
  <2>2. Near(Mixed(k, s, v), Mixed(k, s, Excess(k, s, x)))
    BY <1>4, <1>7, <2>1, NearIfClose
  <2> QED  BY <1>6, <1>7, <2>2
<1>8. CASE k = 0
  <2>1. CASE y # 43
    <3>1. y \in 0 .. 42 /\ 43 * k + y \in Byte /\ h = 43 * k + y
      BY <1>1, <1>8, <2>1 DEF HueAt, Byte
    <3>2. Close(Excess(k, s, y), v)
      BY <1>5, <1>8 DEF Excess
    <3> HIDE DEF h
    <3> QED  BY <1>7, <3>1, <3>2
  <2>2. CASE y = 43
    <3>1. 0 \in 0 .. 42 /\ 1 \in 0 .. 5 /\ 43 * 1 + 0 \in Byte /\ h = 43 * 1 + 0
      BY <1>8, <2>2 DEF HueAt, Byte
    <3>2. Excess(1, s, 0) = s /\ v = s
      BY <1>1, <2>2, Ends DEF Excess
    <3>3. Mixed(1, s, s) = Mixed(0, s, s)
      <4>1. 255 - s + s = 255
        BY DEF Saturation
      <4> QED  BY <4>1 DEF Mixed
    <3>4. Near(Mixed(0, s, s), Mixed(0, s, s))
      <4>1. s \in Int /\ Close(s, s)
        BY DEF Saturation, Close
      <4> QED  BY <4>1, NearIfClose
    <3> HIDE DEF h
    <3> QED  BY <1>6, <1>8, <3>1, <3>2, <3>3, <3>4
  <2> QED  BY <2>1, <2>2
<1>9. CASE k \in {1, 3}
  <2>1. /\ 42 - y \in 0 .. 42 /\ 43 * k + (42 - y) \in Byte
        /\ h = 43 * k + (42 - y)
    <3>1. y \in 0 .. 42
      BY <1>1, <1>2, <1>9
    <3> QED  BY <1>9, <3>1 DEF HueAt, Byte
  <2>2. Close(Excess(k, s, 42 - y), v)
    BY <1>5, <1>9 DEF Excess
  <2> HIDE DEF h
  <2> QED  BY <1>7, <2>1, <2>2
<1>10. CASE k \in {2, 4}
  <2>1. y \in 0 .. 43 /\ (k = 4 => y # 43)
    BY <1>1, <1>2, <1>10
  <2>2. CASE y # 0
    <3>1. y - 1 \in 0 .. 42 /\ 43 * k + (y - 1) \in Byte /\ h = 43 * k + (y - 1)
      BY <1>10, <2>1, <2>2 DEF HueAt, Byte
    <3>2. Close(Excess(k, s, y - 1), v)
      BY <1>5, <1>10 DEF Excess
    <3> HIDE DEF h
    <3> QED  BY <1>7, <3>1, <3>2
  <2>3. CASE y = 0
    <3>1. /\ 42 \in 0 .. 42 /\ k - 1 \in 0 .. 5 /\ 43 * (k - 1) + 42 \in Byte
          /\ h = 43 * (k - 1) + 42
      BY <1>10, <2>3 DEF HueAt, Byte
    <3>2. Excess(k - 1, s, 42) \in 0 .. 3 /\ v \in 0 .. 6
      <4>1. k - 1 \notin {0, 2, 4}
        BY <1>10
      <4> QED  BY <1>3, <2>3, <4>1, Ends DEF Excess
    <3>3. Near(Mixed(k, s, v), Mixed(k - 1, s, Excess(k - 1, s, 42)))
      <4>1. CASE k = 2
        BY <1>4, <3>2, <4>1, NearAtBorder
      <4>2. CASE k = 4
        BY <1>4, <3>2, <4>2, NearAtBorder
      <4> QED  BY <1>10, <4>1, <4>2
    <3> HIDE DEF h
    <3> QED  BY <1>6, <3>1, <3>3
  <2> QED  BY <2>2, <2>3
<1>11. CASE k = 5
  <2>1. CASE y \in 1 .. 41
    <3>1. 41 - y \in 0 .. 42 /\ 43 * k + (41 - y) \in Byte /\ h = 43 * k + (41 - y)
      BY <1>11, <2>1 DEF HueAt, Byte
    <3>2. Close(Excess(k, s, 41 - y), v)
      BY <1>5, <1>11 DEF Excess
    <3> HIDE DEF h
    <3> QED  BY <1>7, <3>1, <3>2
  <2>2. CASE y = 0
    <3>1. 0 \in 0 .. 42 /\ 0 \in 0 .. 5 /\ 43 * 0 + 0 \in Byte /\ h = 43 * 0 + 0
      BY <1>11, <2>2 DEF HueAt, Byte
    <3>2. Excess(0, s, 0) = 0 /\ v \in 0 .. 6 /\ 0 \in 0 .. 3
      BY <1>3, <2>2, Ends DEF Excess
    <3>3. Near(Mixed(k, s, v), Mixed(0, s, Excess(0, s, 0)))
      BY <1>4, <1>11, <3>2, NearAtBorder
    <3> HIDE DEF h
    <3> QED  BY <1>6, <3>1, <3>3
  <2>3. ASSUME NEW x \in {41, 42}, y = 84 - x
        PROVE  h \in Byte /\ Near(Mixed(k, s, v), hs_to_rgb(h, s))
    <3>1. x \in 0 .. 42 /\ 4 \in 0 .. 5 /\ 43 * 4 + x \in Byte /\ h = 43 * 4 + x
      BY <1>11, <2>3 DEF HueAt, Byte
    <3>2. s - Excess(4, s, x) \in 0 .. 9 /\ Excess(4, s, x) \in Int
      BY Ends, ExcessIsInt DEF Excess
    <3>3. s - v \in 0 .. 6
      BY <1>3, <2>3
    <3>4. Near(Mixed(k, s, v), Mixed(4, s, Excess(4, s, x)))
      BY <1>4, <1>11, <3>2, <3>3, NearAtBorder
    <3> HIDE DEF h
    <3> QED  BY <1>6, <3>1, <3>4
  <2>4. y = 0 \/ y \in 1 .. 41 \/ y = 84 - 42 \/ y = 84 - 41
    BY <1>1
  <2> QED  BY <2>1, <2>2, <2>3, <2>4
<1>12. k = 0 \/ k \in {1, 3} \/ k \in {2, 4} \/ k = 5
  OBVIOUS
<1> QED  BY <1>8, <1>9, <1>10, <1>11, <1>12

\* A colour read back as hue and saturation and shown again is within 12 of 255 of what
\* was asked for, in each channel, whatever the colour (rgb_to_hs of hs_to_rgb).
THEOREM ColourComesBackClose ==
  ASSUME NEW h \in Byte, NEW s \in Byte
  PROVE  LET asked == hs_to_rgb(h, s)
             read == rgb_to_hs(asked[1], asked[2], asked[3])
         IN read \in Byte \X Byte /\ Near(asked, hs_to_rgb(read[1], read[2]))
<1> DEFINE asked == hs_to_rgb(h, s)
           read == rgb_to_hs(asked[1], asked[2], asked[3])
<1>1. CASE s = 0
  <2>1. asked = <<255, 255, 255>>
    BY <1>1 DEF hs_to_rgb
  <2>2. read = <<0, 0>>
    BY <2>1 DEF rgb_to_hs, Greater, Lesser
  <2>3. hs_to_rgb(0, 0) = <<255, 255, 255>>
    BY DEF hs_to_rgb
  <2>4. 0 \in Byte /\ \A i \in 1 .. 3 : i = 1 \/ i = 2 \/ i = 3
    BY DEF Byte
  <2> HIDE DEF asked, read
  <2>5. Near(asked, hs_to_rgb(read[1], read[2]))
    BY <2>1, <2>2, <2>3, <2>4 DEF Near, Diff, Greater, Lesser
  <2> QED  BY <2>2, <2>4, <2>5 DEF asked, read
<1>2. CASE s # 0
  <2> DEFINE k == h \div 43
             x == h - 43 * k
             v == Excess(k, s, x)
  <2>1. k \in 0 .. 5 /\ x \in 0 .. 42 /\ h = 43 * k + x /\ s \in Saturation
    BY <1>2 DEF Byte, Saturation
  <2> HIDE DEF k, x
  <2>2. asked = Mixed(k, s, v)
    BY <2>1, Wheel
  <2>3. v \in 0 .. s
    BY <2>1, ExcessInRange
  <2> HIDE DEF v, asked
  <2>4. PICK j \in 0 .. 5 : Own(j, s, v) /\ asked = Mixed(j, s, v)
    BY <2>1, <2>2, <2>3, SixthOf
  <2>5. read = <<HueAt(j, (43 * v) \div s), s>>
    BY <2>1, <2>3, <2>4, HueOf
  <2> HIDE DEF read
  <2>6. read[1] = HueAt(j, (43 * v) \div s) /\ read[2] = s
    BY <2>5
  <2>7. read[1] \in Byte /\ Near(asked, hs_to_rgb(read[1], read[2]))
    BY <2>1, <2>3, <2>4, <2>6, HueIsNear
  <2> QED  BY <2>5, <2>6, <2>7 DEF asked, read
<1> QED  BY <1>1, <1>2

-----------------------------------------------------------------------------
(* Lighting. *)

\* The packed payload loses nothing: reading channel 0 and writing it back is the
\* identity on every lighting the driver holds (to_bytes, from_bytes).
THEOREM PackedRoundTrip ==
  \A l \in Lightings : to_bytes(l) \in Seq(Byte) /\ from_bytes(to_bytes(l)) = l
<1>1. SUFFICES ASSUME NEW l \in Lightings
               PROVE  to_bytes(l) \in Seq(Byte) /\ from_bytes(to_bytes(l)) = l
  OBVIOUS
<1>2. /\ l.mode \in Byte /\ l.r \in Byte /\ l.g \in Byte /\ l.b \in Byte
      /\ l.brightness \in Byte /\ l.speed \in Byte /\ l.direction \in Byte
      /\ (IF l.random THEN 1 ELSE 0) \in Byte
  BY DEF Lightings, Byte
<1>3. to_bytes(l) \in Seq(Byte) /\ Len(to_bytes(l)) = 8
  BY <1>2 DEF to_bytes
<1>4. ((IF l.random THEN 1 ELSE 0) # 0) = l.random
  BY DEF Lightings
<1>5. from_bytes(to_bytes(l)) =
        [mode |-> l.mode, r |-> l.r, g |-> l.g, b |-> l.b, brightness |-> l.brightness,
         random |-> l.random, speed |-> l.speed, direction |-> l.direction]
  BY <1>3, <1>4 DEF from_bytes, to_bytes
<1>6. QED BY <1>3, <1>5 DEF Lightings

\* The level and mode values, each patching one field (lighting_with_via_value).
LEMMA Patched ==
  ASSUME NEW l, NEW data
  PROVE  /\ lighting_with_via_value(l, VIA_VALUE_BRIGHTNESS, data)
              = [l EXCEPT !.brightness = scale_255_to_15(data[1])]
         /\ lighting_with_via_value(l, VIA_VALUE_EFFECT, data)
              = [l EXCEPT !.mode = IF data[1] = 0 THEN MODE_LIGHTS_OFF ELSE data[1]]
         /\ lighting_with_via_value(l, VIA_VALUE_SPEED, data)
              = [l EXCEPT !.speed = scale_255_to_15(data[1])]
BY DEF lighting_with_via_value, VIA_VALUE_BRIGHTNESS, VIA_VALUE_EFFECT, VIA_VALUE_SPEED,
       VIA_VALUE_COLOR

\* Whatever set_lighting does not refuse is a lighting of bytes whose mode the board
\* can render, on the packed channel with any tail missing and on the RGB matrix.
THEOREM AcceptedIsRenderable ==
  ASSUME NEW l \in Lightings, NEW channel \in Byte, NEW value \in Byte,
         NEW data \in Seq(Byte), Refused(l, channel, value, data) = "ok"
  PROVE  /\ Proposed(l, channel, value, data) \in Lightings
         /\ is_renderable_mode(Proposed(l, channel, value, data).mode)
<1>1. \A i \in 1 .. Len(data) : data[i] \in Byte
  OBVIOUS
<1>2. channel \in {VIA_CHANNEL_PACKED, VIA_CHANNEL_RGB_MATRIX}
  BY Zenon DEF Refused
<1>3. CASE channel = VIA_CHANNEL_PACKED
  <2>1. is_renderable_mode(from_bytes(data).mode)
    BY <1>3 DEF Refused, VIA_CHANNEL_RGB_MATRIX, VIA_CHANNEL_PACKED
  <2>2. \A i \in 1 .. 8, x \in Byte : (IF i <= Len(data) THEN data[i] ELSE x) \in Byte
    BY <1>1
  <2> DEFINE at(i, x) == IF i <= Len(data) THEN data[i] ELSE x
             d == DefaultLighting
  <2>3. /\ at(1, d.mode) \in Byte /\ at(2, d.r) \in Byte /\ at(3, d.g) \in Byte
        /\ at(4, d.b) \in Byte /\ at(5, d.brightness) \in Byte
        /\ at(7, d.speed) \in Byte /\ at(8, d.direction) \in Byte
    <3>1. /\ d.mode \in Byte /\ d.r \in Byte /\ d.g \in Byte /\ d.b \in Byte
          /\ d.brightness \in Byte /\ d.speed \in Byte /\ d.direction \in Byte
      BY DEF DefaultLighting, Byte, MODE_STATIC, LEVEL_MAX
    <3> HIDE DEF d
    <3>2. QED BY <2>2, <3>1
  <2>4. from_bytes(data) \in Lightings
    <3>1. from_bytes(data) =
            [mode |-> at(1, d.mode), r |-> at(2, d.r), g |-> at(3, d.g), b |-> at(4, d.b),
             brightness |-> at(5, d.brightness), random |-> at(6, 0) # 0,
             speed |-> at(7, d.speed), direction |-> at(8, d.direction)]
      BY Zenon DEF from_bytes
    <3> HIDE DEF at, d
    <3>2. QED BY <2>3, <3>1 DEF Lightings
  <2>5. QED BY <1>3, <2>1, <2>4 DEF Proposed
<1>4. CASE channel = VIA_CHANNEL_RGB_MATRIX
  <2> DEFINE patched == lighting_with_via_value(l, value, data)
  <2>1. value \in ViaValues /\ Len(data) >= Needed(value) /\ is_renderable_mode(patched.mode)
    <3>1. VIA_CHANNEL_RGB_MATRIX # VIA_CHANNEL_PACKED
      BY DEF VIA_CHANNEL_RGB_MATRIX, VIA_CHANNEL_PACKED
    <3>2. Needed(value) \in Nat /\ Len(data) \in Nat
      BY DEF Needed
    <3>3. value \in ViaValues /\ ~(Len(data) < Needed(value)) /\ is_renderable_mode(patched.mode)
      BY <1>4, <3>1 DEF Refused
    <3>4. QED BY <3>2, <3>3
  <2>2. patched \in Lightings
    <3>1. Len(data) >= 1 /\ data[1] \in Byte
      BY <1>1, <2>1 DEF Needed
    <3>2. scale_255_to_15(data[1]) \in Byte
      <4>1. scale_255_to_15(data[1]) \in 0 .. LEVEL_MAX
        BY <3>1, ScalesInRange, Zenon
      <4>2. 0 .. LEVEL_MAX \subseteq Byte
        BY DEF Byte, LEVEL_MAX
      <4>3. QED BY <4>1, <4>2, Zenon
    <3>3. CASE value = VIA_VALUE_COLOR
      <4>1. data[1] \in Byte /\ data[2] \in Byte
        BY <1>1, <2>1, <3>3 DEF Needed
      <4>2. hs_to_rgb(data[1], data[2]) \in Byte \X Byte \X Byte
        BY <4>1, ColourIsBytes
      <4> DEFINE rgb == hs_to_rgb(data[1], data[2])
      <4>3. patched = [l EXCEPT !.r = rgb[1], !.g = rgb[2], !.b = rgb[3], !.random = FALSE]
        BY <3>3 DEF lighting_with_via_value, VIA_VALUE_BRIGHTNESS, VIA_VALUE_EFFECT,
                    VIA_VALUE_SPEED, VIA_VALUE_COLOR
      <4> HIDE DEF rgb, patched
      <4>4. rgb[1] \in Byte /\ rgb[2] \in Byte /\ rgb[3] \in Byte
        BY <4>2 DEF rgb
      <4>5. QED BY <4>3, <4>4 DEF Lightings
    <3>4. CASE value # VIA_VALUE_COLOR
      <4>1. value \in {VIA_VALUE_BRIGHTNESS, VIA_VALUE_EFFECT, VIA_VALUE_SPEED}
        BY <2>1, <3>4 DEF ViaValues, VIA_VALUE_BRIGHTNESS, VIA_VALUE_EFFECT,
                          VIA_VALUE_SPEED, VIA_VALUE_COLOR
      <4> DEFINE level == scale_255_to_15(data[1])
                 mode == IF data[1] = 0 THEN MODE_LIGHTS_OFF ELSE data[1]
      <4>2. patched \in {[l EXCEPT !.brightness = level], [l EXCEPT !.mode = mode],
                         [l EXCEPT !.speed = level]}
        <5>1. CASE value = VIA_VALUE_BRIGHTNESS
          BY <5>1, Patched, Zenon
        <5>2. CASE value = VIA_VALUE_EFFECT
          BY <5>2, Patched, Zenon
        <5>3. CASE value = VIA_VALUE_SPEED
          BY <5>3, Patched, Zenon
        <5>4. QED BY <4>1, <5>1, <5>2, <5>3, Zenon
      <4>3. level \in Byte /\ mode \in Byte
        BY <3>1, <3>2 DEF Byte, MODE_LIGHTS_OFF
      <4> HIDE DEF level, mode, patched
      <4>4. QED BY <4>2, <4>3 DEF Lightings
    <3>5. QED BY <3>3, <3>4
  <2>3. QED BY <1>4, <2>1, <2>2 DEF Proposed, VIA_CHANNEL_RGB_MATRIX, VIA_CHANNEL_PACKED
<1>5. QED BY <1>2, <1>3, <1>4

\* What the RGB matrix reads is what the board shows, even of a packed lighting whose
\* levels encode cuts to the board's scale: reading the shadow is reading the frame.
THEOREM ReadIsShown ==
  \A l \in Lightings, value \in ViaValues :
    get_lighting(Encode(l), VIA_CHANNEL_RGB_MATRIX, value)
      = get_lighting(l, VIA_CHANNEL_RGB_MATRIX, value)
BY DEF get_lighting, Encode, scale_15_to_255, Lesser, Lightings, Byte, LEVEL_MAX, ViaValues,
       VIA_CHANNEL_RGB_MATRIX, VIA_CHANNEL_PACKED, VIA_VALUE_BRIGHTNESS, VIA_VALUE_EFFECT,
       VIA_VALUE_SPEED, VIA_VALUE_COLOR

\* Setting one value of the RGB matrix leaves every other one as it reads.
THEOREM OtherValuesKept ==
  ASSUME NEW l \in Lightings, NEW data, NEW v \in ViaValues, NEW w \in ViaValues, v # w
  PROVE  get_lighting(lighting_with_via_value(l, v, data), VIA_CHANNEL_RGB_MATRIX, w)
           = get_lighting(l, VIA_CHANNEL_RGB_MATRIX, w)
BY DEF get_lighting, lighting_with_via_value, Lightings, ViaValues,
       VIA_CHANNEL_RGB_MATRIX, VIA_CHANNEL_PACKED, VIA_VALUE_BRIGHTNESS, VIA_VALUE_EFFECT,
       VIA_VALUE_SPEED, VIA_VALUE_COLOR

\* A level set over the RGB matrix reads back within half a step of the board's scale,
\* an effect exactly (but 128, the board's code for off, which reads as 0).
THEOREM WrittenIsRead ==
  ASSUME NEW l \in Lightings, NEW data \in Seq(Byte), Len(data) >= 1
  PROVE  LET Reads(value) == get_lighting(lighting_with_via_value(l, value, data),
                                          VIA_CHANNEL_RGB_MATRIX, value)[1]
         IN /\ \A value \in {VIA_VALUE_BRIGHTNESS, VIA_VALUE_SPEED} :
                 Diff(Reads(value), data[1]) <= 8
            /\ data[1] # MODE_LIGHTS_OFF => Reads(VIA_VALUE_EFFECT) = data[1]
<1> DEFINE Reads(value) == get_lighting(lighting_with_via_value(l, value, data),
                                        VIA_CHANNEL_RGB_MATRIX, value)[1]
           level == scale_255_to_15(data[1])
           mode == IF data[1] = 0 THEN MODE_LIGHTS_OFF ELSE data[1]
<1>1. data[1] \in Byte
  OBVIOUS
<1>2. /\ [l EXCEPT !.brightness = level].brightness = level
      /\ [l EXCEPT !.speed = level].speed = level
      /\ [l EXCEPT !.mode = mode].mode = mode
  <2> HIDE DEF level, mode
  <2>1. QED BY DEF Lightings
<1>3. \A k : /\ get_lighting(k, VIA_CHANNEL_RGB_MATRIX, VIA_VALUE_BRIGHTNESS)[1]
                  = scale_15_to_255(k.brightness)
             /\ get_lighting(k, VIA_CHANNEL_RGB_MATRIX, VIA_VALUE_SPEED)[1]
                  = scale_15_to_255(k.speed)
             /\ get_lighting(k, VIA_CHANNEL_RGB_MATRIX, VIA_VALUE_EFFECT)[1]
                  = IF k.mode = MODE_LIGHTS_OFF THEN 0 ELSE k.mode
  BY DEF get_lighting, VIA_CHANNEL_RGB_MATRIX, VIA_CHANNEL_PACKED, VIA_VALUE_BRIGHTNESS,
         VIA_VALUE_EFFECT, VIA_VALUE_SPEED, VIA_VALUE_COLOR
<1>4. /\ Reads(VIA_VALUE_BRIGHTNESS) = scale_15_to_255(level)
      /\ Reads(VIA_VALUE_SPEED) = scale_15_to_255(level)
      /\ Reads(VIA_VALUE_EFFECT) = IF mode = MODE_LIGHTS_OFF THEN 0 ELSE mode
  <2>1. /\ lighting_with_via_value(l, VIA_VALUE_BRIGHTNESS, data) = [l EXCEPT !.brightness = level]
        /\ lighting_with_via_value(l, VIA_VALUE_SPEED, data) = [l EXCEPT !.speed = level]
        /\ lighting_with_via_value(l, VIA_VALUE_EFFECT, data) = [l EXCEPT !.mode = mode]
    BY Patched, Zenon
  <2> HIDE DEF level, mode
  <2>2. Reads(VIA_VALUE_BRIGHTNESS) = scale_15_to_255(level)
    BY <1>2, <1>3, <2>1
  <2>3. Reads(VIA_VALUE_SPEED) = scale_15_to_255(level)
    BY <1>2, <1>3, <2>1
  <2>4. Reads(VIA_VALUE_EFFECT) = IF mode = MODE_LIGHTS_OFF THEN 0 ELSE mode
    BY <1>2, <1>3, <2>1
  <2>5. QED BY <2>2, <2>3, <2>4
<1>5. Diff(scale_15_to_255(level), data[1]) <= 8
  BY <1>1, LevelWithinHalfAStep, Zenon
<1>6. data[1] # MODE_LIGHTS_OFF => Reads(VIA_VALUE_EFFECT) = data[1]
  <2>1. data[1] # MODE_LIGHTS_OFF =>
          (IF mode = MODE_LIGHTS_OFF THEN 0 ELSE mode) = data[1]
    BY <1>1 DEF MODE_LIGHTS_OFF
  <2> HIDE DEF mode, Reads
  <2>2. QED BY <1>4, <2>1
<1>7. QED BY <1>4, <1>5, <1>6, Zenon

-----------------------------------------------------------------------------
(* The key-definition area. *)

Keymaps == UNION {[D -> Keycode] : D \in SUBSET Keyed}

\* An entry of the area carries the one remapped key whose index it stands at.
LEMMA EntryCarries ==
  ASSUME NEW keymap \in Keymaps, NEW c \in Keyed, NEW j \in 0 .. 3
  PROVE  Carrying(keymap, 4 * KeyIndex[c] + j) = {c} \cap DOMAIN keymap
<1>1. KeyIndex[c] \in 0 .. 142
  BY KeyIndexAssumption DEF Keyed, AREA_ENTRIES
<1>2. (4 * KeyIndex[c] + j) \div 4 = KeyIndex[c]
  BY <1>1
<1>3. DOMAIN keymap \subseteq Keyed
  BY DEF Keymaps
<1>4. \A d \in DOMAIN keymap : key_index_for(d) = {KeyIndex[d]}
  BY <1>3 DEF key_index_for
<1>5. \A d \in DOMAIN keymap : KeyIndex[d] = KeyIndex[c] <=> d = c
  BY <1>3, KeyIndexAssumption
<1>6. Carrying(keymap, 4 * KeyIndex[c] + j) = {d \in DOMAIN keymap : KeyIndex[d] = KeyIndex[c]}
  BY <1>2, <1>4 DEF Carrying
<1>7. QED BY <1>5, <1>6

\* No entry reaches the footer, and each is written whole.
LEMMA EntryWritten ==
  ASSUME NEW keymap \in Keymaps, NEW c \in Keyed, NEW j \in 0 .. 3
  PROVE  encode_keydef_buffer(keymap)[4 * KeyIndex[c] + j]
           = IF c \in DOMAIN keymap THEN EntryBytes(keymap[c])[j + 1] ELSE 0
<1> DEFINE o == 4 * KeyIndex[c] + j
<1>1. KeyIndex[c] \in 0 .. 142
  BY KeyIndexAssumption DEF Keyed, AREA_ENTRIES
<1>2. o \in 0 .. KEY_DEF_BUF_LEN - 1 /\ ~(o >= KEY_DEF_BUF_LEN - 2) /\ o % 4 = j
  BY <1>1 DEF KEY_DEF_BUF_LEN, AREA_ENTRIES
<1>3. Carrying(keymap, o) = {c} \cap DOMAIN keymap
  BY EntryCarries
<1> HIDE DEF o
<1>4. encode_keydef_buffer(keymap)[o] =
        IF Carrying(keymap, o) = {} THEN 0
        ELSE EntryBytes(keymap[CHOOSE d \in Carrying(keymap, o) : TRUE])[j + 1]
  BY <1>2 DEF encode_keydef_buffer
<1>5. CASE c \in DOMAIN keymap
  <2>1. Carrying(keymap, o) = {c}
    BY <1>3, <1>5
  <2>2. (CHOOSE d \in Carrying(keymap, o) : TRUE) = c
    BY <2>1
  <2>3. QED BY <1>4, <1>5, <2>1, <2>2 DEF o
<1>6. CASE c \notin DOMAIN keymap
  BY <1>3, <1>4, <1>6 DEF o
<1>7. QED BY <1>5, <1>6

\* A layer written to the board and read back at the next attach is the same keymap:
\* no remapped key is lost, doubled or moved, for any layer and any keycodes, whatever
\* the index table (encode_keydef_buffer, read_keydef_layer).
THEOREM KeymapRoundTrip ==
  \A keymap \in Keymaps : read_keydef_layer(encode_keydef_buffer(keymap)) = keymap
<1>1. SUFFICES ASSUME NEW keymap \in Keymaps
               PROVE  read_keydef_layer(encode_keydef_buffer(keymap)) = keymap
  OBVIOUS
<1> DEFINE buf == encode_keydef_buffer(keymap)
<1>2. PICK D \in SUBSET Keyed : keymap \in [D -> Keycode]
  BY DEF Keymaps
<1>3. \A code \in Keycode : /\ EntryBytes(code)[1] = 2
                            /\ EntryBytes(code)[3] + 256 * EntryBytes(code)[4] = code
  <2>1. \A n \in Nat : (n % 256) + 256 * (n \div 256) = n
    OBVIOUS
  <2>2. \A code \in Keycode : /\ EntryBytes(code)[1] = 2
                              /\ EntryBytes(code)[3] = code % 256
                              /\ EntryBytes(code)[4] = code \div 256
    BY Zenon DEF EntryBytes, KEY_DEF_ENTRY_MARKER
  <2>3. Keycode \subseteq Nat
    BY DEF Keycode
  <2> HIDE DEF Keycode
  <2>4. QED BY <2>1, <2>2, <2>3
<1>4. \A c \in Keyed : /\ buf[4 * KeyIndex[c]] = IF c \in D THEN EntryBytes(keymap[c])[1] ELSE 0
                       /\ c \in D => /\ buf[4 * KeyIndex[c] + 2] = EntryBytes(keymap[c])[3]
                                     /\ buf[4 * KeyIndex[c] + 3] = EntryBytes(keymap[c])[4]
  <2>1. SUFFICES ASSUME NEW c \in Keyed
                 PROVE  /\ buf[4 * KeyIndex[c]] = IF c \in D THEN EntryBytes(keymap[c])[1] ELSE 0
                        /\ c \in D => /\ buf[4 * KeyIndex[c] + 2] = EntryBytes(keymap[c])[3]
                                      /\ buf[4 * KeyIndex[c] + 3] = EntryBytes(keymap[c])[4]
    OBVIOUS
  <2>2. KeyIndex[c] \in 0 .. 142 /\ 4 * KeyIndex[c] + 0 = 4 * KeyIndex[c]
    BY KeyIndexAssumption DEF Keyed, AREA_ENTRIES
  <2>3. D = DOMAIN keymap
    BY <1>2
  <2> HIDE DEF buf
  <2>4. \A j \in 0 .. 3 : buf[4 * KeyIndex[c] + j]
                            = IF c \in D THEN EntryBytes(keymap[c])[j + 1] ELSE 0
    BY <2>3, EntryWritten DEF buf
  <2>5. QED BY <2>2, <2>4
<1> HIDE DEF buf
<1>5. Marked(buf) = D
  BY <1>2, <1>3, <1>4 DEF Marked, KEY_DEF_ENTRY_MARKER
<1>6. \A c \in D : buf[4 * KeyIndex[c] + 2] + 256 * buf[4 * KeyIndex[c] + 3] = keymap[c]
  BY <1>2, <1>3, <1>4
<1>7. read_keydef_layer(buf) = [c \in D |-> keymap[c]]
  BY <1>5, <1>6 DEF read_keydef_layer
<1>8. QED BY <1>2, <1>7 DEF buf
=============================================================================

--------------------------- MODULE ClackctlProofs ---------------------------
(***************************************************************************)
(* Proofs about Clackctl, for every set of boards, clients, names and      *)
(* command lines: values keep their types, a name reaches the board its    *)
(* user meant, a call changes no other field, and a field reads as its     *)
(* last acknowledged write.  Three invariants carry them: TypeInv, what    *)
(* memory holds; NamesInv, what names still mean; and LastInv, that notes  *)
(* of writes and what the boards hold agree.                               *)
(***************************************************************************)
EXTENDS Clackctl, Gmk67FramesProofs, FiniteSetTheorems, WellFoundedInduction, TLAPS

-----------------------------------------------------------------------------
(* Lines of a list. *)

Below(ids, k) == {j \in ids : j < k}

\* The ids below one are finitely many, and no more than there are.
LEMMA Counts ==
  ASSUME NEW ids \in SUBSET Ids, NEW k
  PROVE  /\ IsFiniteSet(ids) /\ Cardinality(ids) \in Nat
         /\ IsFiniteSet(Below(ids, k)) /\ Cardinality(Below(ids, k)) \in Nat
         /\ Cardinality(Below(ids, k)) <= Cardinality(ids)
<1>0. LastId \in Nat
  BY ClackctlAssumption, Zenon
<1>1. IsFiniteSet(Ids)
  BY <1>0, FS_Interval DEF Ids
<1>2. IsFiniteSet(ids)
  BY <1>1, FS_Subset
<1>3. Below(ids, k) \in SUBSET ids
  BY DEF Below
<1>4. QED
  BY <1>2, <1>3, FS_Subset, FS_CardinalityType

\* Counting up to one more id counts that id.
LEMMA CountsOneMore ==
  ASSUME NEW ids \in SUBSET Ids, NEW k \in Int
  PROVE  Cardinality(Below(ids, k + 1))
           = Cardinality(Below(ids, k)) + (IF k \in ids THEN 1 ELSE 0)
<1>1. ids \subseteq Int
  BY ClackctlAssumption DEF Ids
<1>2. k \notin Below(ids, k)
  BY DEF Below
<1>3. \A j \in ids : j < k + 1 <=> j < k \/ j = k
  BY <1>1
<1>4. CASE k \in ids
  <2>1. Below(ids, k + 1) = Below(ids, k) \cup {k}
    BY <1>4, <1>3, Zenon DEF Below
  <2>2. IsFiniteSet(Below(ids, k)) /\ Cardinality(Below(ids, k)) \in Nat
    BY Counts
  <2>3. Cardinality(Below(ids, k) \cup {k}) = Cardinality(Below(ids, k)) + 1
    BY <1>2, <2>2, FS_AddElement
  <2>4. QED
    BY <1>4, <2>1, <2>3
<1>5. CASE k \notin ids
  <2>1. Below(ids, k + 1) = Below(ids, k)
    BY <1>5, <1>3, Zenon DEF Below
  <2>2. Cardinality(Below(ids, k)) \in Nat
    BY Counts
  <2>3. QED
    BY <1>5, <2>1, <2>2
<1>6. QED
  BY <1>4, <1>5

\* The line of an id is above the lines of smaller ids.
LEMMA CountsGrow ==
  ASSUME NEW ids \in SUBSET Ids, NEW i \in ids, NEW k \in Int, i < k
  PROVE  Cardinality(Below(ids, i)) < Cardinality(Below(ids, k))
<1>1. i \in Int /\ ids \subseteq Int
  BY ClackctlAssumption DEF Ids
<1>2. Cardinality(Below(ids, i + 1)) = Cardinality(Below(ids, i)) + 1
  BY <1>1, CountsOneMore
<1>3. Below(ids, i + 1) \in SUBSET Below(ids, k)
  <2>1. \A j \in ids : j < i + 1 => j < k
    BY <1>1
  <2>2. QED
    BY <2>1, Zenon DEF Below
<1>4. Cardinality(Below(ids, i + 1)) <= Cardinality(Below(ids, k))
  BY <1>3, Counts, FS_Subset
<1>5. Cardinality(Below(ids, i)) \in Nat /\ Cardinality(Below(ids, k)) \in Nat
  BY Counts
<1>6. QED
  BY <1>2, <1>4, <1>5

\* Every number below the length of the list is the line of exactly one id.
LEMMA LineOfOne ==
  ASSUME NEW ids \in SUBSET Ids, NEW n \in 0 .. Cardinality(ids) - 1
  PROVE  \E i \in ids : Cardinality(Below(ids, i)) = n
<1> DEFINE Past == {k \in Nat : Cardinality(Below(ids, k + 1)) > n}
<1>0. Cardinality(ids) \in Nat /\ n \in Nat
  BY Counts
<1>1. LastId \in Past
  <2>1. Below(ids, LastId + 1) = ids
    <3>1. \A j \in Ids : j < LastId + 1
      BY ClackctlAssumption DEF Ids
    <3>2. QED
      BY <3>1, Zenon DEF Below
  <2>2. Cardinality(ids) > n /\ LastId \in Nat
    BY <1>0, ClackctlAssumption
  <2>3. QED
    BY <2>1, <2>2
<1>2. PICK k \in Past : \A j \in Past : <<j, k>> \notin OpToRel(<, Nat)
  BY <1>1, WFMin, NatLessThanWellFounded, Zenon
<1>3. \A j \in Past : ~(j < k)
  BY <1>2, Zenon DEF OpToRel
<1>4. Cardinality(Below(ids, k)) <= n
  <2>1. CASE k = 0
    <3>1. Below(ids, 0) = {}
      <4>1. \A j \in Ids : ~(j < 0)
        BY ClackctlAssumption DEF Ids
      <4>2. QED
        BY <4>1, Zenon DEF Below
    <3>2. Cardinality(Below(ids, k)) = 0
      BY <2>1, <3>1, FS_EmptySet
    <3>3. QED
      BY <1>0, <3>2
  <2>2. CASE k # 0
    <3>1. k - 1 \in Nat /\ k - 1 < k /\ (k - 1) + 1 = k
      BY <2>2
    <3>2. k - 1 \notin Past
      BY <1>3, <3>1, Zenon
    <3>3. ~(Cardinality(Below(ids, k)) > n)
      BY <3>1, <3>2
    <3>4. Cardinality(Below(ids, k)) \in Nat
      BY Counts
    <3>5. QED
      BY <1>0, <3>3, <3>4
  <2>3. QED
    BY <2>1, <2>2
<1>5. k \in Nat /\ Cardinality(Below(ids, k + 1)) > n
  OBVIOUS
<1> HIDE DEF Past
<1>6. k \in ids /\ Cardinality(Below(ids, k)) = n
  <2>1. Cardinality(Below(ids, k)) \in Nat
    BY Counts
  <2>2. Cardinality(Below(ids, k + 1))
          = Cardinality(Below(ids, k)) + (IF k \in ids THEN 1 ELSE 0)
    BY <1>5, CountsOneMore
  <2>3. QED
    BY <1>0, <1>4, <1>5, <2>1, <2>2
<1>7. QED
  BY <1>6

\* The id on the line of i is i, the line its user reads as well.
LEMMA LineIs ==
  ASSUME NEW ids \in SUBSET Ids, NEW i \in ids
  PROVE  /\ InOrder(ids, Cardinality(Below(ids, i))) = {i}
         /\ NthLine(ids, Cardinality(Below(ids, i))) = i
<1>1. i \in Int /\ ids \subseteq Int
  BY ClackctlAssumption DEF Ids
<1>2. ASSUME NEW j \in ids, Cardinality(Below(ids, j)) = Cardinality(Below(ids, i))
      PROVE  j = i
  <2>1. ~(j < i) /\ ~(i < j)
    BY <1>1, <1>2, Counts, CountsGrow
  <2>2. QED
    BY <1>1, <2>1
<1>3. InOrder(ids, Cardinality(Below(ids, i))) = {i}
  BY <1>2 DEF InOrder, Below
<1>4. NthLine(ids, Cardinality(Below(ids, i))) = i
  BY <1>2 DEF NthLine, Below
<1>5. QED
  BY <1>3, <1>4

\* Two lists that agree up to an id have it at the same line.
LEMMA SameLine ==
  ASSUME NEW ids \in SUBSET Ids, NEW other \in SUBSET Ids, NEW i \in ids,
         \A j \in 1 .. i : j \in ids <=> j \in other
  PROVE  /\ i \in other
         /\ Cardinality(Below(other, i)) = Cardinality(Below(ids, i))
         /\ Cardinality(Below(other, i)) \in 0 .. Cardinality(other) - 1
<1>1. i \in Nat \ {0} /\ ids \subseteq Nat \ {0} /\ other \subseteq Nat \ {0}
  BY ClackctlAssumption DEF Ids
<1>2. i \in other /\ Below(other, i) = Below(ids, i)
  <2>1. i \in 1 .. i /\ \A j \in ids \cup other : j < i => j \in 1 .. i
    BY <1>1
  <2>2. QED
    BY <2>1, Zenon DEF Below
<1>3. Below(other, i) \cup {i} \in SUBSET other /\ i \notin Below(other, i)
  BY <1>1, <1>2 DEF Below
<1>4. /\ IsFiniteSet(other) /\ Cardinality(other) \in Nat
      /\ IsFiniteSet(Below(other, i)) /\ Cardinality(Below(other, i)) \in Nat
  BY Counts
<1>5. Cardinality(Below(other, i) \cup {i}) = Cardinality(Below(other, i)) + 1
  BY <1>3, <1>4, FS_AddElement
<1>6. Cardinality(Below(other, i) \cup {i}) <= Cardinality(other)
  BY <1>3, <1>4, FS_Subset
<1>7. QED
  BY <1>2, <1>4, <1>5, <1>6

-----------------------------------------------------------------------------
(* Names. *)

Registry == [Ids -> Boards \cup {None}]

\* A name resolves to ids of the registry only.
LEMMA ResolvedIsAnId ==
  ASSUME NEW registry, NEW name
  PROVE  Resolved(registry, name) \subseteq Ids
<1>1. Present(registry) \subseteq Ids
  BY DEF Present
<1>2. QED
  BY <1>1, Zenon DEF Resolved, InOrder

\* While no keyboard that matters to the name came or went, the name resolves to what
\* its user means by it.
LEMMA NameKept ==
  ASSUME NEW c \in Clients, proc[c].name \in Names, at \in Registry,
         seen[c] \in Registry, moved[c] \in SUBSET Ids,
         \A i \in Ids \ moved[c] : at[i] = seen[c][i],
         Meant(c).mind \cap moved[c] = {},
         NEW j \in Resolved(at, proc[c].name)
  PROVE  j = Meant(c).id /\ j \in Meant(c).mind /\ j \in Ids
<1> DEFINE name == proc[c].name
           then == Present(seen[c])
           now == Present(at)
           line(ids) == name.exact \notin ids /\ name.index \in 0 .. Cardinality(ids) - 1
<1>1. /\ then \in SUBSET Ids /\ now \in SUBSET Ids
      /\ \A i \in Ids \ moved[c] : i \in then <=> i \in now
  BY DEF Present
<1>2. /\ name.exact \in 0 .. LastId /\ name.index \in Int /\ name.matches \subseteq Ids
      /\ name.exact # 0 => name.index < 0
  BY NamesAssumption DEF Ids
<1>3. Cardinality(then) \in Nat /\ Cardinality(now) \in Nat
  BY <1>1, Counts
<1>4. j \in Ids
  BY ResolvedIsAnId
<1>5. CASE name.exact \in then
  <2>1. Meant(c) = [id |-> name.exact, mind |-> {name.exact}]
    BY <1>5, Zenon DEF Meant
  <2>2. name.exact \in now
    BY <1>1, <1>5, <2>1
  <2>3. Resolved(at, name) = {name.exact}
    BY <2>2, Zenon DEF Resolved
  <2>4. QED
    BY <1>4, <2>1, <2>3
<1>6. CASE line(then)
  <2>1. PICK i \in then : Cardinality(Below(then, i)) = name.index
    BY <1>1, <1>6, LineOfOne
  <2>2. NthLine(then, name.index) = i
    BY <1>1, <2>1, LineIs
  <2>3. Meant(c) = [id |-> i, mind |-> 1 .. i]
    BY <1>6, <2>2, Zenon DEF Meant
  <2>4. \A k \in 1 .. i : k \in then <=> k \in now
    <3>1. 1 .. i \subseteq Ids
      BY <1>1, <2>1, ClackctlAssumption DEF Ids
    <3>2. QED
      BY <1>1, <2>3, <3>1
  <2>5. /\ i \in now /\ Cardinality(Below(now, i)) = name.index
        /\ name.index \in 0 .. Cardinality(now) - 1
    <3>1. then \in SUBSET Ids /\ now \in SUBSET Ids
      BY <1>1
    <3> HIDE DEF then, now
    <3>2. /\ i \in now
          /\ Cardinality(Below(now, i)) = Cardinality(Below(then, i))
          /\ Cardinality(Below(now, i)) \in 0 .. Cardinality(now) - 1
      BY <2>4, <3>1, SameLine
    <3>3. QED
      BY <2>1, <3>2
  <2>6. name.exact \notin now
    <3>1. name.exact = 0
      BY <1>2, <1>3, <2>5
    <3>2. QED
      BY <1>1, <3>1 DEF Ids
  <2>7. Resolved(at, name) = InOrder(now, name.index)
    BY <2>5, <2>6, Zenon DEF Resolved
  <2>8. Resolved(at, name) = {i}
    BY <1>1, <2>5, <2>7, LineIs
  <2>9. i \in 1 .. i
    BY <1>1, ClackctlAssumption DEF Ids
  <2>10. QED
    BY <1>4, <2>3, <2>8, <2>9
<1>7. CASE name.exact \notin then /\ ~line(then)
  <2> DEFINE parts == name.matches \cap then
  <2>1. Meant(c) = IF Cardinality(parts) = 1
                   THEN [id |-> CHOOSE i \in parts : TRUE,
                         mind |-> IF name.index >= 0 THEN Ids
                                  ELSE name.matches \cup {name.exact}]
                   ELSE [id |-> None, mind |-> Ids]
    BY <1>7, Zenon DEF Meant
  <2>2. /\ name.exact \notin now /\ ~line(now)
        /\ name.matches \cap now = parts
    <3>1. CASE Cardinality(parts) = 1 /\ ~(name.index >= 0)
      <4>1. \A k \in name.matches \cup {name.exact} : k \notin moved[c]
        BY <2>1, <3>1
      <4>2. name.exact \notin now
        BY <1>1, <1>7, <4>1
      <4>3. name.matches \cap now = parts
        BY <1>1, <1>2, <4>1
      <4>4. ~line(now)
        BY <1>3, <3>1
      <4>5. QED
        BY <4>2, <4>3, <4>4
    <3>2. CASE ~(Cardinality(parts) = 1 /\ ~(name.index >= 0))
      <4>1. Meant(c).mind = Ids
        BY <2>1, <3>2
      <4>2. moved[c] = {}
        BY <4>1
      <4>3. now = then
        BY <1>1, <4>2
      <4>4. QED
        BY <1>7, <4>3
    <3>3. QED
      BY <3>1, <3>2
  <2>3. Resolved(at, name) = IF Cardinality(parts) = 1 THEN parts ELSE {}
    BY <2>2, Zenon DEF Resolved
  <2>4. Cardinality(parts) = 1 /\ j \in parts
    BY <2>3
  <2>5. parts = {j}
    <3>1. IsFiniteSet(parts)
      <4>1. parts \in SUBSET Ids
        BY <1>1
      <4>2. QED
        BY <4>1, Counts
    <3>2. QED
      BY <2>4, <3>1, FS_Singleton
  <2>6. Meant(c).id = j
    BY <2>1, <2>4, <2>5
  <2>7. j \in Meant(c).mind
    BY <1>4, <2>1, <2>4
  <2>8. QED
    BY <1>4, <2>6, <2>7
<1>8. QED
  BY <1>5, <1>6, <1>7, Zenon

-----------------------------------------------------------------------------
(* What memory holds: commands, boards. *)

Wires == {Wire(cmd) : cmd \in Commands}
CallOK(call) ==
  /\ call.op = "light" => call.channel \in Byte /\ call.value \in Byte /\ call.data \in Seq(Byte)
  /\ call.op = "key" => call.layer \in Byte /\ call.cell \in Byte \X Byte /\ call.code \in Keycode
  /\ call.op = "macro" => call.offset \in Nat /\ call.data \in Seq(Byte)

\* The hue and saturation of a colour of bytes are bytes.
LEMMA HueIsBytes ==
  ASSUME NEW r \in Byte, NEW g \in Byte, NEW b \in Byte
  PROVE  rgb_to_hs(r, g, b) \in Seq(Byte)
<1> DEFINE max == Greater(Greater(r, g), b)
           delta == max - Lesser(Lesser(r, g), b)
           hue == CASE r = max -> Truncated(43 * (g - b), delta)
                    [] r # max /\ g = max -> 85 + Truncated(43 * (b - r), delta)
                    [] OTHER -> 171 + Truncated(43 * (r - g), delta)
<1>1. max \in Byte /\ delta \in Byte /\ delta <= max
  <2>1. \A x, y \in Byte : /\ Greater(x, y) \in Byte /\ Greater(x, y) >= x
                           /\ Lesser(x, y) \in Byte /\ Lesser(x, y) <= x
    BY DEF Byte, Greater, Lesser
  <2>2. /\ Greater(r, g) \in Byte /\ Greater(r, g) >= r /\ Lesser(r, g) \in Byte /\ Lesser(r, g) <= r
        /\ max \in Byte /\ max >= Greater(r, g)
        /\ Lesser(Lesser(r, g), b) \in Byte /\ Lesser(Lesser(r, g), b) <= Lesser(r, g)
    BY <2>1
  <2>3. \A least, less, more, most \in Byte :
          least <= less /\ less <= r /\ r <= more /\ more <= most =>
            most - least \in Byte /\ most - least <= most
    BY DEF Byte
  <2> HIDE DEF max
  <2>4. max - Lesser(Lesser(r, g), b) \in Byte /\ max - Lesser(Lesser(r, g), b) <= max
    BY <2>2, <2>3
  <2>5. QED
    BY <2>2, <2>4
<1>2. rgb_to_hs(r, g, b) = IF delta = 0 THEN <<0, 0>> ELSE <<hue % 256, (delta * 255) \div max>>
  BY Zenon DEF rgb_to_hs
<1>3. ASSUME delta # 0
      PROVE  hue \in Int
  <2>1. \A a \in Int : Truncated(a, delta) \in Int
    BY <1>1, <1>3 DEF Truncated, Byte
  <2>2. 43 * (g - b) \in Int /\ 43 * (b - r) \in Int /\ 43 * (r - g) \in Int
    BY DEF Byte
  <2> HIDE DEF delta, max
  <2>3. QED
    BY <2>1, <2>2
<1>4. ASSUME delta # 0
      PROVE  (delta * 255) \div max \in Byte
  <2> HIDE DEF delta, max
  <2>1. max \in 1 .. 255 /\ delta \in 0 .. max
    BY <1>1, <1>4 DEF Byte
  <2>2. QED
    BY <2>1 DEF Byte
<1> HIDE DEF hue, delta, max
<1>5. CASE delta = 0
  BY <1>2, <1>5 DEF Byte
<1>6. CASE delta # 0
  <2>1. hue % 256 \in Byte
    BY <1>3, <1>6 DEF Byte
  <2>2. QED
    BY <1>2, <1>4, <1>6, <2>1
<1>7. QED
  BY <1>5, <1>6

LEMMA LightOK ==
  ASSUME NEW channel \in Byte, NEW value \in Byte, NEW data \in Seq(Byte)
  PROVE  CallOK(Light(channel, value, data))
BY DEF Light, CallOK

\* A percentage scales to a byte.
LEMMA PercentIsByte ==
  ASSUME NEW n \in Byte, n <= 100
  PROVE  (n * 255 + 50) \div 100 \in Byte
BY DEF Byte

\* What a command puts on the wire has a D-Bus method's types.
LEMMA WireOK ==
  ASSUME NEW call \in Wires
  PROVE  CallOK(call)
<1>1. PICK cmd \in CommandLine : call = Wire(cmd)
  BY CommandsAssumption DEF Wires
<1>2. \A value \in ViaValues, bytes \in Seq(Byte) : CallOK(Light(RGB, value, bytes))
  <2>1. RGB \in Byte /\ ViaValues \subseteq Byte
    BY DEF Byte, RGB, VIA_CHANNEL_RGB_MATRIX, ViaValues, VIA_VALUE_BRIGHTNESS, VIA_VALUE_COLOR
  <2>2. QED
    BY <2>1, LightOK
<1>3. {VIA_VALUE_BRIGHTNESS, VIA_VALUE_EFFECT, VIA_VALUE_SPEED, VIA_VALUE_COLOR} \subseteq ViaValues
  BY DEF ViaValues, VIA_VALUE_BRIGHTNESS, VIA_VALUE_EFFECT, VIA_VALUE_SPEED, VIA_VALUE_COLOR
<1>4. CASE cmd.verb \in {"brightness", "speed"}
  <2>1. cmd \in [verb : {"brightness", "speed"}, level : Level]
    BY <1>4 DEF CommandLine
  <2>2. parse_level(cmd.level) \in Byte
    <3>1. cmd.level.n \in Byte /\ (cmd.level.percent => cmd.level.n <= 100)
      BY <2>1 DEF Level
    <3>2. CASE cmd.level.percent
      BY <3>1, <3>2, PercentIsByte DEF parse_level
    <3>3. CASE ~cmd.level.percent
      BY <3>1, <3>3 DEF parse_level
    <3>4. QED
      BY <3>2, <3>3
  <2>3. <<parse_level(cmd.level)>> \in Seq(Byte)
    BY <2>2
  <2>4. \E value \in {VIA_VALUE_BRIGHTNESS, VIA_VALUE_SPEED} : call = LevelCall(value, cmd.level)
    BY <1>1, <1>4 DEF Wire
  <2>5. QED
    BY <1>2, <1>3, <2>3, <2>4, Zenon DEF LevelCall
<1>5. CASE cmd.verb = "effect"
  <2>1. cmd \in [verb : {"effect"}, effect : Byte]
    BY <1>5 DEF CommandLine
  <2>2. <<cmd.effect>> \in Seq(Byte)
    BY <2>1
  <2>3. call = EffectCall(cmd.effect)
    BY <1>1, <1>5 DEF Wire
  <2>4. QED
    BY <1>2, <1>3, <2>2, <2>3, Zenon DEF EffectCall
<1>6. CASE cmd.verb = "color"
  <2>1. cmd \in [verb : {"color"}, rgb : Byte \X Byte \X Byte]
    BY <1>6 DEF CommandLine
  <2>2. rgb_to_hs(cmd.rgb[1], cmd.rgb[2], cmd.rgb[3]) \in Seq(Byte)
    BY <2>1, HueIsBytes
  <2>3. call = ColorCall(cmd.rgb)
    BY <1>1, <1>6 DEF Wire
  <2>4. QED
    BY <1>2, <1>3, <2>2, <2>3, Zenon DEF ColorCall
<1>7. CASE cmd.verb \in {"commit", "show"}
  BY <1>1, <1>7 DEF Wire, CallOK
<1>8. CASE cmd.verb = "off"
  <2>1. <<0>> \in Seq(Byte)
    BY DEF Byte
  <2>2. call = EffectCall(0)
    BY <1>1, <1>8 DEF Wire
  <2>3. QED
    BY <1>2, <1>3, <2>1, <2>2, Zenon DEF EffectCall
<1>9. CASE cmd.verb = "set-raw"
  <2>1. cmd \in [verb : {"set-raw"}, channel : Byte, value : Byte, data : Seq(Byte)]
    BY <1>9 DEF CommandLine
  <2>2. QED
    BY <1>1, <1>9, <2>1 DEF Wire, Light, CallOK
<1>10. CASE cmd.verb = "set"
  <2>1. cmd \in [verb : {"set"}, layer : Byte, cell : Byte \X Byte, code : Keycode]
    BY <1>10 DEF CommandLine
  <2>2. QED
    BY <1>1, <1>10, <2>1 DEF Wire, KeyCall, CallOK
<1>11. CASE cmd.verb = "set-macro"
  <2>1. cmd \in [verb : {"set-macro"}, offset : Keycode, data : Seq(Byte)]
    BY <1>11, Zenon DEF CommandLine
  <2>2. cmd.offset \in Keycode /\ cmd.data \in Seq(Byte)
    BY <2>1
  <2>3. call = MacroCall(cmd.offset, cmd.data)
    BY <1>1, <1>11 DEF Wire
  <2>4. Keycode \subseteq Nat
    BY DEF Keycode
  <2>5. QED
    BY <2>2, <2>3, <2>4 DEF MacroCall, CallOK
<1>12. CASE cmd.verb \in {"keymap", "get-macro"}
  BY <1>1, <1>12 DEF Wire, CallOK
<1>13. QED
  BY <1>1, <1>4, <1>5, <1>6, <1>7, <1>9, <1>10, <1>11, <1>12, <1>8 DEF CommandLine

LEMMA CallsIsNat ==
  ASSUME NEW cmd \in Commands
  PROVE  Calls(cmd) \in Nat
<1>1. Cardinality(ViaValues) \in Nat
  <2>1. VIA_VALUE_BRIGHTNESS \in Int /\ VIA_VALUE_COLOR \in Int
    BY DEF VIA_VALUE_BRIGHTNESS, VIA_VALUE_COLOR
  <2>2. IsFiniteSet(ViaValues)
    BY <2>1, FS_Interval DEF ViaValues
  <2>3. QED
    BY <2>2, FS_CardinalityType
<1>2. cmd.verb = "keymap" => cmd.cells \in Nat
  BY CommandsAssumption DEF CommandLine
<1>3. QED
  BY <1>1, <1>2 DEF Calls

ViaCells == (0 .. 15) \X (0 .. 15)
KeymapsOf(b) == IF b \in Gmk THEN Keymaps ELSE UNION {[D -> Keycode] : D \in SUBSET ViaCells}
ViaLight == [ViaValues -> [{1} -> Byte] \cup [{1, 2} -> Byte]]
LightOf(b) == IF b \in Gmk THEN Lightings ELSE ViaLight
KeysOf(b) == {keys \in [Layers -> KeymapsOf(b)] :
                \A l \in Layers : b \in Gmk /\ keydef_command(l) = {} => keys[l] = <<>>}
StateOf(b) == [light : LightOf(b), keys : KeysOf(b), eeprom : [0 .. EepromSize - 1 -> Byte]]

\* The fields of a board's state, and their types.
LEMMA StateFields ==
  ASSUME NEW b, NEW s \in StateOf(b)
  PROVE  /\ s = [light |-> s.light, keys |-> s.keys, eeprom |-> s.eeprom]
         /\ s.light \in LightOf(b)
         /\ s.keys \in KeysOf(b) /\ s.keys \in [Layers -> KeymapsOf(b)]
         /\ \A l \in Layers : b \in Gmk /\ keydef_command(l) = {} => s.keys[l] = <<>>
         /\ s.eeprom \in [0 .. EepromSize - 1 -> Byte]
<1>1. s.keys \in KeysOf(b)
  BY DEF StateOf
<1>2. QED
  BY <1>1 DEF StateOf, KeysOf

\* What a record made of such fields is.
LEMMA FieldsMakeState ==
  ASSUME NEW b, NEW light \in LightOf(b), NEW keys \in [Layers -> KeymapsOf(b)],
         \A l \in Layers : b \in Gmk /\ keydef_command(l) = {} => keys[l] = <<>>,
         NEW eeprom \in [0 .. EepromSize - 1 -> Byte]
  PROVE  [light |-> light, keys |-> keys, eeprom |-> eeprom] \in StateOf(b)
<1>1. keys \in KeysOf(b)
  BY DEF KeysOf
<1>2. QED
  BY <1>1 DEF StateOf

\* What replaces one of them leaves the others.
LEMMA StateExcept ==
  ASSUME NEW b, NEW s \in StateOf(b), NEW x
  PROVE  /\ [s EXCEPT !.light = x] = [light |-> x, keys |-> s.keys, eeprom |-> s.eeprom]
         /\ [s EXCEPT !.keys = x] = [light |-> s.light, keys |-> x, eeprom |-> s.eeprom]
         /\ [s EXCEPT !.eeprom = x] = [light |-> s.light, keys |-> s.keys, eeprom |-> x]
BY DEF StateOf

LEMMA EmptyKeymap ==
  ASSUME NEW b
  PROVE  <<>> \in KeymapsOf(b)
<1>1. <<>> \in [{} -> Keycode]
  OBVIOUS
<1>2. QED
  BY <1>1 DEF KeymapsOf, Keymaps

\* An assignment lands at its key and nowhere else.
LEMMA WithMap ==
  ASSUME NEW D, NEW E, NEW f \in [D -> E], NEW k, NEW v \in E
  PROVE  /\ With(f, k, v) \in [D \cup {k} -> E]
         /\ With(f, k, v)[k] = v
         /\ \A d \in D \ {k} : With(f, k, v)[d] = f[d]
BY DEF With

\* A board out of the box is in a state.
LEMMA BlankIsState ==
  ASSUME NEW b
  PROVE  Blank(b) \in StateOf(b) /\ Blank(b).keys \in KeysOf(b)
<1>1. DefaultLighting \in Lightings
  BY DEF DefaultLighting, Lightings, MODE_STATIC, LEVEL_MAX, Byte
<1>2. [v \in ViaValues |-> [i \in 1 .. Needed(v) |-> 0]] \in ViaLight
  <2>1. ASSUME NEW v \in ViaValues
        PROVE  [i \in 1 .. Needed(v) |-> 0] \in [{1} -> Byte] \cup [{1, 2} -> Byte]
    <3>1. 1 .. Needed(v) = {1} \/ 1 .. Needed(v) = {1, 2}
      BY DEF Needed
    <3>2. 0 \in Byte
      BY DEF Byte
    <3>3. QED
      BY <3>1, <3>2
  <2>2. QED
    BY <2>1 DEF ViaLight
<1>3. [l \in Layers |-> <<>>] \in KeysOf(b)
  BY EmptyKeymap DEF KeysOf
<1>4. [o \in 0 .. EepromSize - 1 |-> 0] \in [0 .. EepromSize - 1 -> Byte]
  BY DEF Byte
<1>5. QED
  BY <1>1, <1>2, <1>3, <1>4 DEF Blank, StateOf, LightOf

\* Reading a key-definition area back gives the keymap that was written to it.
LEMMA ReadBackIsIdentity ==
  ASSUME NEW b \in Gmk, NEW keys \in KeysOf(b)
  PROVE  ReadBack(keys) = keys
<1>1. /\ keys \in [Layers -> Keymaps]
      /\ \A l \in Layers : keydef_command(l) = {} => keys[l] = <<>>
  BY DEF KeysOf, KeymapsOf
<1>2. \A l \in Layers : read_keydef_layer(encode_keydef_buffer(keys[l])) = keys[l]
  BY <1>1, KeymapRoundTrip
<1>3. QED
  BY <1>1, <1>2 DEF ReadBack

\* The pages are those of the area, and a keymap written over another page by page is one.
LEMMA OverlaidIsKeymap ==
  ASSUME NEW old \in Keymaps, NEW new \in Keymaps, NEW pages \in Int
  PROVE  Overlaid(old, new, pages) \in Keymaps
<1>1. PICK D \in SUBSET Keyed : old \in [D -> Keycode]
  BY DEF Keymaps
<1>2. PICK E \in SUBSET Keyed : new \in [E -> Keycode]
  BY DEF Keymaps
<1>3. \A k \in Keyed : Page(k) \in Int
  BY KeyIndexAssumption DEF Keyed, Page, Cells, AREA_ENTRIES, NA
<1> DEFINE There == {k \in E : Page(k) < pages} \cup {k \in D : Page(k) >= pages}
<1>4. There \in SUBSET Keyed
  OBVIOUS
<1>5. Overlaid(old, new, pages) = [k \in There |-> IF Page(k) < pages THEN new[k] ELSE old[k]]
  BY <1>1, <1>2 DEF Overlaid
<1>6. \A k \in There : (IF Page(k) < pages THEN new[k] ELSE old[k]) \in Keycode
  BY <1>1, <1>2, <1>3
<1> HIDE DEF There
<1>7. Overlaid(old, new, pages) \in [There -> Keycode]
  BY <1>5, <1>6
<1>8. QED
  BY <1>4, <1>7 DEF Keymaps

-----------------------------------------------------------------------------
(* Writes. *)

\* A lighting value cut or padded to its length is a value.
LEMMA PaddedIsValue ==
  ASSUME NEW v, NEW data \in Seq(Byte)
  PROVE  Padded(v, data) \in [{1} -> Byte] \cup [{1, 2} -> Byte]
<1>1. 1 .. Needed(v) = {1} \/ 1 .. Needed(v) = {1, 2}
  BY DEF Needed
<1>2. ASSUME NEW i \in 1 .. Needed(v)
      PROVE  (IF i <= Len(data) THEN data[i] ELSE 0) \in Byte
  <2>1. i \in {1, 2} /\ 0 \in Byte
    BY <1>1 DEF Byte
  <2>2. i <= Len(data) => i \in 1 .. Len(data)
    BY <2>1
  <2>3. QED
    BY <2>1, <2>2
<1>3. QED
  BY <1>1, <1>2 DEF Padded

LEMMA LightWrittenIsState ==
  ASSUME NEW b \in Boards, live[b] \in StateOf(b), NEW call, CallOK(call), call.op = "light",
         LightAccepted(b, call)
  PROVE  /\ LightWritten(b, call) \in StateOf(b)
         /\ LightWritten(b, call).keys = live[b].keys
         /\ LightWritten(b, call).eeprom = live[b].eeprom
<1>1. call.channel \in Byte /\ call.value \in Byte /\ call.data \in Seq(Byte)
  BY DEF CallOK
<1> DEFINE s == live[b]
<1>2. CASE b \in Gmk
  <2> DEFINE light == Proposed(s.light, call.channel, call.value, call.data)
  <2>1. s.light \in Lightings
    BY <1>2, StateFields DEF LightOf
  <2>2. light \in LightOf(b)
    BY <1>1, <1>2, <2>1, AcceptedIsRenderable DEF LightAccepted, LightOf
  <2>3. LightWritten(b, call) = [s EXCEPT !.light = light]
    BY <1>2 DEF LightWritten
  <2> HIDE DEF light
  <2>4. LightWritten(b, call) = [light |-> light, keys |-> s.keys, eeprom |-> s.eeprom]
    BY <2>3, StateExcept
  <2>5. [light |-> light, keys |-> s.keys, eeprom |-> s.eeprom] \in StateOf(b)
    <3>1. /\ s.keys \in [Layers -> KeymapsOf(b)]
          /\ \A l \in Layers : b \in Gmk /\ keydef_command(l) = {} => s.keys[l] = <<>>
          /\ s.eeprom \in [0 .. EepromSize - 1 -> Byte]
      BY StateFields
    <3>2. QED
      BY <2>2, <3>1, FieldsMakeState
  <2>6. QED
    BY <2>4, <2>5
<1>3. CASE b \notin Gmk /\ call.channel = RGB /\ call.value \in ViaValues
  <2> DEFINE light == [s.light EXCEPT ![call.value] = Padded(call.value, call.data)]
  <2>1. s.light \in ViaLight
    BY <1>3, StateFields DEF LightOf
  <2>2. light \in LightOf(b)
    BY <1>1, <1>3, <2>1, PaddedIsValue DEF ViaLight, LightOf
  <2>3. LightWritten(b, call) = [s EXCEPT !.light = light]
    BY <1>3 DEF LightWritten
  <2> HIDE DEF light
  <2>4. LightWritten(b, call) = [light |-> light, keys |-> s.keys, eeprom |-> s.eeprom]
    BY <2>3, StateExcept
  <2>5. [light |-> light, keys |-> s.keys, eeprom |-> s.eeprom] \in StateOf(b)
    <3>1. /\ s.keys \in [Layers -> KeymapsOf(b)]
          /\ \A l \in Layers : b \in Gmk /\ keydef_command(l) = {} => s.keys[l] = <<>>
          /\ s.eeprom \in [0 .. EepromSize - 1 -> Byte]
      BY StateFields
    <3>2. QED
      BY <2>2, <3>1, FieldsMakeState
  <2>6. QED
    BY <2>4, <2>5
<1>4. CASE b \notin Gmk /\ ~(call.channel = RGB /\ call.value \in ViaValues)
  BY <1>4 DEF LightWritten
<1>5. QED
  BY <1>2, <1>3, <1>4

LEMMA KeyWrittenIsState ==
  ASSUME NEW b \in Boards, live[b] \in StateOf(b), NEW call, CallOK(call), call.op = "key",
         KeyAccepted(b, call)
  PROVE  /\ call.layer \in Layers
         /\ KeyWritten(b, call) \in StateOf(b)
         /\ KeyWritten(b, call).light = live[b].light
         /\ KeyWritten(b, call).eeprom = live[b].eeprom
         /\ KeyWritten(b, call).keys
              = IF b \in Gmk \/ OnFirmware(call.cell)
                THEN [live[b].keys EXCEPT ![call.layer] = With(@, call.cell, call.code)]
                ELSE live[b].keys
<1> DEFINE s == live[b]
           keys == [s.keys EXCEPT ![call.layer] = With(@, call.cell, call.code)]
<1>1. call.layer \in Byte /\ call.code \in Keycode
  BY DEF CallOK
<1>2. call.layer \in Layers
  BY <1>1 DEF KeyAccepted, contains, Layers, Byte
<1>3. b \in Gmk => call.cell \in Keyed /\ keydef_command(call.layer) # {}
  BY DEF KeyAccepted, key_index_for
<1>4. b \notin Gmk => call.cell \in ViaCells
  BY DEF KeyAccepted, contains, ViaCells
<1>5. With(s.keys[call.layer], call.cell, call.code) \in KeymapsOf(b)
  <2> DEFINE Where == IF b \in Gmk THEN Keyed ELSE ViaCells
  <2>1. KeymapsOf(b) = UNION {[D -> Keycode] : D \in SUBSET Where}
    BY DEF KeymapsOf, Keymaps
  <2>2. call.cell \in Where
    BY <1>3, <1>4
  <2>3. s.keys[call.layer] \in KeymapsOf(b)
    BY <1>2, StateFields
  <2> DEFINE keymap == s.keys[call.layer]
  <2> HIDE DEF Where, keymap
  <2>4. PICK D \in SUBSET Where : keymap \in [D -> Keycode]
    <3>1. keymap \in UNION {[D -> Keycode] : D \in SUBSET Where}
      BY <2>1, <2>3 DEF keymap
    <3>2. QED
      BY <3>1
  <2>5. With(keymap, call.cell, call.code) \in [D \cup {call.cell} -> Keycode]
    BY <1>1, <2>4, WithMap, Zenon
  <2>6. D \cup {call.cell} \in SUBSET Where
    BY <2>2
  <2>7. QED
    BY <2>1, <2>5, <2>6 DEF keymap
<1>6. keys \in [Layers -> KeymapsOf(b)]
  BY <1>5, StateFields
<1>7. \A l \in Layers : b \in Gmk /\ keydef_command(l) = {} => keys[l] = <<>>
  BY <1>3, StateFields
<1>8. KeyWritten(b, call) = IF b \in Gmk \/ OnFirmware(call.cell)
                            THEN [s EXCEPT !.keys = keys] ELSE s
  BY DEF KeyWritten
<1> HIDE DEF keys
<1>9. [s EXCEPT !.keys = keys] = [light |-> s.light, keys |-> keys, eeprom |-> s.eeprom]
  BY StateExcept
<1>10. [light |-> s.light, keys |-> keys, eeprom |-> s.eeprom] \in StateOf(b)
  BY <1>6, <1>7, StateFields, FieldsMakeState
<1>11. QED
  BY <1>2, <1>8, <1>9, <1>10 DEF keys

LEMMA MacroWrittenIsState ==
  ASSUME NEW b \in Boards, live[b] \in StateOf(b), NEW call, CallOK(call), call.op = "macro",
         MacroAccepted(b, call.offset, Len(call.data))
  PROVE  /\ b \notin Gmk
         /\ MacroWritten(b, call) \in StateOf(b)
         /\ MacroWritten(b, call).light = live[b].light
         /\ MacroWritten(b, call).keys = live[b].keys
         /\ \A o \in 0 .. EepromSize - 1 :
              MacroWritten(b, call).eeprom[o]
                = IF o - call.offset \in 0 .. Len(call.data) - 1
                  THEN call.data[o - call.offset + 1] ELSE live[b].eeprom[o]
         /\ call.offset + Len(call.data) <= MacroSize
<1> DEFINE s == live[b]
           byte(o) == IF o - call.offset \in 0 .. Len(call.data) - 1
                      THEN call.data[o - call.offset + 1] ELSE s.eeprom[o]
           eeprom == [o \in DOMAIN s.eeprom |-> byte(o)]
<1>1. call.offset \in Nat /\ call.data \in Seq(Byte)
  BY DEF CallOK
<1>2. s.eeprom \in [0 .. EepromSize - 1 -> Byte]
  BY StateFields
<1>3. MacroWritten(b, call) = [s EXCEPT !.eeprom = eeprom]
  BY DEF MacroWritten
<1>4. ASSUME NEW o \in 0 .. EepromSize - 1
      PROVE  byte(o) \in Byte
  <2>1. s.eeprom[o] \in Byte
    BY <1>2
  <2>2. CASE o - call.offset \in 0 .. Len(call.data) - 1
    <3>1. o - call.offset + 1 \in 1 .. Len(call.data)
      BY <1>1, <2>2
    <3>2. call.data[o - call.offset + 1] \in Byte
      BY <1>1, <3>1
    <3>3. QED
      BY <2>2, <3>2
  <2>3. QED
    BY <2>1, <2>2
<1>5. eeprom \in [0 .. EepromSize - 1 -> Byte] /\ \A o \in 0 .. EepromSize - 1 : eeprom[o] = byte(o)
  BY <1>2, <1>4
<1> HIDE DEF eeprom
<1>6. MacroWritten(b, call) = [light |-> s.light, keys |-> s.keys, eeprom |-> eeprom]
  BY <1>3, StateExcept
<1>7. [light |-> s.light, keys |-> s.keys, eeprom |-> eeprom] \in StateOf(b)
  <2>1. /\ s.light \in LightOf(b) /\ s.keys \in [Layers -> KeymapsOf(b)]
        /\ \A l \in Layers : b \in Gmk /\ keydef_command(l) = {} => s.keys[l] = <<>>
    BY StateFields
  <2>2. QED
    BY <1>5, <2>1, FieldsMakeState
<1>8. b \notin Gmk /\ call.offset + Len(call.data) <= MacroSize
  BY DEF MacroAccepted, validate_macro_range
<1>9. QED
  BY <1>5, <1>6, <1>7, <1>8

-----------------------------------------------------------------------------
(* Types. *)

Memory(m) == m = [b \in Boards |-> m[b]] /\ \A b \in Boards : m[b] \in StateOf(b)

KeyMemory(m) == m = [b \in Boards |-> m[b]] /\ \A b \in Boards : m[b] \in KeysOf(b)
Cellular(b) == IF b \in Gmk THEN Layers \X Keyed ELSE {}
DirtyCells(d) == d = [b \in Boards |-> d[b]] /\ \A b \in Boards : d[b] \subseteq Cellular(b)

BoardTypes ==
  /\ Memory(live) /\ Memory(saved)
  /\ KeyMemory(area) /\ KeyMemory(confirmed)
  /\ DirtyCells(dirty)
  /\ channels \in [Boards -> SUBSET Byte]

Proc == [pc : {"idle", "resolving", "calling"}, call : Wires \cup {None},
         name : Names \cup {None}, id : Ids \cup {None}, left : Nat]
Busy(p) ==
  /\ p.pc # "idle" => p.call \in Wires /\ p.name \in Names
  /\ p.pc = "calling" => p.id \in Ids

UserTypes ==
  /\ at \in Registry
  /\ proc \in [Clients -> Proc] /\ \A c \in Clients : Busy(proc[c])
  /\ seen \in [Clients -> Registry]
  /\ moved \in [Clients -> SUBSET Ids]
  /\ commands \in 0 .. MaxCommands /\ moves \in 0 .. MaxMoves /\ faults \in 0 .. MaxFaults

TypeInv == BoardTypes /\ UserTypes

LEMMA KeysAreKeymap ==
  ASSUME NEW b, NEW keys \in KeysOf(b)
  PROVE  KeymapOf(b, keys)
<1>1. ASSUME NEW l \in Layers
      PROVE  /\ DOMAIN keys[l] \subseteq IF b \in Gmk THEN Keyed ELSE (0 .. 15) \X (0 .. 15)
             /\ \A k \in DOMAIN keys[l] : keys[l][k] \in Keycode
             /\ b \in Gmk /\ keydef_command(l) = {} => keys[l] = <<>>
  <2> DEFINE keymap == keys[l]
             Where == IF b \in Gmk THEN Keyed ELSE (0 .. 15) \X (0 .. 15)
  <2>1. keymap \in UNION {[D -> Keycode] : D \in SUBSET Where}
    BY <1>1 DEF KeysOf, KeymapsOf, Keymaps, ViaCells
  <2>2. b \in Gmk /\ keydef_command(l) = {} => keymap = <<>>
    BY <1>1 DEF KeysOf
  <2> HIDE DEF keymap, Where
  <2>3. PICK D \in SUBSET Where : keymap \in [D -> Keycode]
    BY <2>1
  <2>4. DOMAIN keymap \subseteq Where /\ \A k \in DOMAIN keymap : keymap[k] \in Keycode
    BY <2>3
  <2>5. QED
    BY <2>2, <2>4 DEF keymap, Where
<1>2. QED
  BY <1>1 DEF KeymapOf

LEMMA TypeInvIsTypeOK ==
  ASSUME TypeInv
  PROVE  TypeOK
<1>1. ASSUME NEW b \in Boards, NEW s \in StateOf(b)
      PROVE  /\ s.light \in IF b \in Gmk THEN Lightings
                           ELSE [ViaValues -> [{1} -> Byte] \cup [{1, 2} -> Byte]]
             /\ KeymapOf(b, s.keys)
             /\ s.eeprom \in [0 .. EepromSize - 1 -> Byte]
  BY StateFields, KeysAreKeymap DEF LightOf, ViaLight
<1>2. \A b \in Boards : /\ live[b] \in StateOf(b) /\ saved[b] \in StateOf(b)
                        /\ area[b] \in KeysOf(b) /\ confirmed[b] \in KeysOf(b)
                        /\ dirty[b] \subseteq Cellular(b)
  BY DEF TypeInv, BoardTypes, Memory, KeyMemory, DirtyCells
<1>3. \A c \in Clients :
        /\ proc[c].pc \in {"idle", "resolving", "calling"}
        /\ proc[c].pc = "calling" => proc[c].id \in Ids
        /\ seen[c] \in [Ids -> Boards \cup {None}]
        /\ moved[c] \subseteq Ids
  BY DEF TypeInv, UserTypes, Proc, Busy, Registry
<1>4. \A b \in Boards : KeymapOf(b, area[b]) /\ KeymapOf(b, confirmed[b])
  BY <1>2, KeysAreKeymap
<1>5. QED
  BY <1>1, <1>2, <1>3, <1>4 DEF TypeOK, TypeInv, BoardTypes, UserTypes, Registry, Cellular

LEMMA TypeInvInit ==
  ASSUME Init
  PROVE  TypeInv
<1>1. BoardTypes
  BY BlankIsState DEF Init, BoardTypes, Memory, KeyMemory, DirtyCells
<1>2. Idle \in Proc /\ Busy(Idle)
  BY DEF Idle, Proc, Busy
<1>3. UserTypes
  BY <1>2, ClackctlAssumption DEF Init, UserTypes, Registry
<1>4. QED
  BY <1>1, <1>3 DEF TypeInv

\* An answer moves its command on, or ends it, and no other's.
LEMMA AnswerIs ==
  ASSUME proc \in [Clients -> Proc], NEW c \in Clients, NEW ok, Answered(c, ok),
         proc[c].pc = "calling"
  PROVE  /\ \A d \in Clients \ {c} : proc'[d] = proc[d]
         /\ proc'[c] # proc[c]
         /\ \/ proc'[c] = Idle
            \/ /\ proc'[c] \in Proc
               /\ proc'[c].pc = "calling" /\ proc'[c].call = proc[c].call
               /\ proc'[c].name = proc[c].name /\ proc'[c].id = proc[c].id
         /\ proc' \in [Clients -> Proc]
<1>1. proc[c] \in Proc /\ Idle \in Proc /\ Idle.pc = "idle"
  BY DEF Idle, Proc
<1> DEFINE next == [proc[c] EXCEPT !.left = @ - 1]
<1>2. ASSUME proc[c].left > 1
      PROVE  /\ next \in Proc /\ next.pc = "calling" /\ next.call = proc[c].call
             /\ next.name = proc[c].name /\ next.id = proc[c].id /\ next # proc[c]
  <2>1. proc[c].left \in Nat /\ proc[c].left - 1 \in Nat /\ proc[c].left - 1 # proc[c].left
    BY <1>1, <1>2 DEF Proc
  <2>2. next.left = proc[c].left - 1
    BY <1>1 DEF Proc
  <2>3. QED
    BY <1>1, <2>1, <2>2 DEF Proc
<1>3. \/ proc[c].left > 1 /\ proc' = [proc EXCEPT ![c] = next]
      \/ proc' = [proc EXCEPT ![c] = Idle]
  BY DEF Answered
<1> HIDE DEF next
<1>4. QED
  BY <1>1, <1>2, <1>3

LEMMA CommitFaults ==
  ASSUME NEW b, NEW ok, CommitGmk(b, ok) \/ CommitVia(b, ok)
  PROVE  UNCHANGED faults \/ Fault
<1>1. CASE CommitGmk(b, ok)
  BY <1>1, Zenon DEF CommitGmk, ConfirmCommit, Rollback, Save
<1>2. CASE CommitVia(b, ok)
  BY <1>2, Zenon DEF CommitVia
<1>3. QED
  BY <1>1, <1>2

CallStep(c, b) ==
  \/ SetLighting(c, b) \/ SetKeycode(c, b) \/ SetMacro(c, b) \/ Commit(c, b)
  \/ GetLighting(c, b) \/ GetKeycode(c, b) \/ GetMacro(c, b)

\* A call is made of the board its id names, and is answered; the user looks on.
LEMMA CallIsAnswered ==
  ASSUME NEW c, NEW b, CallStep(c, b)
  PROVE  /\ proc[c].pc = "calling" /\ at[proc[c].id] = b /\ b # None
         /\ \E ok \in BOOLEAN : Answered(c, ok)
         /\ UNCHANGED <<at, commands, moves, userVars>>
         /\ UNCHANGED faults \/ Fault
<1> DEFINE Answers == /\ \E ok \in BOOLEAN : Answered(c, ok)
                      /\ UNCHANGED <<at, commands, moves, userVars>>
                      /\ UNCHANGED faults \/ Fault
<1>1. ASSUME NEW accepted, NEW new, Write(c, b, accepted, new)
      PROVE  Answers
  <2>1. ASSUME NEW call, StoreGmk(b, call, new)
        PROVE  UNCHANGED faults \/ Fault
    BY <2>1, Zenon DEF StoreGmk, Save
  <2>2. QED
    BY <1>1, <2>1 DEF Write, Declined, WriteFails
<1>2. ASSUME NEW accepted \in BOOLEAN, Read(c, accepted)
      PROVE  Answers
  BY <1>2 DEF Read
<1>3. ASSUME Commit(c, b)
      PROVE  Answers
  <2>1. PICK ok \in BOOLEAN : /\ CommitGmk(b, ok) \/ CommitVia(b, ok)
                              /\ Answered(c, ok)
    BY <1>3, Zenon DEF Commit
  <2>2. UNCHANGED faults \/ Fault
    BY <2>1, CommitFaults
  <2>3. QED
    BY <1>3, <2>1, <2>2 DEF Commit
<1>4. Reaches(c, b)
  BY DEF CallStep, SetLighting, SetKeycode, SetMacro, Commit, GetLighting, GetKeycode, GetMacro
<1>5. Answers
  <2> HIDE DEF Answers
  <2>1. CASE SetLighting(c, b)
    BY <1>1, <2>1 DEF SetLighting
  <2>2. CASE SetKeycode(c, b)
    BY <1>1, <2>2 DEF SetKeycode
  <2>3. CASE SetMacro(c, b)
    BY <1>1, <2>3 DEF SetMacro
  <2>4. CASE GetLighting(c, b)
    BY <1>2, <2>4 DEF GetLighting
  <2>5. CASE GetKeycode(c, b)
    <3>1. contains(b, Call(c).layer, Call(c).cell) \in BOOLEAN
      BY DEF contains
    <3>2. QED
      BY <1>2, <2>5, <3>1 DEF GetKeycode
  <2>6. CASE GetMacro(c, b)
    <3>1. MacroAccepted(b, Call(c).offset, Call(c).length) \in BOOLEAN
      BY DEF MacroAccepted
    <3>2. QED
      BY <1>2, <2>6, <3>1 DEF GetMacro
  <2>7. QED
    BY <1>3, <2>1, <2>2, <2>3, <2>4, <2>5, <2>6 DEF CallStep
<1>6. QED
  BY <1>4, <1>5 DEF Reaches

LEMMA MemoryExcept ==
  ASSUME NEW m, Memory(m), NEW b \in Boards, NEW s \in StateOf(b)
  PROVE  Memory([m EXCEPT ![b] = s])
BY DEF Memory

LEMMA KeyMemoryExcept ==
  ASSUME NEW m, KeyMemory(m), NEW b \in Boards, NEW keys \in KeysOf(b)
  PROVE  KeyMemory([m EXCEPT ![b] = keys])
BY DEF KeyMemory

LEMMA DirtyExcept ==
  ASSUME NEW m, DirtyCells(m), NEW b \in Boards, NEW d \in SUBSET Cellular(b)
  PROVE  DirtyCells([m EXCEPT ![b] = d])
BY DEF DirtyCells

\* A write a VIA board obeys keeps the types, answered or not.
LEMMA StoreViaKeepsTypes ==
  ASSUME BoardTypes, NEW b \in Boards, NEW call, CallOK(call), NEW new \in StateOf(b),
         NEW ok, StoreVia(b, call, new, ok)
  PROVE  BoardTypes'
<1>1. Memory(live) /\ Memory(saved) /\ live[b] \in StateOf(b) /\ saved[b] \in StateOf(b)
  BY DEF BoardTypes, Memory
<1>2. Memory(live')
  BY <1>1, MemoryExcept DEF StoreVia
<1>3. Memory(saved')
  <2>1. CASE call.op = "light"
    BY <1>1, <2>1 DEF StoreVia
  <2>2. CASE call.op # "light"
    <3>1. saved' = [saved EXCEPT ![b] = [new EXCEPT !.light = saved[b].light]]
      BY <2>2 DEF StoreVia
    <3>2. [new EXCEPT !.light = saved[b].light] \in StateOf(b)
      BY <1>1 DEF StateOf
    <3>3. QED
      BY <1>1, <3>1, <3>2, MemoryExcept
  <2>3. QED
    BY <2>1, <2>2
<1>4. channels' \in [Boards -> SUBSET Byte]
  BY DEF BoardTypes, StoreVia, CallOK
<1>5. UNCHANGED <<area, confirmed, dirty>>
  BY DEF StoreVia
<1>6. QED
  BY <1>2, <1>3, <1>4, <1>5 DEF BoardTypes, Memory, KeyMemory, DirtyCells

\* So does one the GMK67 driver takes up, whether its file is written or not.
LEMMA StoreGmkKeepsTypes ==
  ASSUME BoardTypes, NEW b \in Gmk, b \in Boards, NEW call, CallOK(call), NEW new \in StateOf(b),
         call.op = "key" => KeyAccepted(b, call), StoreGmk(b, call, new)
  PROVE  BoardTypes'
<1>1. Memory(live) /\ Memory(saved) /\ DirtyCells(dirty) /\ dirty[b] \subseteq Cellular(b)
  BY DEF BoardTypes, DirtyCells
<1>2. Memory(live')
  BY <1>1, MemoryExcept DEF StoreGmk
<1>3. Memory(saved')
  <2>1. saved' = saved \/ saved' = [saved EXCEPT ![b] = new]
    BY Zenon DEF StoreGmk, Save
  <2>2. QED
    BY <1>1, <2>1, MemoryExcept
<1>4. DirtyCells(dirty')
  <2>1. CASE dirty' = dirty
    BY <1>1, <2>1
  <2>2. CASE call.op = "key" /\ dirty' = [dirty EXCEPT ![b] = @ \cup {<<call.layer, call.cell>>}]
    <3>1. call.layer \in Layers /\ call.cell \in Keyed
      BY <2>2 DEF KeyAccepted, key_index_for, keydef_command, Layers
    <3>2. dirty[b] \cup {<<call.layer, call.cell>>} \in SUBSET Cellular(b)
      BY <1>1, <3>1 DEF Cellular
    <3>3. QED
      BY <1>1, <2>2, <3>2, DirtyExcept
  <2>3. QED
    BY <2>1, <2>2, Zenon DEF StoreGmk
<1>5. UNCHANGED <<area, confirmed, channels>>
  BY DEF StoreGmk
<1>6. QED
  BY <1>2, <1>3, <1>4, <1>5 DEF BoardTypes, Memory, KeyMemory, DirtyCells

LEMMA WriteKeepsTypes ==
  ASSUME BoardTypes, NEW c, NEW b \in Boards, CallOK(Call(c)),
         NEW accepted, NEW new, accepted => new \in StateOf(b),
         accepted /\ Call(c).op = "key" => KeyAccepted(b, Call(c)), Write(c, b, accepted, new)
  PROVE  BoardTypes'
<1>1. CASE UNCHANGED boardVars
  BY <1>1 DEF BoardTypes, boardVars, Memory, KeyMemory, DirtyCells
<1>2. CASE accepted /\ \E ok : StoreVia(b, Call(c), new, ok)
  BY <1>2, StoreViaKeepsTypes
<1>3. CASE accepted /\ b \in Gmk /\ StoreGmk(b, Call(c), new)
  BY <1>3, StoreGmkKeepsTypes
<1>4. QED
  BY <1>1, <1>2, <1>3 DEF Write, Declined, WriteFails

\* Keys of one board's memory taken from another copy of it, as commits do; so is light.
LEMMA CopiedKeys ==
  ASSUME NEW m, Memory(m), NEW b \in Boards, NEW keys \in KeysOf(b), NEW s \in StateOf(b)
  PROVE  /\ Memory([m EXCEPT ![b].keys = keys])
         /\ Memory([m EXCEPT ![b].light = s.light])
<1>1. m[b] \in StateOf(b)
  BY DEF Memory
<1>2. /\ [m[b] EXCEPT !.keys = keys] \in StateOf(b)
      /\ [m[b] EXCEPT !.light = s.light] \in StateOf(b)
  BY <1>1 DEF StateOf
<1>3. QED
  BY <1>2, MemoryExcept

\* What a push leaves in the areas, wherever it stops, are keymaps.
LEMMA PushedIsKeys ==
  ASSUME BoardTypes, NEW b \in Gmk, b \in Boards, NEW stop, NEW pages \in Int
  PROVE  Pushed(b, stop, pages) \in KeysOf(b)
<1>1. area[b] \in KeysOf(b) /\ live[b].keys \in KeysOf(b)
  BY StateFields DEF BoardTypes, Memory, KeyMemory
<1>2. /\ area[b] \in [Layers -> Keymaps] /\ live[b].keys \in [Layers -> Keymaps]
      /\ \A l \in Layers : keydef_command(l) = {} => area[b][l] = <<>> /\ live[b].keys[l] = <<>>
  BY <1>1 DEF KeysOf, KeymapsOf
<1>3. Overlaid(<<>>, <<>>, pages) = <<>>
  <2>1. DOMAIN <<>> = {}
    OBVIOUS
  <2>2. {k \in DOMAIN <<>> : Page(k) < pages} \cup {k \in DOMAIN <<>> : Page(k) >= pages} = {}
    BY <2>1, Zenon
  <2>3. Overlaid(<<>>, <<>>, pages)
          = [k \in {} |-> IF Page(k) < pages THEN <<>>[k] ELSE <<>>[k]]
    BY <2>2, Zenon DEF Overlaid
  <2>4. QED
    BY <2>3
<1>4. ASSUME NEW l \in Layers
      PROVE  /\ Pushed(b, stop, pages)[l] \in Keymaps
             /\ keydef_command(l) = {} => Pushed(b, stop, pages)[l] = <<>>
  <2>1. Pushed(b, stop, pages)[l] \in {area[b][l], live[b].keys[l],
                                       Overlaid(area[b][l], live[b].keys[l], pages)}
    BY Zenon DEF Pushed
  <2>2. /\ area[b][l] \in Keymaps /\ live[b].keys[l] \in Keymaps
        /\ Overlaid(area[b][l], live[b].keys[l], pages) \in Keymaps
    BY <1>2, OverlaidIsKeymap
  <2>3. QED
    BY <1>2, <1>3, <2>1, <2>2
<1>5. Pushed(b, stop, pages) \in [Layers -> Keymaps]
  <2>1. Pushed(b, stop, pages) = [l \in Layers |-> Pushed(b, stop, pages)[l]]
    BY DEF Pushed
  <2>2. QED
    BY <1>4, <2>1
<1>6. QED
  BY <1>4, <1>5 DEF KeysOf, KeymapsOf

\* So does a commit, whether it ended or not.
LEMMA CommitKeepsTypes ==
  ASSUME BoardTypes, NEW b \in Boards,
         NEW ok, (b \in Gmk /\ CommitGmk(b, ok)) \/ (b \notin Gmk /\ CommitVia(b, ok))
  PROVE  BoardTypes'
<1>1. /\ Memory(live) /\ Memory(saved) /\ live[b] \in StateOf(b) /\ saved[b] \in StateOf(b)
      /\ live[b].keys \in KeysOf(b) /\ confirmed[b] \in KeysOf(b)
      /\ KeyMemory(area) /\ KeyMemory(confirmed) /\ DirtyCells(dirty)
      /\ channels \in [Boards -> SUBSET Byte]
  BY StateFields DEF BoardTypes, Memory, KeyMemory
<1>2. CASE UNCHANGED boardVars
  BY <1>2 DEF BoardTypes, boardVars, Memory, KeyMemory, DirtyCells
<1>3. CASE /\ b \in Gmk
           /\ ConfirmCommit(b) \/ Rollback(b)
           /\ dirty' = [dirty EXCEPT ![b] = {}] /\ UNCHANGED channels
  <2>1. Memory(live')
    <3>1. live' = live \/ live' = [live EXCEPT ![b].keys = confirmed[b]]
      BY <1>3 DEF ConfirmCommit, Rollback
    <3>2. Memory([live EXCEPT ![b].keys = confirmed[b]])
      BY <1>1, CopiedKeys, Zenon
    <3>3. QED
      BY <1>1, <3>1, <3>2, Zenon
  <2>2. Memory(saved')
    <3>1. saved' = saved \/ saved' = [saved EXCEPT ![b] = live[b]]
      BY <1>3, Zenon DEF ConfirmCommit, Rollback, Save
    <3>2. QED
      BY <1>1, <3>1, MemoryExcept
  <2>3. KeyMemory(area')
    <3>1. PICK stop, pages : /\ area' = [area EXCEPT ![b] = Pushed(b, stop, pages)]
                             /\ pages \in {0} \cup 0 .. KEY_DEF_PAGES
      BY <1>3, Zenon DEF ConfirmCommit, Rollback
    <3>2. pages \in Int
      BY <3>1 DEF KEY_DEF_PAGES
    <3>3. Pushed(b, stop, pages) \in KeysOf(b)
      BY <1>3, <3>2, PushedIsKeys
    <3>4. QED
      BY <1>1, <3>1, <3>3, KeyMemoryExcept, Zenon
  <2>4. KeyMemory(confirmed')
    <3>1. confirmed' = confirmed \/ confirmed' = [confirmed EXCEPT ![b] = live[b].keys]
      BY <1>3 DEF ConfirmCommit, Rollback
    <3>2. QED
      BY <1>1, <3>1, KeyMemoryExcept
  <2>5. DirtyCells(dirty')
    BY <1>1, <1>3, DirtyExcept
  <2>6. QED
    BY <1>1, <1>3, <2>1, <2>2, <2>3, <2>4, <2>5 DEF BoardTypes
<1>4. CASE b \notin Gmk /\ CommitVia(b, ok)
  <2>1. UNCHANGED <<live, area, confirmed, dirty>> /\ channels' \in [Boards -> SUBSET Byte]
    BY <1>1, <1>4 DEF CommitVia
  <2>2. saved' = saved \/ saved' = [saved EXCEPT ![b].light = live[b].light]
    BY <1>4 DEF CommitVia, SavedRGB
  <2>3. Memory(saved')
    <3>1. Memory([saved EXCEPT ![b].light = live[b].light])
      BY <1>1, CopiedKeys, Zenon
    <3>2. QED
      BY <1>1, <2>2, <3>1, Zenon
  <2>4. QED
    BY <1>1, <2>1, <2>3 DEF BoardTypes, Memory, KeyMemory, DirtyCells
<1>5. QED
  BY <1>2, <1>3, <1>4 DEF CommitGmk

\* What the next session of a GMK67 driver starts from: its file or a fresh shadow, with
\* the keys of the areas when they are adopted.
File(b, readable) == IF readable THEN saved[b] ELSE Blank(b)
Started(b, readable, adopts) ==
  IF adopts THEN [File(b, readable) EXCEPT !.keys = area[b]] ELSE File(b, readable)
NotesOf(b, readable) == IF readable THEN kept[b] ELSE Unwritten

LEMMA AttachStarts ==
  ASSUME NEW b \in Gmk, area[b] \in KeysOf(b), AttachGmk(b)
  PROVE  \E readable \in BOOLEAN, adopts \in BOOLEAN, saves \in BOOLEAN :
           StartGmk(b, area[b], readable, adopts, saves)
<1>1. ReadBack(area[b]) = area[b]
  BY ReadBackIsIdentity
<1>2. SyncOnAttach \in BOOLEAN
  BY ClackctlAssumption, Zenon
<1>3. QED
  BY <1>1, <1>2, Zenon DEF AttachGmk

\* It is of the types.
LEMMA StartedIsState ==
  ASSUME BoardTypes, NEW b \in Boards, NEW readable, NEW adopts
  PROVE  File(b, readable) \in StateOf(b) /\ Started(b, readable, adopts) \in StateOf(b)
<1>1. saved[b] \in StateOf(b) /\ area[b] \in KeysOf(b)
  BY DEF BoardTypes, Memory, KeyMemory
<1>2. File(b, readable) \in StateOf(b)
  BY <1>1, BlankIsState DEF File
<1>3. [File(b, readable) EXCEPT !.keys = area[b]] \in StateOf(b)
  BY <1>1, <1>2 DEF StateOf
<1>4. QED
  BY <1>2, <1>3 DEF Started

LEMMA AttachKeepsTypes ==
  ASSUME BoardTypes, NEW b \in Gmk, b \in Boards, AttachGmk(b)
  PROVE  BoardTypes'
<1>1. Memory(live) /\ Memory(saved) /\ KeyMemory(confirmed) /\ area[b] \in KeysOf(b)
  BY DEF BoardTypes, KeyMemory
<1>2. PICK readable, adopts, saves : StartGmk(b, area[b], readable, adopts, saves)
  BY <1>1, AttachStarts, Zenon
<1> DEFINE s == Started(b, readable, adopts)
<1>3. s \in StateOf(b) /\ s.keys \in KeysOf(b)
  BY StartedIsState, StateFields
<1>4. /\ live' = [live EXCEPT ![b] = s] /\ confirmed' = [confirmed EXCEPT ![b] = s.keys]
      /\ saved' = saved \/ saved' = [saved EXCEPT ![b] = s]
      /\ UNCHANGED <<area, dirty, channels>>
  BY <1>2, Zenon DEF StartGmk, Started, File
<1> HIDE DEF s
<1>5. Memory(live') /\ Memory(saved')
  <2>1. Memory([live EXCEPT ![b] = s]) /\ Memory([saved EXCEPT ![b] = s])
    BY <1>1, <1>3, MemoryExcept, Zenon
  <2>2. QED
    BY <1>1, <1>4, <2>1, Zenon
<1>6. KeyMemory(confirmed')
  BY <1>1, <1>3, <1>4, KeyMemoryExcept
<1>7. QED
  BY <1>4, <1>5, <1>6 DEF BoardTypes, KeyMemory, DirtyCells

LEMMA CallingIsOK ==
  ASSUME UserTypes, NEW c \in Clients, proc[c].pc = "calling"
  PROVE  CallOK(Call(c)) /\ proc[c].id \in Ids /\ proc[c].name \in Names
BY WireOK DEF UserTypes, Busy, Call

\* What a write stores is a state, when the driver takes it up.
LEMMA WrittenIsState ==
  ASSUME TypeInv, NEW c \in Clients, NEW b \in Boards, Reaches(c, b)
  PROVE  /\ Call(c).op = "light" /\ LightAccepted(b, Call(c)) =>
              LightWritten(b, Call(c)) \in StateOf(b)
         /\ Call(c).op = "key" /\ KeyAccepted(b, Call(c)) =>
              KeyWritten(b, Call(c)) \in StateOf(b)
         /\ Call(c).op = "macro" /\ MacroAccepted(b, Call(c).offset, Len(Call(c).data)) =>
              MacroWritten(b, Call(c)) \in StateOf(b)
<1>1. CallOK(Call(c)) /\ live[b] \in StateOf(b)
  BY CallingIsOK DEF TypeInv, BoardTypes, Memory, Reaches
<1>2. QED
  BY <1>1, LightWrittenIsState, KeyWrittenIsState, MacroWrittenIsState

LEMMA CallKeepsBoardTypes ==
  ASSUME TypeInv, NEW c \in Clients, NEW b \in Boards, CallStep(c, b)
  PROVE  BoardTypes'
<1>1. Reaches(c, b) /\ BoardTypes
  BY DEF CallStep, SetLighting, SetKeycode, SetMacro, Commit, GetLighting, GetKeycode, GetMacro,
         TypeInv
<1>2. CallOK(Call(c))
  BY <1>1, CallingIsOK DEF TypeInv, Reaches
<1>3. CASE SetLighting(c, b)
  BY <1>1, <1>2, <1>3, WrittenIsState, WriteKeepsTypes DEF SetLighting
<1>4. CASE SetKeycode(c, b)
  BY <1>1, <1>2, <1>4, WrittenIsState, WriteKeepsTypes DEF SetKeycode
<1>5. CASE SetMacro(c, b)
  BY <1>1, <1>2, <1>5, WrittenIsState, WriteKeepsTypes DEF SetMacro
<1>6. CASE Commit(c, b)
  <2>1. \E ok \in BOOLEAN : (b \in Gmk /\ CommitGmk(b, ok)) \/ (b \notin Gmk /\ CommitVia(b, ok))
    BY <1>6, Zenon DEF Commit
  <2>2. QED
    BY <1>1, <2>1, CommitKeepsTypes
<1>7. CASE GetLighting(c, b) \/ GetKeycode(c, b) \/ GetMacro(c, b)
  <2>1. UNCHANGED boardVars
    BY <1>7 DEF GetLighting, GetKeycode, GetMacro, Read
  <2>2. QED
    BY <1>1, <2>1 DEF BoardTypes, boardVars, Memory, KeyMemory, DirtyCells
<1>8. QED
  BY <1>3, <1>4, <1>5, <1>6, <1>7 DEF CallStep

\* The steps there are, by who takes them.
LEMMA Steps ==
  ASSUME Next
  PROVE  \/ \E i \in Ids, b \in Boards : Attach(i, b)
         \/ \E i \in Ids : Detach(i)
         \/ \E c \in Clients : List(c)
         \/ \E c \in Clients : Resolve(c)
         \/ \E c \in Clients : DeviceNotFound(c)
         \/ \E c \in Clients, cmd \in Commands, name \in Names : Run(c, cmd, name)
         \/ \E c \in Clients, b \in Boards : CallStep(c, b)
         \/ \E b \in Boards : AutoCommit(b)
BY Zenon DEF Next, CallStep

\* Every step keeps the boards' types.
LEMMA BoardTypesKept ==
  ASSUME TypeInv, Next
  PROVE  BoardTypes'
<1>1. /\ Memory(live) /\ Memory(saved) /\ KeyMemory(area) /\ KeyMemory(confirmed) /\ BoardTypes
      /\ channels \in [Boards -> SUBSET Byte] /\ DirtyCells(dirty)
  BY DEF TypeInv, BoardTypes
<1>2. ASSUME UNCHANGED <<live, saved, area, confirmed, dirty, channels>>
      PROVE  BoardTypes'
  BY <1>1, <1>2 DEF BoardTypes, Memory, KeyMemory, DirtyCells
<1>3. ASSUME NEW i \in Ids, NEW b \in Boards, Attach(i, b)
      PROVE  BoardTypes'
  BY <1>1, <1>2, <1>3, AttachKeepsTypes DEF Attach, AttachVia, boardVars
<1>4. ASSUME NEW i \in Ids, Detach(i)
      PROVE  BoardTypes'
  <2> DEFINE b == at[i]
  <2>1. b \in Boards
    BY <1>4 DEF TypeInv, UserTypes, Registry, Detach
  <2>2. saved[b] \in StateOf(b) /\ saved[b].keys \in KeysOf(b)
    BY <1>1, <2>1, StateFields DEF Memory
  <2>3. /\ live' = [live EXCEPT ![b] = saved[b]] /\ confirmed' = [confirmed EXCEPT ![b] = saved[b].keys]
        /\ channels' = [channels EXCEPT ![b] = {}] /\ dirty' = [dirty EXCEPT ![b] = {}]
        /\ UNCHANGED <<saved, area>>
    BY <1>4 DEF Detach
  <2> HIDE DEF b
  <2>4. Memory(live') /\ KeyMemory(confirmed') /\ DirtyCells(dirty')
    BY <1>1, <2>1, <2>2, <2>3, MemoryExcept, KeyMemoryExcept, DirtyExcept
  <2>5. channels' \in [Boards -> SUBSET Byte]
    BY <1>1, <2>1, <2>3
  <2>6. QED
    BY <1>1, <2>3, <2>4, <2>5 DEF BoardTypes
<1>5. ASSUME NEW b \in Boards, AutoCommit(b)
      PROVE  BoardTypes'
  <2>1. b \in Gmk /\ \E ok \in BOOLEAN : CommitGmk(b, ok)
    BY <1>1, <1>5 DEF AutoCommit, DirtyCells, Cellular
  <2>2. QED
    BY <1>1, <2>1, CommitKeepsTypes
<1>6. ASSUME NEW c \in Clients, List(c) \/ Resolve(c) \/ DeviceNotFound(c)
      PROVE  BoardTypes'
  BY <1>2, <1>6 DEF List, Resolve, DeviceNotFound, Declined, boardVars
<1>7. ASSUME NEW c \in Clients, NEW cmd \in Commands, NEW name \in Names, Run(c, cmd, name)
      PROVE  BoardTypes'
  BY <1>2, <1>7 DEF Run, boardVars
<1>8. QED
  BY <1>3, <1>4, <1>5, <1>6, <1>7, Steps, CallKeepsBoardTypes, Zenon

\* Every step keeps the types of the user's side.
LEMMA UserTypesKept ==
  ASSUME TypeInv, Next
  PROVE  UserTypes'
<1>1. UserTypes
  BY DEF TypeInv
<1>2. ASSUME NEW i \in Ids, NEW b \in Boards \cup {None}, Move(i, b),
             UNCHANGED <<proc, commands, seen>>, faults' \in 0 .. MaxFaults
      PROVE  UserTypes'
  BY <1>1, <1>2, ClackctlAssumption DEF UserTypes, Move, Registry
<1>3. ASSUME NEW i \in Ids, NEW b \in Boards, Attach(i, b)
      PROVE  UserTypes'
  <2>1. faults' \in 0 .. MaxFaults
    <3>1. UNCHANGED faults \/ Fault
      BY <1>3, Zenon DEF Attach, AttachGmk, AttachVia
    <3>2. QED
      BY <1>1, <3>1, ClackctlAssumption DEF UserTypes, Fault
  <2>2. QED
    BY <1>2, <1>3, <2>1 DEF Attach
<1>4. ASSUME NEW i \in Ids, Detach(i)
      PROVE  UserTypes'
  BY <1>1, <1>2, <1>4 DEF Detach, UserTypes
<1>5. ASSUME NEW c \in Clients, List(c)
      PROVE  UserTypes'
  BY <1>1, <1>5 DEF UserTypes, List
<1>6. ASSUME NEW c \in Clients, NEW cmd \in Commands, NEW name \in Names, Run(c, cmd, name)
      PROVE  UserTypes'
  <2> DEFINE next == [Idle EXCEPT !.pc = "resolving", !.call = Wire(cmd), !.name = name,
                                  !.left = Calls(cmd)]
  <2>1. Wire(cmd) \in Wires /\ Calls(cmd) \in Nat
    BY CallsIsNat DEF Wires
  <2>2. next \in Proc /\ Busy(next)
    BY <2>1 DEF Idle, Proc, Busy
  <2>3. proc' = [proc EXCEPT ![c] = next] /\ commands < MaxCommands /\ commands' = commands + 1
    BY <1>6 DEF Run
  <2> HIDE DEF next
  <2>4. QED
    BY <1>1, <1>6, <2>2, <2>3, ClackctlAssumption DEF UserTypes, Run, userVars
<1>7. ASSUME NEW c \in Clients, Resolve(c)
      PROVE  UserTypes'
  <2>1. ASSUME NEW j \in Resolved(at, proc[c].name),
               proc' = [proc EXCEPT ![c].pc = "calling", ![c].id = j]
        PROVE  proc' \in [Clients -> Proc] /\ Busy(proc'[c])
    <3>1. j \in Ids
      BY ResolvedIsAnId
    <3>2. proc[c] \in Proc /\ Busy(proc[c]) /\ proc[c].pc = "resolving"
      BY <1>1, <1>7 DEF UserTypes, Resolve
    <3> DEFINE next == [proc[c] EXCEPT !.pc = "calling", !.id = j]
    <3>3. next \in Proc /\ Busy(next)
      BY <3>1, <3>2 DEF Proc, Busy
    <3>4. proc' = [proc EXCEPT ![c] = next]
      BY <1>1, <2>1 DEF UserTypes
    <3> HIDE DEF next
    <3>5. QED
      BY <1>1, <3>3, <3>4 DEF UserTypes
  <2>2. ASSUME proc' = [proc EXCEPT ![c] = Idle]
        PROVE  proc' \in [Clients -> Proc] /\ Busy(proc'[c])
    BY <1>1, <2>2 DEF UserTypes, Idle, Proc, Busy
  <2>3. \A d \in Clients \ {c} : proc'[d] = proc[d]
    BY <1>1, <1>7 DEF Resolve, UserTypes
  <2>4. QED
    BY <1>1, <1>7, <2>1, <2>2, <2>3 DEF UserTypes, Resolve, userVars
<1>8. ASSUME NEW c \in Clients, NEW ok, Answered(c, ok), proc[c].pc = "calling",
             UNCHANGED <<at, commands, moves, userVars>>, UNCHANGED faults \/ Fault
      PROVE  UserTypes'
  <2>1. proc \in [Clients -> Proc] /\ \A d \in Clients : Busy(proc[d])
    BY <1>1 DEF UserTypes
  <2>2. proc' \in [Clients -> Proc] /\ \A d \in Clients : Busy(proc'[d])
    BY <1>8, <2>1, AnswerIs DEF Busy, Idle
  <2>3. faults' \in 0 .. MaxFaults
    BY <1>1, <1>8, ClackctlAssumption DEF UserTypes, Fault
  <2>4. QED
    BY <1>1, <1>8, <2>2, <2>3 DEF UserTypes, userVars
<1>9. ASSUME NEW c \in Clients, NEW b \in Boards, CallStep(c, b)
      PROVE  UserTypes'
  BY <1>8, <1>9, CallIsAnswered
<1>10. ASSUME NEW c \in Clients, DeviceNotFound(c)
       PROVE  UserTypes'
  BY <1>8, <1>10 DEF DeviceNotFound, Declined
<1>11. ASSUME NEW b \in Boards, AutoCommit(b)
       PROVE  UserTypes'
  <2>1. UNCHANGED faults \/ Fault
    BY <1>11, CommitFaults DEF AutoCommit
  <2>2. faults' \in 0 .. MaxFaults
    BY <1>1, <2>1, ClackctlAssumption DEF UserTypes, Fault
  <2>3. QED
    BY <1>1, <1>11, <2>2 DEF UserTypes, AutoCommit, userVars
<1>12. QED
  BY <1>3, <1>4, <1>5, <1>6, <1>7, <1>9, <1>10, <1>11, Steps, Zenon

LEMMA TypeInvNext ==
  ASSUME TypeInv, [Next]_vars
  PROVE  TypeInv'
<1>1. CASE Next
  BY <1>1, BoardTypesKept, UserTypesKept DEF TypeInv
<1>2. CASE UNCHANGED vars
  BY <1>2 DEF TypeInv, BoardTypes, UserTypes, Memory, KeyMemory, DirtyCells, vars, boardVars,
         userVars
<1>3. QED
  BY <1>1, <1>2

LEMMA TypeInvHolds == Spec => []TypeInv
BY TypeInvInit, TypeInvNext, PTL DEF Spec

\* Everything keeps its type, whatever is typed, refused, lost or unplugged: a keymap of
\* the GMK67 driver never holds a key its areas have no entry for (set_keycode's checks),
\* so a commit drops none.
THEOREM TypeCorrect == Spec => []TypeOK
BY TypeInvHolds, TypeInvIsTypeOK, PTL

-----------------------------------------------------------------------------
(* Names: what their users mean is what they reach. *)

\* What the registry and the names hold: an id whose keyboard did not come or go since the
\* user read the list has the board it had, and a name that still means what it meant is
\* resolved to what it means.
NamesInv ==
  \A c \in Clients :
    /\ \A i \in Ids \ moved[c] : at[i] = seen[c][i]
    /\ proc[c].pc = "calling" /\ Meant(c).mind \cap moved[c] = {} =>
         proc[c].id = Meant(c).id /\ proc[c].id \in Meant(c).mind

LEMMA NamesInvIsNamedIsReached ==
  ASSUME TypeInv, NamesInv
  PROVE  NamedIsReached
<1>1. ASSUME NEW c \in Clients, proc[c].pc = "calling", Meant(c).mind \cap moved[c] = {}
      PROVE  Meant(c).id # None /\ at[proc[c].id] = seen[c][Meant(c).id]
  <2>1. proc[c].id = Meant(c).id /\ proc[c].id \notin moved[c]
    BY <1>1 DEF NamesInv
  <2>2. proc[c].id \in Ids
    BY <1>1, CallingIsOK DEF TypeInv
  <2>3. at[proc[c].id] = seen[c][proc[c].id]
    BY <2>1, <2>2 DEF NamesInv
  <2>4. QED
    BY <2>1, <2>2, <2>3, ClackctlAssumption DEF Ids
<1>2. QED
  BY <1>1 DEF NamedIsReached

LEMMA NamesInvInit ==
  ASSUME Init
  PROVE  NamesInv
BY DEF Init, NamesInv, Idle

\* A step after which the names still in use mean what they meant.
LEMMA MeaningKept ==
  ASSUME NEW c \in Clients, proc'[c].name = proc[c].name, seen'[c] = seen[c]
  PROVE  Meant(c)' = Meant(c)
BY DEF Meant

LEMMA NamesInvNext ==
  ASSUME TypeInv, NamesInv, [Next]_vars
  PROVE  NamesInv'
<1> SUFFICES ASSUME NEW c \in Clients
             PROVE  /\ \A i \in Ids \ moved'[c] : at'[i] = seen'[c][i]
                    /\ proc'[c].pc = "calling" /\ Meant(c)'.mind \cap moved'[c] = {} =>
                         proc'[c].id = Meant(c)'.id /\ proc'[c].id \in Meant(c)'.mind
  BY DEF NamesInv
<1>1. /\ \A i \in Ids \ moved[c] : at[i] = seen[c][i]
      /\ proc[c].pc = "calling" /\ Meant(c).mind \cap moved[c] = {} =>
           proc[c].id = Meant(c).id /\ proc[c].id \in Meant(c).mind
  BY DEF NamesInv
<1>2. UserTypes
  BY DEF TypeInv
<1> DEFINE Kept == /\ \A i \in Ids \ moved'[c] : at'[i] = seen'[c][i]
                   /\ proc'[c].pc = "calling" /\ Meant(c)'.mind \cap moved'[c] = {} =>
                        proc'[c].id = Meant(c)'.id /\ proc'[c].id \in Meant(c)'.mind
\* Boards come and go: the ids they do it at are noted.
<1>3. ASSUME NEW i \in Ids, NEW b, Move(i, b), UNCHANGED <<proc, seen>>
      PROVE  Kept
  <2>1. Meant(c)' = Meant(c)
    BY <1>3, MeaningKept
  <2>2. moved'[c] = moved[c] \cup {i} /\ \A j \in Ids \ {i} : at'[j] = at[j]
    BY <1>2, <1>3 DEF Move, UserTypes, Registry
  <2>3. QED
    BY <1>1, <1>3, <2>1, <2>2
\* The registry, the list and what moved stay; the command goes on, or it ends.
<1>4. ASSUME UNCHANGED <<at, seen, moved>>,
             \/ proc'[c].pc # "calling"
             \/ /\ proc[c].pc = "calling"
                /\ proc'[c].id = proc[c].id /\ proc'[c].name = proc[c].name
      PROVE  Kept
  BY <1>1, <1>4, MeaningKept
<1>5. ASSUME NEW d \in Clients, List(d)
      PROVE  Kept
  <2>1. CASE c = d
    <3>1. seen'[c] = at /\ moved'[c] = {} /\ at' = at /\ proc'[c].pc # "calling"
      BY <1>2, <1>5, <2>1 DEF List, UserTypes
    <3>2. QED
      BY <3>1
  <2>2. CASE c # d
    <3>1. /\ seen'[c] = seen[c] /\ moved'[c] = moved[c] /\ at' = at /\ proc'[c] = proc[c]
      BY <1>2, <1>5, <2>2 DEF List, UserTypes
    <3>2. Meant(c)' = Meant(c)
      BY <3>1, MeaningKept
    <3>3. QED
      BY <1>1, <3>1, <3>2
  <2>3. QED
    BY <2>1, <2>2
<1>6. ASSUME NEW d \in Clients, NEW cmd, NEW name, Run(d, cmd, name)
      PROVE  Kept
  <2>1. CASE c = d
    <3>1. proc'[c].pc = "resolving"
      BY <1>2, <1>6, <2>1 DEF Run, UserTypes, Idle
    <3>2. QED
      BY <1>4, <1>6, <3>1 DEF Run, userVars
  <2>2. CASE c # d
    <3>1. proc'[c] = proc[c]
      BY <1>2, <1>6, <2>2 DEF Run, UserTypes
    <3>2. QED
      BY <1>4, <1>6, <3>1 DEF Run, userVars
  <2>3. QED
    BY <2>1, <2>2
\* The name is resolved against the registry of this moment.
<1>7. ASSUME NEW d \in Clients, Resolve(d)
      PROVE  Kept
  <2>1. UNCHANGED <<at, seen, moved>>
    BY <1>7 DEF Resolve, userVars
  <2>2. CASE c # d
    <3>1. proc'[c] = proc[c]
      BY <1>2, <1>7, <2>2 DEF Resolve, UserTypes
    <3>2. QED
      BY <1>4, <2>1, <3>1
  <2>3. CASE c = d /\ proc' = [proc EXCEPT ![d] = Idle]
    <3>1. proc'[c].pc = "idle"
      BY <1>2, <2>3 DEF UserTypes, Idle
    <3>2. QED
      BY <1>4, <2>1, <3>1
  <2>4. ASSUME c = d, NEW j \in Resolved(at, proc[d].name),
               proc' = [proc EXCEPT ![d].pc = "calling", ![d].id = j]
        PROVE  Kept
    <3>1. proc[c] \in Proc /\ Busy(proc[c]) /\ proc[c].pc = "resolving"
      BY <1>2, <1>7, <2>4 DEF UserTypes, Resolve
    <3>2. proc'[c].id = j /\ proc'[c].name = proc[c].name
      BY <1>2, <2>4, <3>1 DEF UserTypes, Proc
    <3>3. Meant(c)' = Meant(c)
      BY <2>1, <3>2, MeaningKept
    <3>4. ASSUME Meant(c).mind \cap moved[c] = {}
          PROVE  j = Meant(c).id /\ j \in Meant(c).mind
      <4>1. /\ proc[c].name \in Names /\ at \in Registry
            /\ seen[c] \in Registry /\ moved[c] \in SUBSET Ids
        BY <1>2, <3>1 DEF UserTypes, Busy
      <4>2. QED
        BY <1>1, <2>4, <3>4, <4>1, NameKept
    <3>5. QED
      BY <1>1, <2>1, <3>2, <3>3, <3>4
  <2>5. QED
    BY <1>7, <2>2, <2>3, <2>4, Zenon DEF Resolve
<1>8. ASSUME NEW d \in Clients, NEW ok, Answered(d, ok), proc[d].pc = "calling",
             UNCHANGED <<at, seen, moved>>
      PROVE  Kept
  <2>1. proc \in [Clients -> Proc]
    BY <1>2 DEF UserTypes
  <2>2. Idle.pc # "calling"
    BY DEF Idle
  <2>3. QED
    BY <1>4, <1>8, <2>1, <2>2, AnswerIs
<1>9. CASE Next
  <2>1. CASE \E i \in Ids, b \in Boards : Attach(i, b)
    BY <1>3, <2>1 DEF Attach
  <2>2. CASE \E i \in Ids : Detach(i)
    BY <1>3, <2>2 DEF Detach
  <2>3. CASE \E d \in Clients : DeviceNotFound(d)
    BY <1>8, <2>3 DEF DeviceNotFound, Declined, userVars
  <2>4. CASE \E d \in Clients, b \in Boards : CallStep(d, b)
    <3>1. PICK d \in Clients, b \in Boards : CallStep(d, b)
      BY <2>4
    <3>2. /\ proc[d].pc = "calling" /\ \E ok \in BOOLEAN : Answered(d, ok)
          /\ UNCHANGED <<at, seen, moved>>
      BY <3>1, CallIsAnswered DEF userVars
    <3>3. QED
      BY <1>8, <3>2
  <2>5. CASE \E b \in Boards : AutoCommit(b)
    BY <1>1, <2>5, <1>4 DEF AutoCommit, userVars
  <2>6. QED
    BY <1>5, <1>6, <1>7, <1>9, <2>1, <2>2, <2>3, <2>4, <2>5, Steps, Zenon
<1>10. CASE UNCHANGED vars
  <2>1. Meant(c)' = Meant(c)
    BY <1>10, MeaningKept DEF vars, userVars
  <2>2. QED
    BY <1>1, <1>10, <2>1 DEF vars, userVars
<1>11. QED
  BY <1>9, <1>10

\* A command reaches the keyboard its user saw under that name, unless a keyboard that
\* matters to the name came or went since (resolve_device, the order of ListDevices).
THEOREM NamedIsReachedHolds == Spec => []NamedIsReached
<1>1. Init => NamesInv
  BY NamesInvInit
<1>2. TypeInv /\ NamesInv /\ [Next]_vars => NamesInv'
  BY NamesInvNext
<1>3. TypeInv /\ NamesInv => NamedIsReached
  BY NamesInvIsNamedIsReached
<1>4. QED
  BY <1>1, <1>2, <1>3, TypeInvHolds, PTL DEF Spec

-----------------------------------------------------------------------------
(* Writes stay in their field. *)

\* A lighting call changes its field only, packed payload or not.
LEMMA LightSameElsewhere ==
  ASSUME NEW b \in Boards, live[b] \in StateOf(b), NEW call, CallOK(call), call.op = "light",
         LightAccepted(b, call)
  PROVE  SameElsewhere(b, Fields(b, call), live[b], LightWritten(b, call))
<1> DEFINE old == live[b]
           new == LightWritten(b, call)
           fields == Fields(b, call)
<1>1. /\ new \in StateOf(b) /\ new.keys = old.keys /\ new.eeprom = old.eeprom
      /\ call.channel \in Byte /\ call.value \in Byte /\ call.data \in Seq(Byte)
  BY LightWrittenIsState DEF CallOK
<1>2. ASSUME NEW v \in ViaValues, <<"light", v>> \notin fields
      PROVE  Shown(b, old.light, v) = Shown(b, new.light, v)
  <2>1. call.channel = RGB => fields = {<<"light", call.value>>}
    BY DEF Fields, RGB, VIA_CHANNEL_RGB_MATRIX, VIA_CHANNEL_PACKED
  <2>2. call.channel = RGB => v # call.value
    BY <1>2, <2>1
  <2>3. CASE b \in Gmk
    <3>1. call.channel # VIA_CHANNEL_PACKED
      <4>1. ASSUME call.channel = VIA_CHANNEL_PACKED
            PROVE  fields = {<<"light", w>> : w \in ViaValues}
        BY <2>3, <4>1 DEF Fields, RGB, VIA_CHANNEL_RGB_MATRIX, VIA_CHANNEL_PACKED
      <4>2. QED
        BY <1>2, <4>1
    <3>2. Refused(old.light, call.channel, call.value, call.data) = "ok"
      BY <2>3 DEF LightAccepted
    <3>3. call.channel = RGB /\ call.value \in ViaValues
      BY <3>1, <3>2 DEF Refused, RGB
    <3>4. old.light \in Lightings
      BY <2>3, StateFields DEF LightOf
    <3>5. new.light = lighting_with_via_value(old.light, call.value, call.data)
      <4>1. new = [old EXCEPT !.light = lighting_with_via_value(old.light, call.value, call.data)]
        BY <2>3, <3>1 DEF LightWritten, Proposed
      <4>2. new = [light |-> lighting_with_via_value(old.light, call.value, call.data),
                   keys |-> old.keys, eeprom |-> old.eeprom]
        BY <4>1, StateExcept, Zenon
      <4>3. QED
        BY <4>2
    <3>6. get_lighting(new.light, RGB, v) = get_lighting(old.light, RGB, v)
      BY <2>2, <3>3, <3>4, <3>5, OtherValuesKept DEF RGB
    <3>7. QED
      BY <2>3, <3>6 DEF Shown
  <2>4. CASE b \notin Gmk /\ call.channel = RGB /\ call.value \in ViaValues
    <3>1. new = [old EXCEPT !.light[call.value] = Padded(call.value, call.data)]
      BY <2>4 DEF LightWritten
    <3>2. old.light \in ViaLight
      BY <2>4, StateFields DEF LightOf
    <3> DEFINE light == [old.light EXCEPT ![call.value] = Padded(call.value, call.data)]
    <3>3. new = [light |-> light, keys |-> old.keys, eeprom |-> old.eeprom]
      <4>1. new = [old EXCEPT !.light = light]
        BY <3>1
      <4> HIDE DEF light, new, old
      <4>2. QED
        BY <4>1, StateExcept DEF old
    <3>4. light[v] = old.light[v]
      BY <2>2, <2>4, <3>2 DEF ViaLight
    <3> HIDE DEF light
    <3>5. QED
      BY <2>4, <3>3, <3>4 DEF Shown
  <2>5. CASE b \notin Gmk /\ ~(call.channel = RGB /\ call.value \in ViaValues)
    BY <2>5 DEF LightWritten
  <2>6. QED
    BY <2>3, <2>4, <2>5
<1>3. \A l \in Layers : DOMAIN new.keys[l] = DOMAIN old.keys[l] /\ new.keys[l] = old.keys[l]
  BY <1>1
<1> HIDE DEF old, new, fields
<1>4. SameElsewhere(b, fields, old, new)
  BY <1>1, <1>2, <1>3 DEF SameElsewhere
<1>5. QED
  BY <1>4 DEF old, new, fields

\* A key call changes its cell only.
LEMMA KeySameElsewhere ==
  ASSUME NEW b \in Boards, live[b] \in StateOf(b), NEW call, CallOK(call), call.op = "key",
         KeyAccepted(b, call)
  PROVE  SameElsewhere(b, Fields(b, call), live[b], KeyWritten(b, call))
<1> DEFINE old == live[b]
           new == KeyWritten(b, call)
<1>1. /\ call.layer \in Layers /\ new.light = old.light /\ new.eeprom = old.eeprom
      /\ new.keys \in {old.keys, [old.keys EXCEPT ![call.layer] = With(@, call.cell, call.code)]}
  BY KeyWrittenIsState
<1>2. old.keys \in [Layers -> KeymapsOf(b)]
  BY StateFields
<1>3. Fields(b, call) = {<<"key", call.layer, call.cell>>}
  BY DEF Fields
<1> HIDE DEF old, new
<1>4. ASSUME NEW l \in Layers, NEW k \in DOMAIN old.keys[l] \cup DOMAIN new.keys[l],
             <<"key", l, k>> # <<"key", call.layer, call.cell>>
      PROVE  /\ k \in DOMAIN old.keys[l] \cap DOMAIN new.keys[l]
             /\ old.keys[l][k] = new.keys[l][k]
  <2>1. CASE new.keys[l] = old.keys[l]
    BY <2>1
  <2>2. CASE l = call.layer /\ new.keys[l] = With(old.keys[l], call.cell, call.code)
    <3>1. k # call.cell
      BY <1>4, <2>2
    <3>2. QED
      BY <2>2, <3>1 DEF With
  <2>3. QED
    BY <1>1, <1>2, <2>1, <2>2
<1>5. SameElsewhere(b, Fields(b, call), old, new)
  BY <1>1, <1>3, <1>4 DEF SameElsewhere
<1>6. QED
  BY <1>5 DEF old, new

\* A macro call changes its bytes only.
LEMMA MacroSameElsewhere ==
  ASSUME NEW b \in Boards, live[b] \in StateOf(b), NEW call, CallOK(call), call.op = "macro",
         MacroAccepted(b, call.offset, Len(call.data))
  PROVE  SameElsewhere(b, Fields(b, call), live[b], MacroWritten(b, call))
<1> DEFINE old == live[b]
           new == MacroWritten(b, call)
<1>1. /\ new.light = old.light /\ new.keys = old.keys
      /\ \A o \in 0 .. EepromSize - 1 :
           new.eeprom[o] = IF o - call.offset \in 0 .. Len(call.data) - 1
                           THEN call.data[o - call.offset + 1] ELSE old.eeprom[o]
      /\ call.offset + Len(call.data) <= MacroSize
      /\ call.offset \in Nat /\ Len(call.data) \in Nat
  BY MacroWrittenIsState DEF CallOK
<1>2. DOMAIN old.eeprom = 0 .. EepromSize - 1
  BY StateFields
<1>3. Fields(b, call) = {<<"byte", call.offset + i - 1>> : i \in 1 .. Len(call.data)}
  BY DEF Fields
<1> HIDE DEF old, new
<1>4. ASSUME NEW o \in 0 .. EepromSize - 1, <<"byte", o>> \notin Fields(b, call) \/ o >= MacroSize
      PROVE  old.eeprom[o] = new.eeprom[o]
  <2>1. ASSUME o - call.offset \in 0 .. Len(call.data) - 1
        PROVE  FALSE
    <3>1. ~(o >= MacroSize)
      <4>1. MacroSize \in Nat /\ o \in Int
        BY ClackctlAssumption
      <4>2. o < call.offset + Len(call.data)
        BY <1>1, <2>1, <4>1
      <4>3. QED
        BY <1>1, <4>1, <4>2
    <3>2. o - call.offset + 1 \in 1 .. Len(call.data)
      BY <1>1, <2>1
    <3>3. call.offset + (o - call.offset + 1) - 1 = o
      BY <1>1
    <3>4. <<"byte", o>> \in Fields(b, call)
      BY <1>3, <3>2, <3>3
    <3>5. QED
      BY <1>4, <3>1, <3>4
  <2>2. QED
    BY <1>1, <2>1
<1>5. SameElsewhere(b, Fields(b, call), old, new)
  BY <1>1, <1>2, <1>4 DEF SameElsewhere
<1>6. QED
  BY <1>5 DEF old, new

\* A write leaves every other board alone, and this one as it was or as written.
LEMMA WriteStays ==
  ASSUME BoardTypes, NEW c \in Clients, NEW b \in Boards, Reaches(c, b),
         NEW accepted, NEW new, Write(c, b, accepted, new), proc'[c] # proc[c],
         accepted => SameElsewhere(b, Fields(b, Call(c)), live[b], new),
         NEW d \in Boards
  PROVE  \/ live'[d] = live[d]
         \/ d = b /\ SameElsewhere(d, Fields(d, Call(c)), live[d], live'[d])
<1>1. live' = live \/ (accepted /\ live' = [live EXCEPT ![b] = new])
  BY Zenon DEF Write, Declined, WriteFails, StoreVia, StoreGmk, boardVars
<1>2. DOMAIN live = Boards
  BY DEF BoardTypes, Memory
<1>3. QED
  BY <1>1, <1>2

\* While a board stays, only a call to it changes what it holds, in the field the call
\* names and inside the macro buffer; a commit can only take back edits that were never
\* committed (set_lighting, set_keycode, validate_macro_range, commit_to_nvram).
THEOREM WritesStayInTheirFieldHolds == Spec => WritesStayInTheirField
<1> DEFINE Stays(b) ==
             \/ live'[b] \in {live[b], [live[b] EXCEPT !.keys = confirmed[b]]}
             \/ \E c \in Clients :
                  /\ Reaches(c, b) /\ proc'[c] # proc[c]
                  /\ SameElsewhere(b, Fields(b, Call(c)), live[b], live'[b])
           Stay == \A i \in Ids : LET b == at[i] IN (b # None /\ at' = at) => Stays(b)
<1>1. ASSUME TypeInv, Next
      PROVE  Stay
  <2> SUFFICES ASSUME NEW i \in Ids, at[i] # None, at' = at
               PROVE  Stays(at[i])
    OBVIOUS
  <2> DEFINE d == at[i]
  <2>1. BoardTypes /\ UserTypes /\ at \in Registry /\ d \in Boards /\ DOMAIN live = Boards
    <3>1. BoardTypes /\ UserTypes /\ at \in Registry
      BY <1>1 DEF TypeInv, UserTypes
    <3>2. d \in Boards
      BY <3>1 DEF Registry
    <3>3. DOMAIN live = Boards
      BY <3>1 DEF BoardTypes, Memory
    <3>4. QED
      BY <3>1, <3>2, <3>3
  <2>2. ASSUME live' = live
        PROVE  Stays(d)
    BY <2>2
  <2>3. ASSUME NEW j \in Ids, NEW b \in Boards, Attach(j, b)
        PROVE  Stays(d)
    <3>1. at[j] = None /\ at'[j] = b /\ d # b
      BY <2>1, <2>3 DEF Attach, Move, Registry
    <3>2. live'[d] = live[d]
      <4>1. live' = live \/ \E s : live' = [live EXCEPT ![b] = s]
        BY <2>3, Zenon DEF Attach, AttachGmk, StartGmk, AttachVia, boardVars
      <4>2. QED
        BY <2>1, <3>1, <4>1
    <3>3. QED
      BY <3>2
  <2>4. ASSUME NEW j \in Ids, Detach(j)
        PROVE  FALSE
    BY <2>1, <2>4 DEF Detach, Move, Registry
  <2>5. ASSUME NEW b \in Boards, NEW ok, CommitGmk(b, ok)
        PROVE  Stays(d)
    <3>1. live' = live \/ live' = [live EXCEPT ![b].keys = confirmed[b]]
      BY <2>5, Zenon DEF CommitGmk, ConfirmCommit, Rollback, boardVars
    <3>2. live'[d] = live[d] \/ (d = b /\ live'[d] = [live[d] EXCEPT !.keys = confirmed[d]])
      BY <2>1, <3>1
    <3>3. QED
      BY <3>2
  <2>6. ASSUME NEW c \in Clients, NEW b \in Boards, CallStep(c, b)
        PROVE  Stays(d)
    <3>1. /\ Reaches(c, b) /\ CallOK(Call(c)) /\ live[b] \in StateOf(b)
      BY <2>1, <2>6, CallIsAnswered, CallingIsOK DEF Reaches, BoardTypes, Memory
    <3>2. proc'[c] # proc[c]
      BY <2>1, <2>6, CallIsAnswered, AnswerIs DEF UserTypes
    <3>3. ASSUME NEW accepted, NEW new, Write(c, b, accepted, new),
                 accepted => SameElsewhere(b, Fields(b, Call(c)), live[b], new)
          PROVE  Stays(d)
      <4>1. \/ live'[d] = live[d]
            \/ d = b /\ SameElsewhere(d, Fields(d, Call(c)), live[d], live'[d])
        BY <2>1, <3>1, <3>2, <3>3, WriteStays
      <4>2. QED
        BY <3>1, <3>2, <4>1
    <3> HIDE DEF Stays
    <3>4. CASE SetLighting(c, b)
      BY <3>1, <3>3, <3>4, LightSameElsewhere DEF SetLighting
    <3>5. CASE SetKeycode(c, b)
      BY <3>1, <3>3, <3>5, KeySameElsewhere DEF SetKeycode
    <3>6. CASE SetMacro(c, b)
      BY <3>1, <3>3, <3>6, MacroSameElsewhere DEF SetMacro
    <3>7. CASE Commit(c, b)
      <4>1. live' = live \/ \E ok \in BOOLEAN : CommitGmk(b, ok)
        BY <3>7, Zenon DEF Commit, CommitVia
      <4>2. QED
        BY <2>2, <2>5, <4>1
    <3>8. CASE GetLighting(c, b) \/ GetKeycode(c, b) \/ GetMacro(c, b)
      BY <2>2, <3>8 DEF GetLighting, GetKeycode, GetMacro, Read, boardVars
    <3>9. QED
      BY <2>6, <3>4, <3>5, <3>6, <3>7, <3>8 DEF CallStep
  <2>7. ASSUME NEW b \in Boards, AutoCommit(b)
        PROVE  Stays(d)
    BY <2>5, <2>7 DEF AutoCommit
  <2>8. ASSUME NEW c \in Clients, List(c) \/ Resolve(c) \/ DeviceNotFound(c)
        PROVE  Stays(d)
    BY <2>2, <2>8 DEF List, Resolve, DeviceNotFound, Declined, boardVars
  <2>9. ASSUME NEW c, NEW cmd, NEW name, Run(c, cmd, name)
        PROVE  Stays(d)
    BY <2>2, <2>9 DEF Run, boardVars
  <2> HIDE DEF Stays
  <2>10. QED
    BY <1>1, <2>3, <2>4, <2>6, <2>7, <2>8, <2>9, Steps, Zenon
<1>2. TypeInv /\ [Next]_vars => [Stay]_vars
  BY <1>1
<1> HIDE DEF Stay
<1>3. Spec => [][Stay]_vars
  BY <1>2, TypeInvHolds, PTL DEF Spec
<1>4. QED
  BY <1>3 DEF WritesStayInTheirField, Stay

-----------------------------------------------------------------------------
(***************************************************************************)
(* Last writes.  A board's notes, last and kept, hold of its two copies,   *)
(* live and saved.  Of a VIA board these differ in the lighting only.  Of  *)
(* the GMK67 board, a replug may take the keys from the file or from its   *)
(* areas, and a failed commit takes them from the last confirmed ones: the *)
(* notes hold of all of them, but for cells edited since.                  *)
(***************************************************************************)

LightHolds(b, notes, light) ==
  \A v \in ViaValues :
    notes[v] # None => IF b \in Gmk THEN Rendered(v, notes[v], Shown(b, light, v))
                       ELSE Shown(b, light, v) = notes[v]
LayerHolds(b, notes, keymap) ==
  \A k \in DOMAIN notes :
    (notes[k] # None /\ (b \in Gmk \/ OnFirmware(k))) =>
      k \in DOMAIN keymap /\ keymap[k] = notes[k]
KeysHold(b, notes, keys) == \A l \in Layers : LayerHolds(b, notes[l], keys[l])
BytesHold(notes, eeprom) == \A o \in DOMAIN notes : notes[o] # None => eeprom[o] = notes[o]

Holds(b, notes, s) ==
  /\ LightHolds(b, notes.light, s.light)
  /\ KeysHold(b, notes.keys, s.keys)
  /\ BytesHold(notes.eeprom, s.eeprom)

NoteShape(n) ==
  /\ n = [light |-> n.light, keys |-> n.keys, eeprom |-> n.eeprom]
  /\ n.keys = [l \in Layers |-> n.keys[l]]
  /\ DOMAIN n.eeprom \subseteq 0 .. EepromSize - 1

ViaInv(b) ==
  /\ saved[b].keys = live[b].keys /\ kept[b].keys = last[b].keys
  /\ saved[b].eeprom = live[b].eeprom /\ kept[b].eeprom = last[b].eeprom
Unedited(b) == Forgetting(kept[b].keys, dirty[b])
GmkInv(b) ==
  /\ committed[b] = [l \in Layers |-> committed[b][l]]
  /\ KeysHold(b, committed[b], confirmed[b])
  /\ KeysHold(b, kept[b].keys, area[b])
  /\ KeysHold(b, Unedited(b), live[b].keys)
  /\ KeysHold(b, Unedited(b), confirmed[b])
BoardInv(b) ==
  /\ NoteShape(last[b]) /\ NoteShape(kept[b])
  /\ Holds(b, last[b], live[b]) /\ Holds(b, kept[b], saved[b])
  /\ IF b \in Gmk THEN GmkInv(b) ELSE ViaInv(b)

PerBoard(f) == f = [b \in Boards |-> f[b]]
LastInv ==
  /\ PerBoard(last) /\ PerBoard(kept) /\ PerBoard(committed)
  /\ \A b \in Boards : BoardInv(b)

\* A value a GMK67 driver takes up reads as it was sent, within the board's steps.
LEMMA WrittenIsRendered ==
  ASSUME NEW l \in Lightings, NEW v \in ViaValues,
         NEW data \in Seq(Byte), Len(data) >= Needed(v)
  PROVE  Rendered(v, Padded(v, data),
                  get_lighting(lighting_with_via_value(l, v, data), RGB, v))
<1> DEFINE sent == Padded(v, data)
           level == scale_255_to_15(data[1])
           mode == IF data[1] = 0 THEN MODE_LIGHTS_OFF ELSE data[1]
           got == get_lighting(lighting_with_via_value(l, v, data), RGB, v)
<1>1. Needed(v) \in {1, 2} /\ (v = VIA_VALUE_COLOR => Needed(v) = 2)
  BY DEF Needed
<1>2. data[1] \in Byte /\ sent[1] = data[1]
  BY <1>1 DEF Padded
<1>3. v = VIA_VALUE_COLOR => data[2] \in Byte /\ sent[2] = data[2]
  BY <1>1 DEF Padded
<1>4. v \in {VIA_VALUE_BRIGHTNESS, VIA_VALUE_EFFECT, VIA_VALUE_SPEED, VIA_VALUE_COLOR}
  BY DEF ViaValues, VIA_VALUE_BRIGHTNESS, VIA_VALUE_EFFECT, VIA_VALUE_SPEED, VIA_VALUE_COLOR
<1>5. CASE v \in {VIA_VALUE_BRIGHTNESS, VIA_VALUE_SPEED}
  <2>1. got = <<scale_15_to_255(level)>>
    <3>1. /\ [l EXCEPT !.brightness = level].brightness = level
          /\ [l EXCEPT !.speed = level].speed = level
      BY DEF Lightings
    <3>2. v = VIA_VALUE_BRIGHTNESS =>
            lighting_with_via_value(l, v, data) = [l EXCEPT !.brightness = level]
      BY Patched
    <3>3. v = VIA_VALUE_SPEED =>
            lighting_with_via_value(l, v, data) = [l EXCEPT !.speed = level]
      BY Patched
    <3>4. (lighting_with_via_value(l, v, data).brightness = level /\ v = VIA_VALUE_BRIGHTNESS)
          \/ (lighting_with_via_value(l, v, data).speed = level /\ v = VIA_VALUE_SPEED)
      BY <1>5, <3>1, <3>2, <3>3
    <3> HIDE DEF level
    <3>5. QED
      BY <3>4 DEF get_lighting, RGB, VIA_CHANNEL_RGB_MATRIX, VIA_CHANNEL_PACKED,
             VIA_VALUE_BRIGHTNESS, VIA_VALUE_EFFECT, VIA_VALUE_SPEED, VIA_VALUE_COLOR
  <2>2. Diff(scale_15_to_255(level), data[1]) <= 8
    BY <1>2, LevelWithinHalfAStep
  <2>3. scale_15_to_255(level) \in Byte
    <3>1. level \in 0 .. LEVEL_MAX
      BY <1>2, ScalesInRange
    <3>2. 0 .. LEVEL_MAX \subseteq Byte
      BY DEF LEVEL_MAX, Byte
    <3>3. QED
      BY <3>1, <3>2, ScalesInRange
  <2> HIDE DEF level, got, sent
  <2>4. \A x, y \in Byte : Diff(x, y) = Diff(y, x)
    BY DEF Diff, Greater, Lesser, Byte
  <2>5. Diff(sent[1], got[1]) <= 8
    BY <1>2, <2>1, <2>2, <2>3, <2>4
  <2>6. Rendered(v, sent, got)
    <3>1. CASE v = VIA_VALUE_BRIGHTNESS
      BY <2>5, <3>1 DEF Rendered, VIA_VALUE_BRIGHTNESS, VIA_VALUE_EFFECT, VIA_VALUE_SPEED,
             VIA_VALUE_COLOR
    <3>2. CASE v = VIA_VALUE_SPEED
      BY <2>5, <3>2 DEF Rendered, VIA_VALUE_BRIGHTNESS, VIA_VALUE_EFFECT, VIA_VALUE_SPEED,
             VIA_VALUE_COLOR
    <3>3. QED
      BY <1>5, <3>1, <3>2
  <2>7. QED
    BY <2>6 DEF got, sent
<1>6. CASE v = VIA_VALUE_EFFECT
  <2>1. lighting_with_via_value(l, v, data).mode = mode
    <3>1. lighting_with_via_value(l, v, data) = [l EXCEPT !.mode = mode]
      BY <1>6, Patched
    <3> HIDE DEF mode
    <3>2. QED
      BY <3>1 DEF Lightings
  <2>2. got = <<IF mode = MODE_LIGHTS_OFF THEN 0 ELSE mode>>
    BY <1>6, <2>1 DEF get_lighting, RGB, VIA_CHANNEL_RGB_MATRIX, VIA_CHANNEL_PACKED,
           VIA_VALUE_BRIGHTNESS, VIA_VALUE_EFFECT, VIA_VALUE_SPEED, VIA_VALUE_COLOR
  <2>3. (IF mode = MODE_LIGHTS_OFF THEN 0 ELSE mode)
          = IF data[1] = MODE_LIGHTS_OFF THEN 0 ELSE data[1]
    BY <1>2 DEF MODE_LIGHTS_OFF
  <2> HIDE DEF got, sent, mode
  <2>4. got[1] = IF sent[1] = MODE_LIGHTS_OFF THEN 0 ELSE sent[1]
    BY <1>2, <2>2, <2>3
  <2>5. Rendered(v, sent, got)
    BY <1>6, <2>4 DEF Rendered, VIA_VALUE_BRIGHTNESS, VIA_VALUE_EFFECT, VIA_VALUE_SPEED,
           VIA_VALUE_COLOR
  <2>6. QED
    BY <2>5 DEF got, sent
<1>7. CASE v = VIA_VALUE_COLOR
  <2> DEFINE rgb == hs_to_rgb(data[1], data[2])
             new == lighting_with_via_value(l, v, data)
  <2>1. new = [l EXCEPT !.r = rgb[1], !.g = rgb[2], !.b = rgb[3], !.random = FALSE]
    BY <1>7 DEF lighting_with_via_value, VIA_VALUE_BRIGHTNESS, VIA_VALUE_EFFECT,
           VIA_VALUE_SPEED, VIA_VALUE_COLOR
  <2>2. new.r = rgb[1] /\ new.g = rgb[2] /\ new.b = rgb[3]
    <3> HIDE DEF rgb, new
    <3>1. QED
      BY <2>1 DEF Lightings
  <2>3. got = rgb_to_hs(rgb[1], rgb[2], rgb[3])
    <3>1. got = rgb_to_hs(new.r, new.g, new.b)
      BY <1>7 DEF get_lighting, RGB, VIA_CHANNEL_RGB_MATRIX, VIA_CHANNEL_PACKED,
             VIA_VALUE_BRIGHTNESS, VIA_VALUE_EFFECT, VIA_VALUE_SPEED, VIA_VALUE_COLOR
    <3>2. QED
      BY <2>2, <3>1, Zenon
  <2>4. got[2] = data[2]
    BY <1>2, <1>3, <1>7, <2>3, SaturationRoundTrip
  <2>5. \A i \in 1 .. 3 : Diff(hs_to_rgb(data[1], data[2])[i], hs_to_rgb(got[1], got[2])[i]) <= 12
    BY <1>2, <1>3, <1>7, <2>3, ColourComesBackClose DEF Near
  <2> HIDE DEF got, sent, rgb, new
  <2>6. Rendered(v, sent, got)
    BY <1>2, <1>3, <1>7, <2>4, <2>5 DEF Rendered, VIA_VALUE_BRIGHTNESS, VIA_VALUE_EFFECT,
           VIA_VALUE_SPEED, VIA_VALUE_COLOR
  <2>7. QED
    BY <2>6 DEF got, sent
<1>8. QED
  BY <1>4, <1>5, <1>6, <1>7

Note(known, v) == IF known THEN v ELSE None
NotedLight(b, call, known, light) ==
  [v \in ViaValues |-> IF <<"light", v>> \in Fields(b, call)
                       THEN Note(known, Sent(call, v)) ELSE light[v]]
Written(call) == call.offset .. call.offset + Len(call.data) - 1
NotedBytes(call, known, eeprom) ==
  [o \in Written(call) \cup DOMAIN eeprom |->
     IF o \in Written(call) THEN Note(known, call.data[o - call.offset + 1]) ELSE eeprom[o]]
NotedKeys(call, known, keys) ==
  [keys EXCEPT ![call.layer] = With(@, call.cell, Note(known, call.code))]

\* A note of a write changes the field of the note the write is to.
LEMMA NotedIs ==
  ASSUME NEW n, NoteShape(n), NEW b, NEW call, NEW known
  PROVE  /\ call.op = "light" => Noted(n, b, call, known)
              = [light |-> NotedLight(b, call, known, n.light), keys |-> n.keys, eeprom |-> n.eeprom]
         /\ call.op = "key" => Noted(n, b, call, known)
              = [light |-> n.light, keys |-> NotedKeys(call, known, n.keys), eeprom |-> n.eeprom]
         /\ call.op = "macro" => Noted(n, b, call, known)
              = [light |-> n.light, keys |-> n.keys, eeprom |-> NotedBytes(call, known, n.eeprom)]
<1>1. n = [light |-> n.light, keys |-> n.keys, eeprom |-> n.eeprom]
  BY Zenon DEF NoteShape
<1>2. \A x : /\ [n EXCEPT !.light = x] = [light |-> x, keys |-> n.keys, eeprom |-> n.eeprom]
             /\ [n EXCEPT !.keys = x] = [light |-> n.light, keys |-> x, eeprom |-> n.eeprom]
             /\ [n EXCEPT !.eeprom = x] = [light |-> n.light, keys |-> n.keys, eeprom |-> x]
  <2> DEFINE light == n.light
             keys == n.keys
             eeprom == n.eeprom
  <2>1. n = [light |-> light, keys |-> keys, eeprom |-> eeprom]
    BY <1>1, Zenon
  <2> HIDE DEF light, keys, eeprom
  <2>2. \A x : /\ [n EXCEPT !.light = x] = [light |-> x, keys |-> keys, eeprom |-> eeprom]
               /\ [n EXCEPT !.keys = x] = [light |-> light, keys |-> x, eeprom |-> eeprom]
               /\ [n EXCEPT !.eeprom = x] = [light |-> light, keys |-> keys, eeprom |-> x]
    BY <2>1
  <2>3. QED
    BY <2>2 DEF light, keys, eeprom
<1>3. ASSUME call.op = "light"
      PROVE  Noted(n, b, call, known) = [n EXCEPT !.light = NotedLight(b, call, known, n.light)]
  BY <1>3 DEF Noted, NotedLight, Note
<1>4. ASSUME call.op = "key"
      PROVE  Noted(n, b, call, known) = [n EXCEPT !.keys = NotedKeys(call, known, n.keys)]
  BY <1>4 DEF Noted, NotedKeys, Note
<1>5. ASSUME call.op = "macro"
      PROVE  Noted(n, b, call, known) = [n EXCEPT !.eeprom = NotedBytes(call, known, n.eeprom)]
  BY <1>5 DEF Noted, NotedBytes, Written, Note
<1>6. QED
  BY <1>2, <1>3, <1>4, <1>5, Zenon

\* And keeps the shape of notes.
LEMMA NotedShape ==
  ASSUME NEW n, NoteShape(n), NEW b \in Boards, NEW call, CallOK(call), NEW known,
         call.op \in {"light", "key", "macro"}, call.op = "key" => call.layer \in Layers,
         call.op = "macro" => call.offset + Len(call.data) <= MacroSize
  PROVE  NoteShape(Noted(n, b, call, known))
<1>1. n.keys = [l \in Layers |-> n.keys[l]] /\ DOMAIN n.eeprom \subseteq 0 .. EepromSize - 1
  BY DEF NoteShape
<1>2. CASE call.op = "light"
  <2> HIDE DEF NoteShape
  <2>1. Noted(n, b, call, known)
          = [light |-> NotedLight(b, call, known, n.light), keys |-> n.keys, eeprom |-> n.eeprom]
    BY <1>2, NotedIs
  <2>2. QED
    BY <1>1, <2>1 DEF NoteShape
<1>3. CASE call.op = "key"
  <2>1. Noted(n, b, call, known)
          = [light |-> n.light, keys |-> NotedKeys(call, known, n.keys), eeprom |-> n.eeprom]
    BY <1>3, NotedIs
  <2>2. NotedKeys(call, known, n.keys) = [l \in Layers |-> NotedKeys(call, known, n.keys)[l]]
    BY <1>1 DEF NotedKeys
  <2>3. QED
    BY <1>1, <2>1, <2>2 DEF NoteShape
<1>4. CASE call.op = "macro"
  <2>1. Noted(n, b, call, known)
          = [light |-> n.light, keys |-> n.keys, eeprom |-> NotedBytes(call, known, n.eeprom)]
    BY <1>4, NotedIs
  <2>2. Written(call) \subseteq 0 .. EepromSize - 1
    <3>1. /\ call.offset \in Nat /\ Len(call.data) \in Nat
          /\ MacroSize \in Nat /\ EepromSize \in Nat /\ MacroSize <= EepromSize
      BY <1>4, ClackctlAssumption DEF CallOK
    <3>2. QED
      BY <1>4, <3>1 DEF Written
  <2>3. DOMAIN NotedBytes(call, known, n.eeprom) \subseteq 0 .. EepromSize - 1
    BY <1>1, <2>2 DEF NotedBytes
  <2>4. QED
    BY <1>1, <2>1, <2>3 DEF NoteShape
<1>5. QED
  BY <1>2, <1>3, <1>4

\* A write done holds of the notes that are made of it.
LEMMA LightKept ==
  ASSUME NEW b \in Boards, live[b] \in StateOf(b), NEW call, CallOK(call),
         call.op = "light", LightAccepted(b, call), NEW known,
         NEW notes, LightHolds(b, notes, live[b].light)
  PROVE  LightHolds(b, NotedLight(b, call, known, notes), LightWritten(b, call).light)
<1> DEFINE old == live[b]
           new == LightWritten(b, call)
           noted == NotedLight(b, call, known, notes)
<1>1. SameElsewhere(b, Fields(b, call), old, new)
  BY LightSameElsewhere
<1>2. \A v \in ViaValues : noted[v] = IF <<"light", v>> \in Fields(b, call)
                                      THEN Note(known, Sent(call, v)) ELSE notes[v]
  BY DEF NotedLight
<1>3. call.channel \in Byte /\ call.value \in Byte /\ call.data \in Seq(Byte)
  BY DEF CallOK
<1> SUFFICES ASSUME NEW v \in ViaValues, noted[v] # None
             PROVE  IF b \in Gmk THEN Rendered(v, noted[v], Shown(b, new.light, v))
                    ELSE Shown(b, new.light, v) = noted[v]
  BY DEF LightHolds
<1>4. CASE <<"light", v>> \notin Fields(b, call)
  <2>1. noted[v] = notes[v] /\ Shown(b, new.light, v) = Shown(b, old.light, v)
    BY <1>1, <1>2, <1>4 DEF SameElsewhere
  <2> HIDE DEF noted, new, old
  <2>2. QED
    BY <2>1 DEF LightHolds, old
<1>5. CASE <<"light", v>> \in Fields(b, call)
  <2>1. noted[v] = Sent(call, v) /\ call.channel = RGB /\ noted[v] = Padded(v, call.data)
    BY <1>2, <1>5 DEF Note, Sent
  <2>2. v = call.value
    <3>1. Fields(b, call) = {<<"light", call.value>>}
      BY <2>1 DEF Fields, RGB, VIA_CHANNEL_RGB_MATRIX, VIA_CHANNEL_PACKED
    <3>2. QED
      BY <1>5, <3>1
  <2>3. CASE b \in Gmk
    <3>1. Refused(old.light, RGB, v, call.data) = "ok" /\ old.light \in Lightings
      BY <2>1, <2>2, <2>3, StateFields DEF LightAccepted, LightOf
    <3>2. Len(call.data) >= Needed(v)
      <4>1. Len(call.data) \in Nat /\ Needed(v) \in Nat
        BY <1>3 DEF Needed
      <4>2. ~(Len(call.data) < Needed(v))
        BY <3>1 DEF Refused, RGB, VIA_CHANNEL_RGB_MATRIX, VIA_CHANNEL_PACKED
      <4>3. QED
        BY <4>1, <4>2
    <3>3. new.light = lighting_with_via_value(old.light, v, call.data)
      <4> DEFINE light == lighting_with_via_value(old.light, v, call.data)
      <4>1. new = [old EXCEPT !.light = light]
        BY <2>1, <2>2, <2>3 DEF LightWritten, Proposed, RGB, VIA_CHANNEL_RGB_MATRIX,
               VIA_CHANNEL_PACKED
      <4> HIDE DEF light, new, old
      <4>2. new = [light |-> light, keys |-> old.keys, eeprom |-> old.eeprom]
        BY <4>1, StateExcept DEF old
      <4>3. QED
        BY <4>2 DEF light
    <3>4. Rendered(v, Padded(v, call.data), get_lighting(new.light, RGB, v))
      <4> HIDE DEF new, old
      <4>1. QED
        BY <1>3, <3>1, <3>2, <3>3, WrittenIsRendered
    <3>5. QED
      BY <2>1, <2>3, <3>4 DEF Shown
  <2>4. CASE b \notin Gmk
    <3>1. new = [old EXCEPT !.light[v] = Padded(v, call.data)]
      BY <2>1, <2>2, <2>4 DEF LightWritten
    <3>2. old.light \in ViaLight
      BY <2>4, StateFields DEF LightOf
    <3> DEFINE light == [old.light EXCEPT ![v] = Padded(v, call.data)]
    <3>3. new = [light |-> light, keys |-> old.keys, eeprom |-> old.eeprom]
      <4>1. new = [old EXCEPT !.light = light]
        BY <3>1
      <4> HIDE DEF light, new, old
      <4>2. QED
        BY <4>1, StateExcept DEF old
    <3>4. light[v] = Padded(v, call.data)
      BY <3>2 DEF ViaLight
    <3> HIDE DEF light
    <3>5. QED
      BY <2>1, <2>4, <3>3, <3>4 DEF Shown
  <2>5. QED
    BY <2>3, <2>4
<1>6. QED
  BY <1>4, <1>5

\* After a key write, the written cell is as noted and so are the others.
LEMMA KeysKept ==
  ASSUME NEW b \in Boards, live[b] \in StateOf(b), NEW call, CallOK(call), call.op = "key",
         KeyAccepted(b, call), NEW known, NEW notes, notes = [l \in Layers |-> notes[l]],
         KeysHold(b, notes, live[b].keys)
  PROVE  KeysHold(b, NotedKeys(call, known, notes), KeyWritten(b, call).keys)
<1> DEFINE old == live[b].keys
           new == KeyWritten(b, call).keys
           noted == NotedKeys(call, known, notes)
           lands == b \in Gmk \/ OnFirmware(call.cell)
<1>1. /\ call.layer \in Layers
      /\ new = IF lands THEN [old EXCEPT ![call.layer] = With(@, call.cell, call.code)] ELSE old
  BY KeyWrittenIsState
<1>2. old \in [Layers -> KeymapsOf(b)]
  BY StateFields
<1>3. \A l \in Layers : noted[l] = IF l = call.layer
                                  THEN With(notes[l], call.cell, Note(known, call.code))
                                  ELSE notes[l]
  BY <1>1 DEF NotedKeys
<1>4. \A l \in Layers : new[l] = IF lands /\ l = call.layer
                                THEN With(old[l], call.cell, call.code) ELSE old[l]
  BY <1>1, <1>2
<1>5. \A l \in Layers : \A k \in DOMAIN notes[l] :
        (notes[l][k] # None /\ (b \in Gmk \/ OnFirmware(k))) =>
          k \in DOMAIN old[l] /\ old[l][k] = notes[l][k]
  BY DEF KeysHold, LayerHolds
<1> HIDE DEF old, new, noted
<1> SUFFICES ASSUME NEW l \in Layers, NEW k \in DOMAIN noted[l],
                    noted[l][k] # None, b \in Gmk \/ OnFirmware(k)
             PROVE  k \in DOMAIN new[l] /\ new[l][k] = noted[l][k]
  BY DEF KeysHold, LayerHolds, new, noted
<1>6. CASE l # call.layer
  BY <1>3, <1>4, <1>5, <1>6
<1>7. CASE l = call.layer /\ k # call.cell
  <2>1. k \in DOMAIN notes[l] /\ noted[l][k] = notes[l][k]
    <3> DEFINE with == With(notes[l], call.cell, Note(known, call.code))
    <3>1. /\ DOMAIN with = DOMAIN notes[l] \cup {call.cell}
          /\ \A d \in DOMAIN notes[l] \ {call.cell} : with[d] = notes[l][d]
      BY DEF With
    <3>2. noted[l] = with
      BY <1>3, <1>7
    <3> HIDE DEF with
    <3>3. QED
      BY <1>7, <3>1, <3>2
  <2>2. k \in DOMAIN old[l] /\ old[l][k] = noted[l][k]
    BY <1>5, <2>1
  <2>3. CASE lands
    <3> DEFINE with == With(old[l], call.cell, call.code)
    <3>1. /\ DOMAIN with = DOMAIN old[l] \cup {call.cell}
          /\ \A d \in DOMAIN old[l] \ {call.cell} : with[d] = old[l][d]
      BY DEF With
    <3>2. new[l] = with
      BY <1>4, <1>7, <2>3
    <3> HIDE DEF with
    <3>3. QED
      BY <1>7, <2>2, <3>1, <3>2
  <2>4. CASE ~lands
    BY <1>4, <2>2, <2>4
  <2>5. QED
    BY <2>3, <2>4
<1>8. CASE l = call.layer /\ k = call.cell
  <2>1. noted[l][k] = call.code
    BY <1>3, <1>8 DEF With, Note
  <2>2. new[l] = With(old[l], call.cell, call.code)
    BY <1>4, <1>8
  <2>3. QED
    BY <1>8, <2>1, <2>2 DEF With
<1>9. QED
  BY <1>6, <1>7, <1>8

\* After a macro write, the written bytes are as noted and so are the others.
LEMMA BytesKept ==
  ASSUME NEW b \in Boards, live[b] \in StateOf(b), NEW call, CallOK(call), call.op = "macro",
         MacroAccepted(b, call.offset, Len(call.data)), NEW known, NEW notes,
         DOMAIN notes \subseteq 0 .. EepromSize - 1, BytesHold(notes, live[b].eeprom)
  PROVE  BytesHold(NotedBytes(call, known, notes), MacroWritten(b, call).eeprom)
<1> DEFINE old == live[b].eeprom
           new == MacroWritten(b, call).eeprom
           noted == NotedBytes(call, known, notes)
<1>1. /\ \A o \in 0 .. EepromSize - 1 :
           new[o] = IF o - call.offset \in 0 .. Len(call.data) - 1
                    THEN call.data[o - call.offset + 1] ELSE old[o]
      /\ call.offset + Len(call.data) <= MacroSize
      /\ call.offset \in Nat /\ Len(call.data) \in Nat
  BY MacroWrittenIsState DEF CallOK
<1>2. MacroSize \in Nat /\ EepromSize \in Nat /\ MacroSize <= EepromSize
  BY ClackctlAssumption
<1>3. \A o \in DOMAIN noted : /\ o \in Written(call) \cup DOMAIN notes
                              /\ noted[o] = IF o \in Written(call)
                                            THEN Note(known, call.data[o - call.offset + 1])
                                            ELSE notes[o]
  BY DEF NotedBytes
<1>4. \A o \in Int : o \in Written(call) <=> o - call.offset \in 0 .. Len(call.data) - 1
  BY <1>1 DEF Written
<1>5. Written(call) \subseteq 0 .. EepromSize - 1
  BY <1>1, <1>2 DEF Written
<1>6. \A o \in DOMAIN notes : notes[o] # None => old[o] = notes[o]
  BY DEF BytesHold
<1> HIDE DEF old, new, noted
<1>7. ASSUME NEW o \in DOMAIN noted, noted[o] # None
      PROVE  new[o] = noted[o]
  <2>1. o \in 0 .. EepromSize - 1 /\ o \in Int
    BY <1>3, <1>5
  <2>2. CASE o \in Written(call)
    <3>1. new[o] = call.data[o - call.offset + 1]
      BY <1>1, <1>4, <2>1, <2>2
    <3>2. noted[o] = call.data[o - call.offset + 1]
      BY <1>3, <1>7, <2>2 DEF Note
    <3>3. QED
      BY <3>1, <3>2
  <2>3. CASE o \notin Written(call)
    <3>1. new[o] = old[o]
      BY <1>1, <1>4, <2>1, <2>3
    <3>2. o \in DOMAIN notes /\ noted[o] = notes[o]
      BY <1>3, <2>3
    <3>3. QED
      BY <1>6, <1>7, <3>1, <3>2
  <2>4. QED
    BY <2>2, <2>3
<1>8. QED
  BY <1>7 DEF BytesHold, new, noted

\* What a write stores, of the board and of its notes.
Accepted(b, call, new) ==
  \/ call.op = "light" /\ LightAccepted(b, call) /\ new = LightWritten(b, call)
  \/ call.op = "key" /\ KeyAccepted(b, call) /\ new = KeyWritten(b, call)
  \/ call.op = "macro" /\ MacroAccepted(b, call.offset, Len(call.data)) /\ new = MacroWritten(b, call)

\* What an accepted write leaves on the board agrees with the notes of it.
LEMMA WrittenHolds ==
  ASSUME LastInv, BoardTypes, NEW b \in Boards, NEW call, CallOK(call),
         NEW new, Accepted(b, call, new), NEW known
  PROVE  LET n == Noted(last[b], b, call, known)
             k == Noted(kept[b], b, call, known)
             light == call.op = "light"
         IN /\ new \in StateOf(b)
            /\ NoteShape(n) /\ NoteShape(k) /\ Holds(b, n, new)
            /\ light => /\ n.keys = last[b].keys /\ k.keys = kept[b].keys
                        /\ n.eeprom = last[b].eeprom /\ k.eeprom = kept[b].eeprom
                        /\ new.keys = live[b].keys /\ new.eeprom = live[b].eeprom
            /\ ~light => /\ n.light = last[b].light /\ k.light = kept[b].light
                         /\ new.light = live[b].light
                         /\ b \notin Gmk => k.keys = n.keys /\ k.eeprom = n.eeprom
<1> DEFINE n == Noted(last[b], b, call, known)
           k == Noted(kept[b], b, call, known)
<1>1. /\ live[b] \in StateOf(b) /\ NoteShape(last[b]) /\ NoteShape(kept[b])
      /\ Holds(b, last[b], live[b])
      /\ b \notin Gmk => kept[b].keys = last[b].keys /\ kept[b].eeprom = last[b].eeprom
  BY Zenon DEF LastInv, BoardInv, ViaInv, BoardTypes, Memory
<1>2. /\ LightHolds(b, last[b].light, live[b].light)
      /\ KeysHold(b, last[b].keys, live[b].keys)
      /\ BytesHold(last[b].eeprom, live[b].eeprom)
  BY <1>1 DEF Holds
<1>3. CASE call.op = "light"
  <2>1. LightAccepted(b, call) /\ new = LightWritten(b, call)
    BY <1>3 DEF Accepted
  <2>2. new \in StateOf(b) /\ new.keys = live[b].keys /\ new.eeprom = live[b].eeprom
    BY <1>1, <1>3, <2>1, LightWrittenIsState
  <2>3. /\ n = [light |-> NotedLight(b, call, known, last[b].light),
                keys |-> last[b].keys, eeprom |-> last[b].eeprom]
        /\ k = [light |-> NotedLight(b, call, known, kept[b].light),
                keys |-> kept[b].keys, eeprom |-> kept[b].eeprom]
    BY <1>1, <1>3, NotedIs
  <2>4. NoteShape(n) /\ NoteShape(k)
    BY <1>1, <1>3, NotedShape
  <2>5. LightHolds(b, NotedLight(b, call, known, last[b].light), new.light)
    BY <1>1, <1>2, <1>3, <2>1, LightKept
  <2> HIDE DEF n, k
  <2>6. Holds(b, n, new)
    BY <1>2, <2>2, <2>3, <2>5 DEF Holds
  <2>7. QED
    BY <1>1, <1>3, <2>2, <2>3, <2>4, <2>6 DEF n, k
<1>4. CASE call.op = "key"
  <2>1. KeyAccepted(b, call) /\ new = KeyWritten(b, call)
    BY <1>4 DEF Accepted
  <2>2. /\ call.layer \in Layers /\ new \in StateOf(b)
        /\ new.light = live[b].light /\ new.eeprom = live[b].eeprom
    BY <1>1, <1>4, <2>1, KeyWrittenIsState
  <2>3. /\ n = [light |-> last[b].light, keys |-> NotedKeys(call, known, last[b].keys),
                eeprom |-> last[b].eeprom]
        /\ k = [light |-> kept[b].light, keys |-> NotedKeys(call, known, kept[b].keys),
                eeprom |-> kept[b].eeprom]
    BY <1>1, <1>4, NotedIs
  <2>4. NoteShape(n) /\ NoteShape(k)
    BY <1>1, <1>4, <2>2, NotedShape
  <2>5. KeysHold(b, NotedKeys(call, known, last[b].keys), new.keys)
    <3>1. last[b].keys = [l \in Layers |-> last[b].keys[l]]
      BY <1>1 DEF NoteShape
    <3>2. QED
      BY <1>1, <1>2, <1>4, <2>1, <3>1, KeysKept
  <2> HIDE DEF n, k
  <2>6. Holds(b, n, new)
    BY <1>2, <2>2, <2>3, <2>5 DEF Holds
  <2>7. QED
    BY <1>1, <1>4, <2>2, <2>3, <2>4, <2>6 DEF n, k
<1>5. CASE call.op = "macro"
  <2>1. MacroAccepted(b, call.offset, Len(call.data)) /\ new = MacroWritten(b, call)
    BY <1>5 DEF Accepted
  <2>2. /\ new \in StateOf(b) /\ call.offset + Len(call.data) <= MacroSize
        /\ new.light = live[b].light /\ new.keys = live[b].keys
    BY <1>1, <1>5, <2>1, MacroWrittenIsState
  <2>3. /\ n = [light |-> last[b].light, keys |-> last[b].keys,
                eeprom |-> NotedBytes(call, known, last[b].eeprom)]
        /\ k = [light |-> kept[b].light, keys |-> kept[b].keys,
                eeprom |-> NotedBytes(call, known, kept[b].eeprom)]
    BY <1>1, <1>5, NotedIs
  <2>4. NoteShape(n) /\ NoteShape(k)
    BY <1>1, <1>5, <2>2, NotedShape
  <2>5. BytesHold(NotedBytes(call, known, last[b].eeprom), new.eeprom)
    <3>1. DOMAIN last[b].eeprom \subseteq 0 .. EepromSize - 1
      BY <1>1 DEF NoteShape
    <3>2. QED
      BY <1>1, <1>2, <1>5, <2>1, <3>1, BytesKept
  <2> HIDE DEF n, k
  <2>6. Holds(b, n, new)
    BY <1>2, <2>2, <2>3, <2>5 DEF Holds
  <2>7. QED
    BY <1>1, <1>5, <2>2, <2>3, <2>4, <2>6 DEF n, k
<1>6. QED
  BY <1>3, <1>4, <1>5 DEF Accepted

\* Notes that hold of keys still do when some cells of them are forgotten.
LEMMA ForgettingIs ==
  ASSUME NEW keys, NEW cells, NEW l \in Layers
  PROVE  /\ DOMAIN Forgetting(keys, cells)[l] = DOMAIN keys[l]
         /\ \A k \in DOMAIN keys[l] :
              Forgetting(keys, cells)[l][k] = IF <<l, k>> \in cells THEN None ELSE keys[l][k]
BY DEF Forgetting

LEMMA ForgettingHolds ==
  ASSUME NEW b, NEW notes, NEW cells, NEW keys, KeysHold(b, notes, keys)
  PROVE  KeysHold(b, Forgetting(notes, cells), keys)
<1>1. ASSUME NEW l \in Layers
      PROVE  LayerHolds(b, Forgetting(notes, cells)[l], keys[l])
  <2> DEFINE left == Forgetting(notes, cells)[l]
  <2>1. LayerHolds(b, notes[l], keys[l])
    BY DEF KeysHold
  <2>2. /\ DOMAIN left = DOMAIN notes[l]
        /\ \A k \in DOMAIN notes[l] : left[k] = IF <<l, k>> \in cells THEN None ELSE notes[l][k]
    BY ForgettingIs
  <2> HIDE DEF left
  <2>3. \A k \in DOMAIN left : k \in DOMAIN notes[l] /\ (left[k] # None => left[k] = notes[l][k])
    BY <2>2, Zenon
  <2>4. LayerHolds(b, left, keys[l])
    BY <2>1, <2>3 DEF LayerHolds
  <2>5. QED
    BY <2>4 DEF left
<1>2. QED
  BY <1>1 DEF KeysHold

\* After a key write, notes that forget its cell hold as they did.
LEMMA OthersHold ==
  ASSUME NEW b \in Boards, live[b] \in StateOf(b), NEW call, CallOK(call), call.op = "key",
         KeyAccepted(b, call), NEW notes, NEW cells, NEW more,
         more = cells \cup {<<call.layer, call.cell>>}
  PROVE  /\ \A keys : KeysHold(b, Forgetting(notes, cells), keys)
                        => KeysHold(b, Forgetting(notes, more), keys)
         /\ KeysHold(b, Forgetting(notes, cells), live[b].keys)
              => KeysHold(b, Forgetting(notes, more), KeyWritten(b, call).keys)
<1> DEFINE old == live[b].keys
           new == KeyWritten(b, call).keys
           lands == b \in Gmk \/ OnFirmware(call.cell)
<1>1. /\ call.layer \in Layers
      /\ new = IF lands THEN [old EXCEPT ![call.layer] = With(@, call.cell, call.code)] ELSE old
  BY KeyWrittenIsState
<1>2. old \in [Layers -> KeymapsOf(b)]
  BY StateFields
<1>3. \A l \in Layers : new[l] = IF lands /\ l = call.layer
                                THEN With(old[l], call.cell, call.code) ELSE old[l]
  BY <1>1, <1>2
<1> HIDE DEF old, new
<1> DEFINE was(l) == Forgetting(notes, cells)[l]
           is(l) == Forgetting(notes, more)[l]
<1>4. \A l \in Layers :
        /\ DOMAIN was(l) = DOMAIN notes[l] /\ DOMAIN is(l) = DOMAIN notes[l]
        /\ \A k \in DOMAIN notes[l] :
             is(l)[k] # None => /\ was(l)[k] = is(l)[k]
                                /\ l = call.layer => k # call.cell
  <2>1. ASSUME NEW l \in Layers
        PROVE  /\ DOMAIN was(l) = DOMAIN notes[l] /\ DOMAIN is(l) = DOMAIN notes[l]
               /\ \A k \in DOMAIN notes[l] :
                    /\ was(l)[k] = IF <<l, k>> \in cells THEN None ELSE notes[l][k]
                    /\ is(l)[k] = IF <<l, k>> \in more THEN None ELSE notes[l][k]
    BY ForgettingIs
  <2> HIDE DEF was, is
  <2>2. ASSUME NEW l \in Layers, NEW k \in DOMAIN notes[l], is(l)[k] # None
        PROVE  was(l)[k] = is(l)[k] /\ (l = call.layer => k # call.cell)
    <3>1. <<l, k>> \notin more
      BY <2>1, <2>2, Zenon
    <3>2. <<l, k>> \notin cells /\ <<l, k>> # <<call.layer, call.cell>>
      BY <3>1
    <3>3. was(l)[k] = is(l)[k]
      <4>1. was(l)[k] = notes[l][k]
        BY <2>1, <3>2
      <4>2. is(l)[k] = notes[l][k]
        BY <2>1, <3>1
      <4>3. QED
        BY <4>1, <4>2
    <3>4. l = call.layer => k # call.cell
      BY <3>2
    <3>5. QED
      BY <3>3, <3>4, Zenon
  <2>3. QED
    BY <2>1, <2>2, Zenon
<1> HIDE DEF was, is
<1>5. ASSUME NEW keys, NEW l \in Layers, LayerHolds(b, was(l), keys)
      PROVE  LayerHolds(b, is(l), keys)
  BY <1>4, <1>5 DEF LayerHolds
<1>6. ASSUME NEW keys, KeysHold(b, Forgetting(notes, cells), keys)
      PROVE  KeysHold(b, Forgetting(notes, more), keys)
  BY <1>5, <1>6 DEF KeysHold, was, is
<1>7. ASSUME KeysHold(b, Forgetting(notes, cells), old), NEW l \in Layers
      PROVE  LayerHolds(b, is(l), new[l])
  <2>1. LayerHolds(b, is(l), old[l])
    <3>1. LayerHolds(b, was(l), old[l])
      BY <1>7 DEF KeysHold, was
    <3>2. QED
      BY <1>5, <3>1
  <2>2. CASE lands /\ l = call.layer
    <3> DEFINE with == With(old[l], call.cell, call.code)
    <3>1. /\ DOMAIN with = DOMAIN old[l] \cup {call.cell}
          /\ \A d \in DOMAIN old[l] \ {call.cell} : with[d] = old[l][d]
      BY DEF With
    <3>2. new[l] = with
      BY <1>3, <2>2
    <3> HIDE DEF with, lands
    <3>3. QED
      BY <1>4, <2>1, <2>2, <3>1, <3>2 DEF LayerHolds
  <2>3. CASE ~(lands /\ l = call.layer)
    BY <1>3, <2>1, <2>3
  <2>4. QED
    BY <2>2, <2>3
<1>8. KeysHold(b, Forgetting(notes, cells), old) => KeysHold(b, Forgetting(notes, more), new)
  BY <1>7 DEF KeysHold, is
<1>9. QED
  BY <1>6, <1>8 DEF old, new

\* Notes that hold of the areas and of the shadow hold of the areas, wherever a push stops.
LEMMA PushedHolds ==
  ASSUME BoardTypes, NEW b \in Gmk, b \in Boards, NEW stop, NEW pages \in Int, NEW notes,
         KeysHold(b, notes, area[b]), KeysHold(b, notes, live[b].keys)
  PROVE  KeysHold(b, notes, Pushed(b, stop, pages))
<1>1. area[b] \in [Layers -> Keymaps] /\ live[b].keys \in [Layers -> Keymaps]
  BY StateFields DEF BoardTypes, Memory, KeyMemory, KeysOf, KeymapsOf
<1>2. ASSUME NEW l \in Layers
      PROVE  LayerHolds(b, notes[l], Pushed(b, stop, pages)[l])
  <2> DEFINE old == area[b][l]
             new == live[b].keys[l]
  <2>1. LayerHolds(b, notes[l], old) /\ LayerHolds(b, notes[l], new)
    BY DEF KeysHold
  <2>2. old \in Keymaps /\ new \in Keymaps
    BY <1>1
  <2>3. Pushed(b, stop, pages)[l] \in {old, new, Overlaid(old, new, pages)}
    BY Zenon DEF Pushed
  <2> HIDE DEF old, new
  <2>4. LayerHolds(b, notes[l], Overlaid(old, new, pages))
    <3>1. DOMAIN old \subseteq Keyed
      BY <2>2 DEF Keymaps
    <3>2. \A k \in Keyed : Page(k) \in Int
      BY KeyIndexAssumption DEF Keyed, Page, Cells, AREA_ENTRIES, NA
    <3>3. \A k \in DOMAIN old \cap DOMAIN new :
            /\ k \in DOMAIN Overlaid(old, new, pages)
            /\ Overlaid(old, new, pages)[k] \in {old[k], new[k]}
      BY <3>1, <3>2 DEF Overlaid
    <3>4. QED
      BY <2>1, <3>3 DEF LayerHolds
  <2>5. QED
    BY <2>1, <2>3, <2>4
<1>3. QED
  BY <1>2 DEF KeysHold

\* A whole push leaves in the areas the keymaps of the layers with edits.
LEMMA WholePush ==
  ASSUME NEW b, NEW l \in Layers
  PROVE  Pushed(b, 4, 0)[l] = IF l \in dirty_layers(b) THEN live[b].keys[l] ELSE area[b][l]
<1>1. ~(l > 4) /\ l # 4
  BY DEF Layers
<1>2. QED
  BY <1>1 DEF Pushed

\* In the layers without edits nothing is forgotten.
LEMMA UneditedLayer ==
  ASSUME NEW b, NEW l \in Layers, l \notin dirty_layers(b), NEW keymap
  PROVE  LayerHolds(b, Unedited(b)[l], keymap) => LayerHolds(b, kept[b].keys[l], keymap)
<1> DEFINE left == Forgetting(kept[b].keys, dirty[b])[l]
<1>1. ASSUME NEW k
      PROVE  <<l, k>> \notin dirty[b]
  <2>1. <<l, k>>[1] = l
    OBVIOUS
  <2>2. QED
    BY <2>1, Zenon DEF dirty_layers
<1>2. /\ DOMAIN left = DOMAIN kept[b].keys[l]
      /\ \A k \in DOMAIN kept[b].keys[l] : left[k] = kept[b].keys[l][k]
  <2>1. \A k \in DOMAIN kept[b].keys[l] :
          left[k] = IF <<l, k>> \in dirty[b] THEN None ELSE kept[b].keys[l][k]
    BY ForgettingIs
  <2>2. DOMAIN left = DOMAIN kept[b].keys[l]
    BY ForgettingIs
  <2> HIDE DEF left
  <2>3. QED
    BY <1>1, <2>1, <2>2, Zenon
<1>3. Unedited(b)[l] = left
  BY Zenon DEF Unedited
<1> HIDE DEF left
<1>4. QED
  BY <1>2, <1>3 DEF LayerHolds

\* One board's copies and notes change, to what the invariant says of them.
OnlyAt(b, f, g) == PerBoard(g) /\ \A d \in Boards \ {b} : g[d] = f[d]

LEMMA PerBoards ==
  ASSUME LastInv, BoardTypes
  PROVE  /\ PerBoard(live) /\ PerBoard(saved) /\ PerBoard(area) /\ PerBoard(confirmed)
         /\ PerBoard(dirty) /\ PerBoard(last) /\ PerBoard(kept) /\ PerBoard(committed)
BY Zenon DEF LastInv, BoardTypes, Memory, KeyMemory, DirtyCells, PerBoard

LEMMA OneBoardKeepsLast ==
  ASSUME LastInv, NEW b \in Boards, BoardInv(b)',
         OnlyAt(b, live, live'), OnlyAt(b, saved, saved'), OnlyAt(b, area, area'),
         OnlyAt(b, confirmed, confirmed'), OnlyAt(b, dirty, dirty'), OnlyAt(b, last, last'),
         OnlyAt(b, kept, kept'), OnlyAt(b, committed, committed')
  PROVE  LastInv'
<1>1. ASSUME NEW d \in Boards \ {b}
      PROVE  BoardInv(d)'
  <2>1. /\ live'[d] = live[d] /\ saved'[d] = saved[d] /\ area'[d] = area[d]
        /\ confirmed'[d] = confirmed[d] /\ dirty'[d] = dirty[d] /\ last'[d] = last[d]
        /\ kept'[d] = kept[d] /\ committed'[d] = committed[d]
    BY DEF OnlyAt
  <2>2. BoardInv(d)
    BY DEF LastInv
  <2>3. QED
    BY <2>1, <2>2 DEF BoardInv, GmkInv, Unedited, ViaInv
<1>2. PerBoard(last') /\ PerBoard(kept') /\ PerBoard(committed')
  BY DEF OnlyAt
<1>3. \A d \in Boards : BoardInv(d)'
  BY <1>1
<1>4. QED
  BY <1>2, <1>3 DEF LastInv

\* Fields of notes taken from others.
LEMMA NoteExcept ==
  ASSUME NEW n, NoteShape(n), NEW x
  PROVE  /\ [n EXCEPT !.keys = x] = [light |-> n.light, keys |-> x, eeprom |-> n.eeprom]
         /\ [n EXCEPT !.light = x] = [light |-> x, keys |-> n.keys, eeprom |-> n.eeprom]
<1> DEFINE light == n.light
           keys == n.keys
           eeprom == n.eeprom
<1>1. n = [light |-> light, keys |-> keys, eeprom |-> eeprom]
  BY Zenon DEF NoteShape
<1> HIDE DEF light, keys, eeprom
<1>2. /\ [n EXCEPT !.keys = x] = [light |-> light, keys |-> x, eeprom |-> eeprom]
      /\ [n EXCEPT !.light = x] = [light |-> x, keys |-> keys, eeprom |-> eeprom]
  BY <1>1
<1>3. QED
  BY <1>2 DEF light, keys, eeprom

LEMMA FieldsMakeNote ==
  ASSUME NEW n, NEW light, NEW keys, keys = [l \in Layers |-> keys[l]], NEW eeprom,
         DOMAIN eeprom \subseteq 0 .. EepromSize - 1,
         n = [light |-> light, keys |-> keys, eeprom |-> eeprom]
  PROVE  NoteShape(n) /\ n.light = light /\ n.keys = keys /\ n.eeprom = eeprom
BY DEF NoteShape

\* A write a VIA board obeys keeps the invariant, acknowledged or not.
LEMMA StoreViaKeepsLast ==
  ASSUME LastInv, BoardTypes, NEW b \in Boards, b \notin Gmk, NEW call, CallOK(call),
         NEW new, Accepted(b, call, new), NEW ok, StoreVia(b, call, new, ok)
  PROVE  LastInv'
<1> DEFINE n == Noted(last[b], b, call, ok)
           k == Noted(kept[b], b, call, ok)
<1>1. /\ NoteShape(kept[b]) /\ Holds(b, kept[b], saved[b])
      /\ saved[b].keys = live[b].keys /\ kept[b].keys = last[b].keys
      /\ saved[b].eeprom = live[b].eeprom /\ kept[b].eeprom = last[b].eeprom
  BY Zenon DEF LastInv, BoardInv, ViaInv
<1>2. /\ new \in StateOf(b)
      /\ NoteShape(n) /\ NoteShape(k) /\ Holds(b, n, new)
      /\ call.op = "light" => /\ n.keys = last[b].keys /\ n.eeprom = last[b].eeprom
                              /\ new.keys = live[b].keys /\ new.eeprom = live[b].eeprom
      /\ call.op # "light" => /\ k.light = kept[b].light
                              /\ k.keys = n.keys /\ k.eeprom = n.eeprom
  BY WrittenHolds
<1>3. /\ live' = [live EXCEPT ![b] = new] /\ last' = [last EXCEPT ![b] = n]
      /\ UNCHANGED <<area, confirmed, dirty, committed>>
  BY DEF StoreVia
<1> HIDE DEF n, k
<1>4. /\ OnlyAt(b, live, live') /\ OnlyAt(b, last, last') /\ live'[b] = new /\ last'[b] = n
      /\ OnlyAt(b, area, area') /\ OnlyAt(b, confirmed, confirmed')
      /\ OnlyAt(b, dirty, dirty') /\ OnlyAt(b, committed, committed')
  BY <1>3, PerBoards DEF PerBoard, OnlyAt
<1>5. CASE call.op = "light"
  <2>1. saved' = saved /\ kept' = kept
    BY <1>5 DEF StoreVia
  <2>2. OnlyAt(b, saved, saved') /\ OnlyAt(b, kept, kept')
    BY <2>1, PerBoards DEF PerBoard, OnlyAt
  <2>3. ViaInv(b)'
    BY <1>1, <1>2, <1>4, <1>5, <2>1 DEF ViaInv
  <2>4. BoardInv(b)'
    BY <1>1, <1>2, <1>4, <2>1, <2>3 DEF BoardInv
  <2>5. QED
    BY <1>4, <2>2, <2>4, OneBoardKeepsLast
<1>6. CASE call.op # "light"
  <2> DEFINE t == [new EXCEPT !.light = saved[b].light]
  <2>1. saved' = [saved EXCEPT ![b] = t] /\ kept' = [kept EXCEPT ![b] = k]
    BY <1>6 DEF StoreVia, k
  <2>2. t = [light |-> saved[b].light, keys |-> new.keys, eeprom |-> new.eeprom]
    <3> DEFINE light == saved[b].light
    <3>1. new \in StateOf(b)
      BY <1>2
    <3> HIDE DEF light
    <3>2. [new EXCEPT !.light = light]
            = [light |-> light, keys |-> new.keys, eeprom |-> new.eeprom]
      BY <3>1 DEF StateOf
    <3>3. QED
      BY <3>2, Zenon DEF light
  <2> HIDE DEF t
  <2>3. OnlyAt(b, kept, kept') /\ kept'[b] = k
    BY <2>1, PerBoards DEF PerBoard, OnlyAt
  <2>4. OnlyAt(b, saved, saved') /\ saved'[b] = t
    BY <2>1, PerBoards DEF PerBoard, OnlyAt
  <2>5. /\ saved'[b].light = saved[b].light /\ saved'[b].keys = new.keys
        /\ saved'[b].eeprom = new.eeprom
    BY <2>2, <2>4
  <2>6. Holds(b, k, saved'[b])
    BY <1>1, <1>2, <1>6, <2>5 DEF Holds
  <2>7. ViaInv(b)'
    BY <1>2, <1>4, <1>6, <2>3, <2>5 DEF ViaInv
  <2>8. BoardInv(b)'
    BY <1>2, <1>4, <2>3, <2>6, <2>7 DEF BoardInv
  <2>9. QED
    BY <1>4, <2>3, <2>4, <2>8, OneBoardKeepsLast
<1>7. QED
  BY <1>5, <1>6

\* So does one the GMK67 driver takes up, whether its file is written or not.
LEMMA StoreGmkKeepsLast ==
  ASSUME LastInv, BoardTypes, NEW b \in Gmk, b \in Boards, NEW call, CallOK(call),
         NEW new, Accepted(b, call, new), StoreGmk(b, call, new)
  PROVE  LastInv'
<1> DEFINE n == Noted(last[b], b, call, TRUE)
           k == kept[b]
<1>1. /\ NoteShape(k) /\ Holds(b, k, saved[b])
      /\ committed[b] = [l \in Layers |-> committed[b][l]]
      /\ KeysHold(b, committed[b], confirmed[b]) /\ KeysHold(b, k.keys, area[b])
      /\ KeysHold(b, Unedited(b), live[b].keys) /\ KeysHold(b, Unedited(b), confirmed[b])
  BY Zenon DEF LastInv, BoardInv, GmkInv
<1>2. /\ NoteShape(n) /\ Holds(b, n, new)
      /\ call.op = "light" => new.keys = live[b].keys
  <2>1. ASSUME NEW ok
        PROVE  LET noted == Noted(last[b], b, call, ok) IN
               /\ NoteShape(noted) /\ Holds(b, noted, new)
               /\ call.op = "light" => new.keys = live[b].keys
    BY WrittenHolds
  <2>2. QED
    BY <2>1, Zenon
<1>3. /\ live' = [live EXCEPT ![b] = new] /\ last' = [last EXCEPT ![b] = n]
      /\ UNCHANGED <<area, confirmed, committed>>
  BY DEF StoreGmk
<1> HIDE DEF n
<1>4. /\ OnlyAt(b, live, live') /\ OnlyAt(b, last, last') /\ live'[b] = new /\ last'[b] = n
      /\ OnlyAt(b, area, area') /\ OnlyAt(b, confirmed, confirmed')
      /\ OnlyAt(b, committed, committed')
  BY <1>3, PerBoards DEF PerBoard, OnlyAt
<1>5. CASE /\ call.op = "key" /\ UNCHANGED <<saved, kept>>
           /\ dirty' = [dirty EXCEPT ![b] = @ \cup {<<call.layer, call.cell>>}]
  <2> DEFINE more == dirty[b] \cup {<<call.layer, call.cell>>}
  <2>1. dirty' = [dirty EXCEPT ![b] = more]
    BY <1>5
  <2>2. /\ OnlyAt(b, saved, saved') /\ OnlyAt(b, kept, kept') /\ OnlyAt(b, dirty, dirty')
        /\ dirty'[b] = more
    <3> HIDE DEF more
    <3>1. QED
      BY <1>5, <2>1, PerBoards DEF PerBoard, OnlyAt
  <2>3. /\ KeyAccepted(b, call) /\ new = KeyWritten(b, call) /\ live[b] \in StateOf(b)
    BY <1>5 DEF Accepted, BoardTypes, Memory
  <2>4. /\ KeysHold(b, Forgetting(k.keys, more), new.keys)
        /\ KeysHold(b, Forgetting(k.keys, more), confirmed[b])
    BY <1>1, <1>5, <2>3, OthersHold DEF Unedited
  <2>5. GmkInv(b)'
    <3> HIDE DEF more
    <3>1. QED
      BY <1>1, <1>3, <1>4, <1>5, <2>2, <2>4 DEF GmkInv, Unedited
  <2>6. BoardInv(b)'
    BY <1>1, <1>2, <1>4, <1>5, <2>5 DEF BoardInv
  <2>7. QED
    BY <1>4, <2>2, <2>6, OneBoardKeepsLast
<1>6. CASE /\ call.op = "light" /\ saved' = [saved EXCEPT ![b] = new] /\ UNCHANGED dirty
           /\ kept' = [kept EXCEPT ![b] = [n EXCEPT !.keys = Unedited(b)]]
  <2> DEFINE k1 == [n EXCEPT !.keys = Unedited(b)]
  <2>1. k1 = [light |-> n.light, keys |-> Unedited(b), eeprom |-> n.eeprom]
    BY <1>2, NoteExcept
  <2>2. /\ OnlyAt(b, saved, saved') /\ OnlyAt(b, kept, kept') /\ OnlyAt(b, dirty, dirty')
        /\ saved'[b] = new /\ kept'[b] = k1
    <3>1. /\ kept' = [kept EXCEPT ![b] = k1] /\ saved' = [saved EXCEPT ![b] = new]
          /\ dirty' = dirty
      BY <1>6
    <3> HIDE DEF k1
    <3>2. QED
      BY <3>1, PerBoards DEF PerBoard, OnlyAt
  <2> HIDE DEF k1
  <2>3. Unedited(b) = [l \in Layers |-> Unedited(b)[l]]
    BY DEF Unedited, Forgetting
  <2>4. NoteShape(k1) /\ k1.light = n.light /\ k1.keys = Unedited(b) /\ k1.eeprom = n.eeprom
    BY <1>2, <2>1, <2>3, FieldsMakeNote DEF NoteShape
  <2>5. Holds(b, k1, new)
    BY <1>1, <1>2, <1>6, <2>4 DEF Holds
  <2>6. /\ KeysHold(b, Unedited(b), area[b])
        /\ KeysHold(b, Forgetting(Unedited(b), dirty[b]), new.keys)
        /\ KeysHold(b, Forgetting(Unedited(b), dirty[b]), confirmed[b])
    BY <1>1, <1>2, <1>6, ForgettingHolds DEF Unedited
  <2>7. Unedited(b)' = Forgetting(Unedited(b), dirty[b])
    BY <1>6, <2>2, <2>4 DEF Unedited
  <2>8. GmkInv(b)'
    BY <1>1, <1>3, <1>4, <2>2, <2>4, <2>6, <2>7 DEF GmkInv
  <2>9. BoardInv(b)'
    BY <1>2, <1>4, <2>2, <2>4, <2>5, <2>8 DEF BoardInv
  <2>10. QED
    BY <1>4, <2>2, <2>9, OneBoardKeepsLast
<1>7. CASE /\ call.op = "light" /\ UNCHANGED <<saved, dirty>>
           /\ kept' = [kept EXCEPT ![b] = Noted(kept[b], b, call, FALSE)]
  <2> DEFINE k1 == Noted(kept[b], b, call, FALSE)
  <2>1. k1 = [light |-> NotedLight(b, call, FALSE, k.light), keys |-> k.keys, eeprom |-> k.eeprom]
    <3>1. \A known : Noted(k, b, call, known)
                        = [light |-> NotedLight(b, call, known, k.light), keys |-> k.keys,
                           eeprom |-> k.eeprom]
      BY <1>1, <1>7, NotedIs
    <3>2. QED
      BY <3>1, Zenon
  <2>2. /\ OnlyAt(b, saved, saved') /\ OnlyAt(b, kept, kept') /\ OnlyAt(b, dirty, dirty')
        /\ kept'[b] = k1
    <3>1. kept' = [kept EXCEPT ![b] = k1]
      BY <1>7
    <3> HIDE DEF k1
    <3>2. QED
      BY <1>7, <3>1, PerBoards DEF PerBoard, OnlyAt
  <2>3. NoteShape(k1) /\ k1.keys = k.keys /\ k1.eeprom = k.eeprom
    <3>1. \A known : NoteShape(Noted(k, b, call, known))
      BY <1>1, <1>7, NotedShape
    <3>2. NoteShape(k1)
      BY <3>1, Zenon
    <3> HIDE DEF k1
    <3>3. QED
      BY <2>1, <3>2
  <2> HIDE DEF k1
  <2>4. LightHolds(b, k1.light, saved[b].light)
    <3>1. LightHolds(b, k.light, saved[b].light)
      BY <1>1 DEF Holds
    <3>2. k1.light = NotedLight(b, call, FALSE, k.light)
      BY <2>1
    <3>3. \A v \in ViaValues : k1.light[v] # None => k1.light[v] = k.light[v]
      BY <3>2, Zenon DEF NotedLight, Note
    <3>4. QED
      BY <3>1, <3>3 DEF LightHolds
  <2>5. Holds(b, k1, saved[b])
    BY <1>1, <2>3, <2>4 DEF Holds
  <2>6. GmkInv(b)'
    BY <1>1, <1>2, <1>3, <1>4, <1>7, <2>2, <2>3 DEF GmkInv, Unedited
  <2>7. BoardInv(b)'
    BY <1>2, <1>4, <1>7, <2>2, <2>3, <2>5, <2>6 DEF BoardInv
  <2>8. QED
    BY <1>4, <2>2, <2>7, OneBoardKeepsLast
<1>8. QED
  BY <1>5, <1>6, <1>7, Zenon DEF StoreGmk, Save, Unedited, n

\* A commit of the GMK67 driver keeps it, ended or not.
LEMMA ConfirmKeepsLast ==
  ASSUME LastInv, BoardTypes, NEW b \in Gmk, b \in Boards,
         ConfirmCommit(b), dirty' = [dirty EXCEPT ![b] = {}]
  PROVE  LastInv'
<1> DEFINE n == last[b]
           k == kept[b]
           s == live[b]
           whole == Pushed(b, 4, 0)
           merged == [l \in Layers |-> IF l \in dirty_layers(b) THEN n.keys[l] ELSE k.keys[l]]
<1>1. /\ NoteShape(n) /\ NoteShape(k) /\ Holds(b, n, s) /\ Holds(b, k, saved[b])
      /\ KeysHold(b, k.keys, area[b]) /\ KeysHold(b, Unedited(b), s.keys)
  BY Zenon DEF LastInv, BoardInv, GmkInv
<1>2. n.keys = [l \in Layers |-> n.keys[l]] /\ KeysHold(b, n.keys, s.keys)
  BY <1>1 DEF NoteShape, Holds
<1>3. /\ area' = [area EXCEPT ![b] = whole] /\ confirmed' = [confirmed EXCEPT ![b] = s.keys]
      /\ committed' = [committed EXCEPT ![b] = n.keys] /\ live' = live /\ last' = last
  BY DEF ConfirmCommit
<1>4. ASSUME NEW l \in Layers
      PROVE  whole[l] = IF l \in dirty_layers(b) THEN s.keys[l] ELSE area[b][l]
  BY WholePush
<1> HIDE DEF whole, n, k, s
<1>5. /\ OnlyAt(b, area, area') /\ OnlyAt(b, confirmed, confirmed')
      /\ OnlyAt(b, committed, committed') /\ OnlyAt(b, live, live') /\ OnlyAt(b, last, last')
      /\ area'[b] = whole /\ confirmed'[b] = s.keys /\ committed'[b] = n.keys
      /\ live'[b] = s /\ last'[b] = n
  <2>1. OnlyAt(b, live, live') /\ OnlyAt(b, last, last')
    BY <1>3, PerBoards DEF PerBoard, OnlyAt
  <2>2. live'[b] = s /\ last'[b] = n
    BY <1>3 DEF s, n
  <2>3. /\ OnlyAt(b, area, area') /\ OnlyAt(b, confirmed, confirmed')
        /\ OnlyAt(b, committed, committed')
        /\ area'[b] = whole /\ confirmed'[b] = s.keys /\ committed'[b] = n.keys
    <3>1. PerBoard(area) /\ PerBoard(confirmed) /\ PerBoard(committed)
      BY PerBoards
    <3>2. OnlyAt(b, area, area') /\ area'[b] = whole
      BY <1>3, <3>1 DEF PerBoard, OnlyAt
    <3>3. OnlyAt(b, confirmed, confirmed') /\ confirmed'[b] = s.keys
      BY <1>3, <3>1 DEF PerBoard, OnlyAt
    <3>4. OnlyAt(b, committed, committed') /\ committed'[b] = n.keys
      BY <1>3, <3>1 DEF PerBoard, OnlyAt
    <3>5. QED
      BY <3>2, <3>3, <3>4
  <2>4. QED
    BY <2>1, <2>2, <2>3
<1>6. OnlyAt(b, dirty, dirty') /\ dirty'[b] = {}
  BY PerBoards DEF PerBoard, OnlyAt
<1>7. ASSUME NEW notes, KeysHold(b, notes, s.keys), KeysHold(b, notes, whole),
             kept'[b].keys = notes
      PROVE  GmkInv(b)'
  <2>1. KeysHold(b, Unedited(b)', s.keys)
    BY <1>6, <1>7, ForgettingHolds DEF Unedited
  <2>2. QED
    BY <1>2, <1>5, <1>7, <2>1 DEF GmkInv
<1>8. CASE /\ saved' = [saved EXCEPT ![b] = s]
           /\ kept' = [kept EXCEPT ![b] = [n EXCEPT !.keys = merged]]
  <2> DEFINE k1 == [n EXCEPT !.keys = merged]
  <2>1. k1 = [light |-> n.light, keys |-> merged, eeprom |-> n.eeprom]
    BY <1>1, NoteExcept
  <2>2. /\ merged = [l \in Layers |-> merged[l]]
        /\ \A l \in Layers : merged[l] = IF l \in dirty_layers(b) THEN n.keys[l] ELSE k.keys[l]
    OBVIOUS
  <2>3. kept' = [kept EXCEPT ![b] = k1] /\ saved' = [saved EXCEPT ![b] = s]
    BY <1>8
  <2> HIDE DEF k1, merged
  <2>4. OnlyAt(b, saved, saved') /\ OnlyAt(b, kept, kept') /\ saved'[b] = s /\ kept'[b] = k1
    BY <2>3, PerBoards DEF PerBoard, OnlyAt
  <2>5. NoteShape(k1) /\ k1.light = n.light /\ k1.keys = merged /\ k1.eeprom = n.eeprom
    BY <1>1, <2>1, <2>2, FieldsMakeNote DEF NoteShape
  <2>6. ASSUME NEW l \in Layers
        PROVE  LayerHolds(b, merged[l], s.keys[l]) /\ LayerHolds(b, merged[l], whole[l])
    <3>1. CASE l \in dirty_layers(b)
      BY <1>2, <1>4, <2>2, <3>1 DEF KeysHold
    <3>2. CASE l \notin dirty_layers(b)
      <4>1. LayerHolds(b, k.keys[l], s.keys[l])
        BY <1>1, <3>2, UneditedLayer DEF KeysHold, k
      <4>2. LayerHolds(b, k.keys[l], area[b][l])
        BY <1>1 DEF KeysHold
      <4>3. merged[l] = k.keys[l] /\ whole[l] = area[b][l]
        BY <1>4, <2>2, <3>2
      <4>4. QED
        BY <4>1, <4>2, <4>3
    <3>3. QED
      BY <3>1, <3>2
  <2>7. KeysHold(b, merged, s.keys) /\ KeysHold(b, merged, whole)
    BY <2>6 DEF KeysHold
  <2>8. Holds(b, k1, s)
    BY <1>1, <2>5, <2>7 DEF Holds
  <2>9. GmkInv(b)'
    BY <1>7, <2>4, <2>5, <2>7
  <2>10. BoardInv(b)'
    BY <1>1, <1>5, <2>4, <2>5, <2>8, <2>9 DEF BoardInv
  <2>11. QED
    BY <1>5, <1>6, <2>4, <2>10, OneBoardKeepsLast
<1>9. CASE saved' = saved /\ kept' = [kept EXCEPT ![b] = [k EXCEPT !.keys = Unedited(b)]]
  <2> DEFINE k1 == [k EXCEPT !.keys = Unedited(b)]
  <2>1. k1 = [light |-> k.light, keys |-> Unedited(b), eeprom |-> k.eeprom]
    BY <1>1, NoteExcept
  <2>2. Unedited(b) = [l \in Layers |-> Unedited(b)[l]]
    BY DEF Unedited, Forgetting
  <2>3. kept' = [kept EXCEPT ![b] = k1] /\ saved' = saved
    BY <1>9
  <2> HIDE DEF k1
  <2>4. OnlyAt(b, saved, saved') /\ OnlyAt(b, kept, kept') /\ saved'[b] = saved[b] /\ kept'[b] = k1
    BY <2>3, PerBoards DEF PerBoard, OnlyAt
  <2>5. NoteShape(k1) /\ k1.light = k.light /\ k1.keys = Unedited(b) /\ k1.eeprom = k.eeprom
    BY <1>1, <2>1, <2>2, FieldsMakeNote DEF NoteShape
  <2>6. KeysHold(b, Unedited(b), saved[b].keys) /\ KeysHold(b, Unedited(b), area[b])
    BY <1>1, ForgettingHolds DEF Unedited, Holds, k
  <2>7. KeysHold(b, Unedited(b), whole)
    BY <1>1, <1>4, <2>6 DEF KeysHold
  <2>8. Holds(b, k1, saved[b])
    BY <1>1, <2>5, <2>6 DEF Holds
  <2>9. GmkInv(b)'
    BY <1>1, <1>7, <2>4, <2>5, <2>7
  <2>10. BoardInv(b)'
    BY <1>1, <1>5, <2>4, <2>5, <2>8, <2>9 DEF BoardInv
  <2>11. QED
    BY <1>5, <1>6, <2>4, <2>10, OneBoardKeepsLast
<1>10. QED
  BY <1>8, <1>9, Zenon DEF ConfirmCommit, Save, Unedited, n, k, s

LEMMA RollbackKeepsLast ==
  ASSUME LastInv, BoardTypes, NEW b \in Gmk, b \in Boards,
         Rollback(b), dirty' = [dirty EXCEPT ![b] = {}]
  PROVE  LastInv'
<1> DEFINE n == last[b]
           k == kept[b]
           s == live[b]
           f == confirmed[b]
           m == committed[b]
           n1 == [n EXCEPT !.keys = m]
           k1 == [k EXCEPT !.keys = Unedited(b)]
           s1 == [s EXCEPT !.keys = f]
<1>1. /\ NoteShape(n) /\ NoteShape(k) /\ Holds(b, n, s) /\ Holds(b, k, saved[b])
      /\ m = [l \in Layers |-> m[l]] /\ KeysHold(b, m, f) /\ KeysHold(b, k.keys, area[b])
      /\ KeysHold(b, Unedited(b), s.keys) /\ KeysHold(b, Unedited(b), f)
  BY Zenon DEF LastInv, BoardInv, GmkInv
<1>2. s \in StateOf(b)
  BY DEF BoardTypes, Memory
<1>3. PICK stop, pages : /\ area' = [area EXCEPT ![b] = Pushed(b, stop, pages)]
                         /\ pages \in 0 .. KEY_DEF_PAGES
  BY Zenon DEF Rollback
<1> DEFINE pushed == Pushed(b, stop, pages)
<1>4. /\ live' = [live EXCEPT ![b] = s1] /\ last' = [last EXCEPT ![b] = n1]
      /\ kept' = [kept EXCEPT ![b] = k1]
  BY DEF Rollback, Unedited
<1>5. /\ s1 = [light |-> s.light, keys |-> f, eeprom |-> s.eeprom]
      /\ n1 = [light |-> n.light, keys |-> m, eeprom |-> n.eeprom]
      /\ k1 = [light |-> k.light, keys |-> Unedited(b), eeprom |-> k.eeprom]
  <2> HIDE DEF n, k, s, f, m
  <2>1. QED
    BY <1>1, <1>2, StateExcept, NoteExcept
<1>6. KeysHold(b, Unedited(b), pushed)
  <2>1. pages \in Int
    BY <1>3 DEF KEY_DEF_PAGES
  <2>2. KeysHold(b, Unedited(b), area[b])
    BY <1>1, ForgettingHolds DEF Unedited
  <2>3. QED
    BY <1>1, <2>1, <2>2, PushedHolds
<1>7. UNCHANGED <<saved, confirmed, committed>>
  BY DEF Rollback
<1> HIDE DEF n1, k1, s1, pushed
<1>8. /\ OnlyAt(b, live, live') /\ OnlyAt(b, last, last') /\ OnlyAt(b, kept, kept')
      /\ live'[b] = s1 /\ last'[b] = n1 /\ kept'[b] = k1
  BY <1>4, PerBoards DEF PerBoard, OnlyAt
<1>9. OnlyAt(b, area, area') /\ area'[b] = pushed
  <2>1. area' = [area EXCEPT ![b] = pushed]
    BY <1>3, Zenon DEF pushed
  <2>2. QED
    BY <2>1, PerBoards DEF PerBoard, OnlyAt
<1>10. OnlyAt(b, dirty, dirty') /\ dirty'[b] = {}
  BY PerBoards DEF PerBoard, OnlyAt
<1>11. OnlyAt(b, saved, saved') /\ OnlyAt(b, confirmed, confirmed') /\ OnlyAt(b, committed, committed')
  BY <1>7, PerBoards DEF PerBoard, OnlyAt
<1>12. Unedited(b) = [l \in Layers |-> Unedited(b)[l]]
  BY DEF Unedited, Forgetting
<1> HIDE DEF n, k, s, f, m
<1>13. /\ NoteShape(n1) /\ n1.light = n.light /\ n1.keys = m /\ n1.eeprom = n.eeprom
       /\ NoteShape(k1) /\ k1.light = k.light /\ k1.keys = Unedited(b) /\ k1.eeprom = k.eeprom
       /\ s1.light = s.light /\ s1.keys = f /\ s1.eeprom = s.eeprom
  BY <1>1, <1>5, <1>12, FieldsMakeNote DEF NoteShape
<1>14. Holds(b, n1, s1)
  BY <1>1, <1>13 DEF Holds
<1>15. Holds(b, k1, saved[b])
  <2>1. KeysHold(b, Unedited(b), saved[b].keys)
    BY <1>1, ForgettingHolds DEF Holds, Unedited, k
  <2>2. QED
    BY <1>1, <1>13, <2>1 DEF Holds
<1>16. GmkInv(b)'
  <2>1. Unedited(b)' = Forgetting(Unedited(b), dirty'[b])
    BY <1>8, <1>13 DEF Unedited
  <2>2. KeysHold(b, Unedited(b)', f)
    BY <1>1, <2>1, ForgettingHolds
  <2>3. confirmed'[b] = f /\ committed'[b] = m
    BY <1>7 DEF f, m
  <2>4. QED
    BY <1>1, <1>6, <1>8, <1>9, <1>13, <2>2, <2>3 DEF GmkInv
<1>17. BoardInv(b)'
  BY <1>7, <1>8, <1>13, <1>14, <1>15, <1>16 DEF BoardInv
<1>18. QED
  BY <1>8, <1>9, <1>10, <1>11, <1>17, OneBoardKeepsLast

LEMMA CommitGmkKeepsLast ==
  ASSUME LastInv, BoardTypes, NEW b \in Gmk, b \in Boards, NEW ok, CommitGmk(b, ok)
  PROVE  LastInv'
<1>1. CASE UNCHANGED boardVars
  BY <1>1 DEF boardVars, LastInv, PerBoard, BoardInv, GmkInv, Unedited, ViaInv
<1>2. CASE (ConfirmCommit(b) \/ Rollback(b)) /\ dirty' = [dirty EXCEPT ![b] = {}]
  BY <1>2, ConfirmKeepsLast, RollbackKeepsLast
<1>3. QED
  BY <1>1, <1>2 DEF CommitGmk

\* And so does one of a VIA board, which saves the lighting.
LEMMA CommitViaKeepsLast ==
  ASSUME LastInv, BoardTypes, NEW b \in Boards, b \notin Gmk, NEW ok, CommitVia(b, ok)
  PROVE  LastInv'
<1> DEFINE n == last[b]
           k == kept[b]
           s == live[b]
           t == saved[b]
           t1 == [t EXCEPT !.light = s.light]
           k1 == [k EXCEPT !.light = n.light]
<1>1. /\ NoteShape(n) /\ NoteShape(k) /\ Holds(b, n, s) /\ Holds(b, k, t) /\ ViaInv(b)
      /\ t \in StateOf(b)
  BY Zenon DEF LastInv, BoardInv, BoardTypes, Memory
<1>2. UNCHANGED <<live, last, area, confirmed, committed, dirty>>
  BY DEF CommitVia
<1>3. \/ UNCHANGED <<saved, kept>>
      \/ saved' = [saved EXCEPT ![b] = t1] /\ kept' = [kept EXCEPT ![b] = k1]
  BY DEF CommitVia, SavedRGB
<1>4. /\ OnlyAt(b, live, live') /\ OnlyAt(b, last, last') /\ OnlyAt(b, area, area')
      /\ OnlyAt(b, confirmed, confirmed') /\ OnlyAt(b, committed, committed')
      /\ OnlyAt(b, dirty, dirty')
  BY <1>2, PerBoards DEF PerBoard, OnlyAt
<1>5. CASE UNCHANGED <<saved, kept>>
  BY <1>2, <1>5 DEF LastInv, PerBoard, BoardInv, GmkInv, Unedited, ViaInv
<1>6. CASE saved' = [saved EXCEPT ![b] = t1] /\ kept' = [kept EXCEPT ![b] = k1]
  <2>1. /\ t1 = [light |-> s.light, keys |-> t.keys, eeprom |-> t.eeprom]
        /\ k1 = [light |-> n.light, keys |-> k.keys, eeprom |-> k.eeprom]
    <3>1. NoteShape(k) /\ t \in StateOf(b)
      BY <1>1
    <3> HIDE DEF n, k, s, t
    <3>2. t1 = [light |-> s.light, keys |-> t.keys, eeprom |-> t.eeprom]
      BY <3>1 DEF StateOf
    <3>3. k1 = [light |-> n.light, keys |-> k.keys, eeprom |-> k.eeprom]
      BY <3>1, NoteExcept
    <3>4. QED
      BY <3>2, <3>3
  <2> HIDE DEF t1, k1
  <2>2. OnlyAt(b, saved, saved') /\ OnlyAt(b, kept, kept') /\ saved'[b] = t1 /\ kept'[b] = k1
    BY <1>6, PerBoards DEF PerBoard, OnlyAt
  <2>3. /\ NoteShape(k1) /\ k1.light = n.light /\ k1.keys = k.keys /\ k1.eeprom = k.eeprom
        /\ t1.light = s.light /\ t1.keys = t.keys /\ t1.eeprom = t.eeprom
    <3>1. NoteShape(k)
      BY <1>1
    <3> HIDE DEF n, k, s, t
    <3>2. QED
      BY <2>1, <3>1, FieldsMakeNote DEF NoteShape
  <2>4. Holds(b, k1, t1)
    BY <1>1, <2>3 DEF Holds
  <2>5. ViaInv(b)'
    BY <1>1, <1>2, <2>2, <2>3 DEF ViaInv
  <2>6. BoardInv(b)'
    BY <1>1, <1>2, <2>2, <2>3, <2>4, <2>5 DEF BoardInv
  <2>7. QED
    BY <1>4, <2>2, <2>6, OneBoardKeepsLast
<1>7. QED
  BY <1>3, <1>5, <1>6

\* So every call keeps it.
LEMMA CallKeepsLast ==
  ASSUME TypeInv, LastInv, NEW c \in Clients, NEW b \in Boards, CallStep(c, b)
  PROVE  LastInv'
<1>1. Reaches(c, b) /\ BoardTypes
  BY CallIsAnswered DEF TypeInv, Reaches
<1>2. CallOK(Call(c))
  BY <1>1, CallingIsOK DEF TypeInv, Reaches
<1>3. ASSUME UNCHANGED boardVars
      PROVE  LastInv'
  BY <1>3 DEF boardVars, LastInv, PerBoard, BoardInv, GmkInv, Unedited, ViaInv
<1>4. ASSUME NEW accepted, NEW new, Write(c, b, accepted, new),
             accepted => Accepted(b, Call(c), new)
      PROVE  LastInv'
  <2>1. CASE accepted /\ b \notin Gmk /\ \E ok : StoreVia(b, Call(c), new, ok)
    BY <1>1, <1>2, <1>4, <2>1, StoreViaKeepsLast
  <2>2. CASE accepted /\ b \in Gmk /\ StoreGmk(b, Call(c), new)
    BY <1>1, <1>2, <1>4, <2>2, StoreGmkKeepsLast
  <2>3. CASE UNCHANGED boardVars
    BY <1>3, <2>3
  <2>4. QED
    BY <1>4, <2>1, <2>2, <2>3 DEF Write, Declined, WriteFails
<1>5. CASE SetLighting(c, b)
  BY <1>4, <1>5 DEF SetLighting, Accepted
<1>6. CASE SetKeycode(c, b)
  BY <1>4, <1>6 DEF SetKeycode, Accepted
<1>7. CASE SetMacro(c, b)
  BY <1>4, <1>7 DEF SetMacro, Accepted
<1>8. CASE Commit(c, b)
  <2>1. \E ok : IF b \in Gmk THEN CommitGmk(b, ok) ELSE CommitVia(b, ok)
    BY <1>8, Zenon DEF Commit
  <2>2. QED
    BY <1>1, <2>1, CommitGmkKeepsLast, CommitViaKeepsLast
<1>9. CASE GetLighting(c, b) \/ GetKeycode(c, b) \/ GetMacro(c, b)
  BY <1>3, <1>9 DEF GetLighting, GetKeycode, GetMacro, Read
<1>10. QED
  BY <1>5, <1>6, <1>7, <1>8, <1>9 DEF CallStep

\* A GMK67 driver starts from what the notes of the file and of the areas say, or of nothing.
LEMMA AttachGmkKeepsLast ==
  ASSUME LastInv, BoardTypes, NEW b \in Gmk, b \in Boards, AttachGmk(b)
  PROVE  LastInv'
<1> DEFINE k == kept[b]
           t == saved[b]
<1>1. /\ NoteShape(k) /\ Holds(b, k, t) /\ KeysHold(b, k.keys, area[b])
      /\ t \in StateOf(b) /\ area[b] \in KeysOf(b)
  BY Zenon DEF LastInv, BoardInv, GmkInv, BoardTypes, Memory, KeyMemory
<1>2. PICK readable, adopts, saves : StartGmk(b, area[b], readable, adopts, saves)
  BY <1>1, AttachStarts, Zenon
<1> DEFINE notes == NotesOf(b, readable)
           file == File(b, readable)
           s1 == Started(b, readable, adopts)
<1>3. /\ live' = [live EXCEPT ![b] = s1] /\ confirmed' = [confirmed EXCEPT ![b] = s1.keys]
      /\ saved' = saved \/ saved' = [saved EXCEPT ![b] = s1]
      /\ last' = [last EXCEPT ![b] = notes] /\ kept' = [kept EXCEPT ![b] = notes]
      /\ committed' = [committed EXCEPT ![b] = notes.keys]
      /\ UNCHANGED <<area, dirty>>
  BY <1>2, Zenon DEF StartGmk, Started, File, NotesOf
<1>4. file \in StateOf(b) /\ s1 \in StateOf(b)
  BY StartedIsState
<1>5. s1 = file \/ (s1.light = file.light /\ s1.keys = area[b] /\ s1.eeprom = file.eeprom)
  <2>1. s1 = IF adopts THEN [file EXCEPT !.keys = area[b]] ELSE file
    BY Zenon DEF Started
  <2> HIDE DEF s1, file
  <2>2. [file EXCEPT !.keys = area[b]]
          = [light |-> file.light, keys |-> area[b], eeprom |-> file.eeprom]
    BY <1>4, StateExcept
  <2>3. QED
    BY <2>1, <2>2
<1>6. NoteShape(notes) /\ Holds(b, notes, file) /\ Holds(b, notes, t)
      /\ KeysHold(b, notes.keys, area[b])
  <2>1. CASE readable
    BY <1>1, <2>1 DEF File, NotesOf
  <2>2. CASE ~readable
    <3>1. notes = Unwritten
      BY <2>2 DEF NotesOf
    <3>2. \A x : Holds(b, Unwritten, x) /\ KeysHold(b, Unwritten.keys, x)
      BY DEF Unwritten, Holds, LightHolds, KeysHold, LayerHolds, BytesHold
    <3>3. NoteShape(Unwritten)
      BY DEF Unwritten, NoteShape
    <3> HIDE DEF notes, file, t
    <3>4. QED
      BY <3>1, <3>2, <3>3
  <2>3. QED
    BY <2>1, <2>2
<1> HIDE DEF notes, file, s1
<1>7. Holds(b, notes, s1)
  BY <1>5, <1>6 DEF Holds
<1>8. /\ OnlyAt(b, live, live') /\ OnlyAt(b, confirmed, confirmed')
      /\ OnlyAt(b, last, last') /\ OnlyAt(b, kept, kept') /\ OnlyAt(b, committed, committed')
      /\ OnlyAt(b, area, area') /\ OnlyAt(b, dirty, dirty') /\ OnlyAt(b, saved, saved')
      /\ live'[b] = s1 /\ confirmed'[b] = s1.keys /\ last'[b] = notes /\ kept'[b] = notes
      /\ committed'[b] = notes.keys /\ area'[b] = area[b] /\ dirty'[b] = dirty[b]
      /\ saved'[b] \in {t, s1}
  <2>1. OnlyAt(b, live, live') /\ live'[b] = s1
    BY <1>3, PerBoards DEF PerBoard, OnlyAt
  <2>2. OnlyAt(b, confirmed, confirmed') /\ confirmed'[b] = s1.keys
    BY <1>3, PerBoards DEF PerBoard, OnlyAt
  <2>3. OnlyAt(b, last, last') /\ last'[b] = notes
    BY <1>3, PerBoards DEF PerBoard, OnlyAt
  <2>4. OnlyAt(b, kept, kept') /\ kept'[b] = notes
    BY <1>3, PerBoards DEF PerBoard, OnlyAt
  <2>5. OnlyAt(b, committed, committed') /\ committed'[b] = notes.keys
    BY <1>3, PerBoards DEF PerBoard, OnlyAt
  <2>6. /\ OnlyAt(b, area, area') /\ OnlyAt(b, dirty, dirty')
        /\ area'[b] = area[b] /\ dirty'[b] = dirty[b]
    BY <1>3, PerBoards DEF PerBoard, OnlyAt
  <2>7. OnlyAt(b, saved, saved') /\ saved'[b] \in {t, s1}
    BY <1>3, PerBoards DEF PerBoard, OnlyAt
  <2>8. QED
    BY <2>1, <2>2, <2>3, <2>4, <2>5, <2>6, <2>7
<1>9. Holds(b, notes, saved'[b])
  BY <1>6, <1>7, <1>8
<1>10. GmkInv(b)'
  <2>1. Unedited(b)' = Forgetting(notes.keys, dirty[b])
    BY <1>8 DEF Unedited
  <2>2. KeysHold(b, notes.keys, s1.keys)
    BY <1>7 DEF Holds
  <2>3. KeysHold(b, Unedited(b)', s1.keys)
    BY <2>1, <2>2, ForgettingHolds
  <2>4. notes.keys = [l \in Layers |-> notes.keys[l]]
    BY <1>6 DEF NoteShape
  <2>5. QED
    BY <1>6, <1>8, <2>2, <2>3, <2>4 DEF GmkInv
<1>11. BoardInv(b)'
  BY <1>6, <1>7, <1>8, <1>9, <1>10 DEF BoardInv
<1>12. QED
  BY <1>8, <1>11, OneBoardKeepsLast

\* When a board leaves, the next session starts from what it saved.
LEMMA DetachKeepsLast ==
  ASSUME LastInv, BoardTypes, NEW i, NEW b \in Boards, b = at[i], Detach(i)
  PROVE  LastInv'
<1> DEFINE k == kept[b]
           t == saved[b]
<1>1. /\ NoteShape(k) /\ Holds(b, k, t)
      /\ b \in Gmk => KeysHold(b, k.keys, area[b])
  BY Zenon DEF LastInv, BoardInv, GmkInv
<1>2. /\ live' = [live EXCEPT ![b] = t] /\ confirmed' = [confirmed EXCEPT ![b] = t.keys]
      /\ last' = [last EXCEPT ![b] = k] /\ committed' = [committed EXCEPT ![b] = k.keys]
      /\ dirty' = [dirty EXCEPT ![b] = {}]
      /\ UNCHANGED <<saved, area, kept>>
  BY DEF Detach
<1> HIDE DEF k, t
<1>3. OnlyAt(b, live, live') /\ live'[b] = t
  BY <1>2, PerBoards DEF PerBoard, OnlyAt
<1>4. OnlyAt(b, confirmed, confirmed') /\ confirmed'[b] = t.keys
  BY <1>2, PerBoards DEF PerBoard, OnlyAt
<1>5. OnlyAt(b, last, last') /\ last'[b] = k
  BY <1>2, PerBoards DEF PerBoard, OnlyAt
<1>6. OnlyAt(b, committed, committed') /\ committed'[b] = k.keys
  BY <1>2, PerBoards DEF PerBoard, OnlyAt
<1>7. OnlyAt(b, dirty, dirty') /\ dirty'[b] = {}
  BY <1>2, PerBoards DEF PerBoard, OnlyAt
<1>8. /\ OnlyAt(b, saved, saved') /\ OnlyAt(b, area, area') /\ OnlyAt(b, kept, kept')
      /\ saved'[b] = t /\ area'[b] = area[b] /\ kept'[b] = k
  <2>1. OnlyAt(b, saved, saved') /\ OnlyAt(b, area, area') /\ OnlyAt(b, kept, kept')
    BY <1>2, PerBoards DEF PerBoard, OnlyAt
  <2>2. QED
    BY <1>2, <2>1 DEF k, t
<1>9. ASSUME b \in Gmk
      PROVE  GmkInv(b)'
  <2>1. KeysHold(b, k.keys, t.keys) /\ k.keys = [l \in Layers |-> k.keys[l]]
    BY <1>1 DEF Holds, NoteShape
  <2>2. Unedited(b)' = Forgetting(k.keys, dirty'[b])
    BY <1>8 DEF Unedited
  <2>3. KeysHold(b, Unedited(b)', t.keys)
    BY <2>1, <2>2, ForgettingHolds
  <2>4. QED
    BY <1>1, <1>3, <1>4, <1>6, <1>8, <1>9, <2>1, <2>3 DEF GmkInv
<1>10. ViaInv(b)'
  BY <1>3, <1>5, <1>8 DEF ViaInv
<1>11. BoardInv(b)'
  BY <1>1, <1>3, <1>5, <1>8, <1>9, <1>10 DEF BoardInv
<1>12. QED
  BY <1>3, <1>4, <1>5, <1>6, <1>7, <1>8, <1>11, OneBoardKeepsLast

LEMMA LastInvNext ==
  ASSUME TypeInv, LastInv, [Next]_vars
  PROVE  LastInv'
<1>1. BoardTypes /\ UserTypes
  BY DEF TypeInv
<1>2. ASSUME UNCHANGED boardVars
      PROVE  LastInv'
  BY <1>2 DEF boardVars, LastInv, PerBoard, BoardInv, GmkInv, Unedited, ViaInv
<1>3. ASSUME NEW i \in Ids, NEW b \in Boards, Attach(i, b)
      PROVE  LastInv'
  <2>1. CASE b \in Gmk
    BY <1>1, <1>3, <2>1, AttachGmkKeepsLast DEF Attach
  <2>2. CASE b \notin Gmk
    BY <1>2, <1>3, <2>2 DEF Attach, AttachVia
  <2>3. QED
    BY <2>1, <2>2
<1>4. ASSUME NEW i \in Ids, Detach(i)
      PROVE  LastInv'
  <2>1. at[i] \in Boards
    BY <1>1, <1>4 DEF UserTypes, Registry, Detach
  <2>2. QED
    BY <1>1, <1>4, <2>1, DetachKeepsLast
<1>5. ASSUME NEW b \in Boards, AutoCommit(b)
      PROVE  LastInv'
  <2>1. dirty[b] \subseteq Cellular(b) /\ dirty[b] # {}
    BY <1>1, <1>5 DEF AutoCommit, BoardTypes, DirtyCells
  <2>2. b \in Gmk
    BY <2>1 DEF Cellular
  <2>3. \E ok : CommitGmk(b, ok)
    BY <1>5, Zenon DEF AutoCommit
  <2>4. QED
    BY <1>1, <2>2, <2>3, CommitGmkKeepsLast
<1>6. ASSUME NEW c \in Clients, List(c) \/ Resolve(c) \/ DeviceNotFound(c)
      PROVE  LastInv'
  BY <1>2, <1>6 DEF List, Resolve, DeviceNotFound, Declined
<1>7. ASSUME NEW c, NEW cmd, NEW name, Run(c, cmd, name)
      PROVE  LastInv'
  BY <1>2, <1>7 DEF Run
<1>8. CASE Next
  BY <1>3, <1>4, <1>5, <1>6, <1>7, <1>8, Steps, CallKeepsLast, Zenon
<1>9. CASE UNCHANGED vars
  BY <1>2, <1>9 DEF vars
<1>10. QED
  BY <1>8, <1>9

LEMMA LastInvInit ==
  ASSUME Init
  PROVE  LastInv
<1>1. /\ last = [b \in Boards |-> Unwritten] /\ kept = last
      /\ committed = [b \in Boards |-> Unwritten.keys]
      /\ live = [b \in Boards |-> Blank(b)] /\ saved = live
      /\ area = [b \in Boards |-> Blank(b).keys] /\ confirmed = area
  BY DEF Init
<1>2. NoteShape(Unwritten)
  BY DEF Unwritten, NoteShape
<1>3. ASSUME NEW b, NEW x
      PROVE  /\ Holds(b, Unwritten, x) /\ KeysHold(b, Unwritten.keys, x)
             /\ KeysHold(b, Forgetting(Unwritten.keys, dirty[b]), x)
  <2>1. Holds(b, Unwritten, x) /\ KeysHold(b, Unwritten.keys, x)
    BY DEF Unwritten, Holds, LightHolds, KeysHold, LayerHolds, BytesHold
  <2>2. QED
    BY <2>1, ForgettingHolds
<1>4. Unwritten.keys = [l \in Layers |-> Unwritten.keys[l]]
  BY <1>2 DEF NoteShape
<1>5. ASSUME NEW b \in Boards
      PROVE  BoardInv(b)
  <2>1. ViaInv(b)
    BY <1>1 DEF ViaInv
  <2>2. GmkInv(b)
    BY <1>1, <1>3, <1>4 DEF GmkInv, Unedited
  <2>3. QED
    BY <1>1, <1>2, <1>3, <2>1, <2>2 DEF BoardInv
<1>6. QED
  BY <1>1, <1>5 DEF LastInv, PerBoard

\* A field reads as its last acknowledged write, until a failed commit, and then as the last
\* committed one, or a replug, and then as the last that surely was kept, whatever else was
\* written, refused, lost or taken back between, for a GMK67 board within the steps of its
\* scales (lighting_with_via_value, rollback, save_touched_channels, ShadowState::save and
\* load, the key-definition areas).
THEOREM LastWritesHold == Spec => []LastWriteHolds
<1>1. Init => LastInv
  BY LastInvInit
<1>2. TypeInv /\ LastInv /\ [Next]_vars => LastInv'
  BY LastInvNext
<1>3. TypeInv /\ LastInv => LastWriteHolds
  <2> SUFFICES ASSUME TypeInv, LastInv, NEW i \in Ids, at[i] # None
               PROVE  Holds(at[i], last[at[i]], live[at[i]])
    BY Zenon DEF LastWriteHolds, Holds, LightHolds, KeysHold, LayerHolds, BytesHold
  <2>1. at[i] \in Boards
    BY DEF TypeInv, UserTypes, Registry
  <2>2. QED
    BY <2>1, Zenon DEF LastInv, BoardInv
<1>4. QED
  BY <1>1, <1>2, <1>3, TypeInvHolds, PTL DEF Spec
=============================================================================

----------------------------- MODULE Gmk67Frames -----------------------------
(***************************************************************************)
(* The value encodings of the GMK67-family driver (hal/legacy/gmk67.rs):   *)
(* lighting on VIA's 0..255 scales against the board's 0..15 and RGB, and  *)
(* a layer's keymap against the buffer of its key-definition area.  Pure   *)
(* functions; Gmk67FramesProofs proves them, Clackctl uses them.           *)
(***************************************************************************)
EXTENDS Integers, Sequences

CONSTANT KeyIndex    \* matrix cell -> the firmware's index of its key, or NA

NA == 255
AREA_ENTRIES == 144  \* 4-byte entries of the 576-byte area; the footer takes half of the last
Cells == DOMAIN KeyIndex
Keyed == {c \in Cells : KeyIndex[c] # NA}

ASSUME KeyIndexAssumption ==
  /\ \A c \in Cells : KeyIndex[c] \in (0 .. AREA_ENTRIES - 2) \cup {NA}
  /\ \A c, d \in Keyed : KeyIndex[c] = KeyIndex[d] => c = d

\* The EK68's table, the one the driver is built with: <<row, column>>, from 0.
KEY_INDEX ==
  LET rows == << <<1, 20, 21, 22, 23, 24, 25, 26, 27, 28, 29, 30, 31, 103, NA>>,
                 <<37, 38, 39, 40, 41, 42, 43, 44, 45, 46, 47, 48, 49, 67, 119>>,
                 <<55, 56, 57, 58, 59, 60, 61, 62, 63, 64, 65, 66, 85, 118, NA>>,
                 <<73, 74, 75, 76, 77, 78, 79, 80, 81, 82, 83, 84, 101, 121, NA>>,
                 <<91, 92, 93, 94, 95, 96, 99, 100, 102, NA, NA, NA, NA, NA, NA>> >>
  IN [c \in (0 .. 4) \X (0 .. 14) |-> rows[c[1] + 1][c[2] + 1]]

Byte == 0 .. 255
Keycode == 0 .. 65535
Lesser(a, b) == IF a <= b THEN a ELSE b
Greater(a, b) == IF a >= b THEN a ELSE b
Diff(a, b) == Greater(a, b) - Lesser(a, b)

-----------------------------------------------------------------------------
(* Lighting. *)

MODE_STATIC == 1
MODE_EFFECT_MAX == 19
MODE_LIGHTS_OFF == 128
LEVEL_MAX == 15

Lightings == [mode : Byte, r : Byte, g : Byte, b : Byte, brightness : Byte,
              speed : Byte, direction : Byte, random : BOOLEAN]

DefaultLighting ==
  [mode |-> MODE_STATIC, r |-> 255, g |-> 255, b |-> 255, brightness |-> LEVEL_MAX,
   speed |-> 0, direction |-> 0, random |-> FALSE]

\* The mode frame: what the board is told to show.
Encode(l) == [l EXCEPT !.brightness = Lesser(@, LEVEL_MAX), !.speed = Lesser(@, LEVEL_MAX)]

\* Packed payload [mode, r, g, b, brightness, random, speed, direction], cut off anywhere.
from_bytes(data) ==
  LET at(i, default) == IF i <= Len(data) THEN data[i] ELSE default
      d == DefaultLighting
  IN [mode |-> at(1, d.mode), r |-> at(2, d.r), g |-> at(3, d.g), b |-> at(4, d.b),
      brightness |-> at(5, d.brightness), random |-> at(6, 0) # 0,
      speed |-> at(7, d.speed), direction |-> at(8, d.direction)]
to_bytes(l) ==
  <<l.mode, l.r, l.g, l.b, l.brightness, IF l.random THEN 1 ELSE 0, l.speed, l.direction>>

is_renderable_mode(mode) == mode \in MODE_STATIC .. MODE_EFFECT_MAX \cup {MODE_LIGHTS_OFF}

scale_255_to_15(v) == (v * 15 + 127) \div 255
scale_15_to_255(v) == (Lesser(v, LEVEL_MAX) * 255) \div 15

\* Hue and saturation at full value, in integers.
hs_to_rgb(h, s) ==
  LET region == h \div 43
      remainder == (h - region * 43) * 6
      p == 255 - s
      q == 255 - (s * remainder) \div 255
      t == 255 - (s * (255 - remainder)) \div 255
  IN IF s = 0 THEN <<255, 255, 255>>
     ELSE CASE region = 0 -> <<255, t, p>>
            [] region = 1 -> <<q, 255, p>>
            [] region = 2 -> <<p, 255, t>>
            [] region = 3 -> <<p, q, 255>>
            [] region = 4 -> <<t, p, 255>>
            [] OTHER -> <<255, p, q>>

\* Division rounds towards zero; a hue below zero wraps.
Truncated(a, b) == IF a >= 0 THEN a \div b ELSE -((-a) \div b)
rgb_to_hs(r, g, b) ==
  LET max == Greater(Greater(r, g), b)
      delta == max - Lesser(Lesser(r, g), b)
      hue == CASE r = max -> Truncated(43 * (g - b), delta)
               [] r # max /\ g = max -> 85 + Truncated(43 * (b - r), delta)
               [] OTHER -> 171 + Truncated(43 * (r - g), delta)
  IN IF delta = 0 THEN <<0, 0>> ELSE <<hue % 256, (delta * 255) \div max>>

VIA_CHANNEL_PACKED == 0
VIA_CHANNEL_RGB_MATRIX == 3
VIA_VALUE_BRIGHTNESS == 1
VIA_VALUE_EFFECT == 2
VIA_VALUE_SPEED == 3
VIA_VALUE_COLOR == 4
ViaValues == VIA_VALUE_BRIGHTNESS .. VIA_VALUE_COLOR

Needed(value) == IF value = VIA_VALUE_COLOR THEN 2 ELSE 1

\* Seeded fault: the other fields go back to their defaults.
PatchesDefault(l, value, data) ==
  CASE value = VIA_VALUE_BRIGHTNESS ->
         [DefaultLighting EXCEPT !.brightness = scale_255_to_15(data[1])]
    [] OTHER -> l
\* One value of the RGB matrix patched onto the lighting l; effect 0 means off.
lighting_with_via_value(l, value, data) ==
  CASE value = VIA_VALUE_BRIGHTNESS -> [l EXCEPT !.brightness = scale_255_to_15(data[1])]
    [] value = VIA_VALUE_EFFECT ->
         [l EXCEPT !.mode = IF data[1] = 0 THEN MODE_LIGHTS_OFF ELSE data[1]]
    [] value = VIA_VALUE_SPEED -> [l EXCEPT !.speed = scale_255_to_15(data[1])]
    [] value = VIA_VALUE_COLOR ->
         LET rgb == hs_to_rgb(data[1], data[2])
         IN [l EXCEPT !.r = rgb[1], !.g = rgb[2], !.b = rgb[3], !.random = FALSE]

\* set_lighting up to the frames: what it refuses, and the lighting it would render.
Refused(l, channel, value, data) ==
  CASE channel = VIA_CHANNEL_PACKED ->
         IF is_renderable_mode(from_bytes(data).mode) THEN "ok" ELSE "ProtocolViolation"
    [] channel = VIA_CHANNEL_RGB_MATRIX ->
         CASE value \notin ViaValues -> "Unsupported"
           [] value \in ViaValues /\ Len(data) < Needed(value) -> "ProtocolViolation"
           [] OTHER -> IF is_renderable_mode(lighting_with_via_value(l, value, data).mode)
                       THEN "ok" ELSE "ProtocolViolation"
    [] OTHER -> "Unsupported"
Proposed(l, channel, value, data) ==
  IF channel = VIA_CHANNEL_PACKED THEN from_bytes(data)
  ELSE lighting_with_via_value(l, value, data)

\* get_lighting, of a channel and value that exist.
get_lighting(l, channel, value) ==
  CASE channel = VIA_CHANNEL_PACKED -> to_bytes(l)
    [] channel # VIA_CHANNEL_PACKED /\ value = VIA_VALUE_BRIGHTNESS ->
         <<scale_15_to_255(l.brightness)>>
    [] channel # VIA_CHANNEL_PACKED /\ value = VIA_VALUE_EFFECT ->
         <<IF l.mode = MODE_LIGHTS_OFF THEN 0 ELSE l.mode>>
    [] channel # VIA_CHANNEL_PACKED /\ value = VIA_VALUE_SPEED -> <<scale_15_to_255(l.speed)>>
    [] OTHER -> rgb_to_hs(l.r, l.g, l.b)

-----------------------------------------------------------------------------
(* A layer's keymap and its key-definition area. *)

KEY_DEF_BUF_LEN == 4 * AREA_ENTRIES
KEY_DEF_ENTRY_MARKER == 2
FOOTER_MAGIC == <<170, 85>>

keydef_command(layer) == IF layer \in {0, 1} THEN {layer} ELSE {}  \* the areas there are
\* Seeded fault: an empty cell's sentinel is taken for an index.
AnyIndexFor(c) == IF c \in Cells THEN {KeyIndex[c]} ELSE {}
key_index_for(c) == IF c \in Keyed THEN {KeyIndex[c]} ELSE {}

\* A remapped key: marker, zero, keycode in little endian.
EntryBytes(code) == <<KEY_DEF_ENTRY_MARKER, 0, code % 256, code \div 256>>

\* keymap: the remapped cells of the layer; the others keep their factory code.
Carrying(keymap, o) == {c \in DOMAIN keymap : key_index_for(c) = {o \div 4}}
encode_keydef_buffer(keymap) ==
  [o \in 0 .. KEY_DEF_BUF_LEN - 1 |->
     IF o >= KEY_DEF_BUF_LEN - 2 THEN FOOTER_MAGIC[o - (KEY_DEF_BUF_LEN - 2) + 1]
     ELSE IF Carrying(keymap, o) = {} THEN 0
     ELSE EntryBytes(keymap[CHOOSE c \in Carrying(keymap, o) : TRUE])[(o % 4) + 1]]

\* The read-back: every marked entry that belongs to a key of the matrix.
Marked(buf) == {c \in Keyed : buf[4 * KeyIndex[c]] = KEY_DEF_ENTRY_MARKER}
read_keydef_layer(buf) ==
  [c \in Marked(buf) |-> buf[4 * KeyIndex[c] + 2] + 256 * buf[4 * KeyIndex[c] + 3]]
=============================================================================

------------------------------ MODULE MCClackctl ------------------------------
(* Small instances of Clackctl. *)
EXTENDS Clackctl

CONSTANTS c1, ek68, via

\* Ids 1, 2: "hidraw1" and "hidraw10".
MCNames ==
  {[exact |-> 1, index |-> -1, matches |-> {1, 2}],   \* hidraw1
   [exact |-> 0, index |-> 0, matches |-> {2}]}       \* 0

RawCmd(channel, value, data) ==
  [verb |-> "set-raw", channel |-> channel, value |-> value, data |-> data]
KeyCmd(layer, cell, code) == [verb |-> "set", layer |-> layer, cell |-> cell, code |-> code]
MacroCmd(offset, data) == [verb |-> "set-macro", offset |-> offset, data |-> data]
MCCommands ==
  {[verb |-> "brightness", level |-> [percent |-> TRUE, n |-> 50]],
   [verb |-> "speed", level |-> [percent |-> FALSE, n |-> 25]],
   [verb |-> "effect", effect |-> 32],      \* none of the GMK67's
   [verb |-> "off"],
   [verb |-> "color", rgb |-> <<255, 105, 180>>],  \* pink
   RawCmd(0, 0, <<8, 16, 32>>),             \* packed, cut off
   RawCmd(3, 4, <<9>>),                     \* a colour without saturation
   KeyCmd(1, <<0, 0>>, 258), KeyCmd(1, <<0, 0>>, 5),
   KeyCmd(0, <<0, 14>>, 4),                 \* no such key on the EK68
   MacroCmd(0, <<5, 6>>),
   MacroCmd(2, <<7, 8>>),                   \* one byte too far
   [verb |-> "commit"],
   [verb |-> "keymap", layer |-> 1, cell |-> <<0, 0>>, cells |-> 2],
   [verb |-> "get-macro", offset |-> 2, length |-> 2],
   [verb |-> "show"]}
=============================================================================

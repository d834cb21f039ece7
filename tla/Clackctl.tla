------------------------------- MODULE Clackctl -------------------------------
(***************************************************************************)
(* clackctl (bin/clackctl/main.rs) at work on keyboards that come and go:  *)
(* a user reads a list, names a keyboard, and each command resolves that   *)
(* name anew and then makes one D-Bus call or several.  A call is a step,  *)
(* through the engine's checks, the driver and the board; what goes on     *)
(* inside the engine and the drivers is the matter of the other modules.   *)
(*                                                                         *)
(* Hidraw ids are numbered in the order the engine sorts them, that of     *)
(* strings: "hidraw10" comes before "hidraw2".  Product names are empty,   *)
(* so a name the user gives can only match ids.                            *)
(***************************************************************************)
EXTENDS Gmk67Frames, FiniteSets

CONSTANTS
  Boards,
  Gmk,            \* the board the GMK67 driver serves, if any; VIA (direct) serves the others
  LastId,
  Clients,
  Names,          \* what users call a keyboard, see Resolved
  Commands,       \* the command lines they type, see Wire
  SyncOnAttach,   \* devices.toml sync_on_attach
  MacroSize,      \* bytes of a VIA board's macro buffer
  EepromSize,     \* .. and of its EEPROM from there on
  MaxMacroChunk,  \* MAX_MACRO_CHUNK
  ViaRows, ViaCols, \* the matrix of the VIA boards' firmware
  None,
  MaxCommands, MaxMoves, MaxFaults  \* bounds

ASSUME ClackctlAssumption ==
  /\ Gmk \subseteq Boards /\ \A b, d \in Gmk : b = d  \* two would share one file
  /\ {LastId, MacroSize, EepromSize, MaxMacroChunk} \subseteq Nat
  /\ MacroSize <= EepromSize
  /\ None \notin 1 .. LastId
  /\ SyncOnAttach \in BOOLEAN
  /\ {MaxCommands, MaxMoves, MaxFaults} \subseteq Nat

\* A name is the number of the id it spells, or 0, the line it numbers, or -1, and the
\* ids it is part of; no id is spelt like a line number.
ASSUME NamesAssumption ==
  \A n \in Names :
    /\ n.exact \in 0 .. LastId /\ n.index \in Int /\ n.matches \subseteq 1 .. LastId
    /\ n.exact # 0 => n.index < 0

\* What clap and the parsers of clackctl let through.
Level == {level \in [percent : BOOLEAN, n : Byte] : level.percent => level.n <= 100}
CommandLine ==
       [verb : {"brightness", "speed"}, level : Level]
  \cup [verb : {"effect"}, effect : Byte]
  \cup [verb : {"color"}, rgb : Byte \X Byte \X Byte]
  \cup [verb : {"off", "commit", "show"}]
  \cup [verb : {"set-raw"}, channel : Byte, value : Byte, data : Seq(Byte)]
  \cup [verb : {"set"}, layer : Byte, cell : Byte \X Byte, code : Keycode]
  \cup [verb : {"set-macro"}, offset : Keycode, data : Seq(Byte)]
  \cup [verb : {"keymap"}, layer : Byte, cell : Byte \X Byte, cells : Nat \ {0}]
  \cup [verb : {"get-macro"}, offset : Keycode, length : Byte]
ASSUME CommandsAssumption == Commands \subseteq CommandLine

Ids == 1 .. LastId
Layers == 0 .. 3
RGB == VIA_CHANNEL_RGB_MATRIX

VARIABLES
  at,        \* the registry: id -> the board attached there, or None
  live,      \* per board: light, keys and eeprom as reads return them
  saved,     \* per board: what a replug leaves of them; of the GMK67 board, its shadow file
  area,      \* per board: the keys in the GMK67 board's key-definition areas
  confirmed, \* per board: the keys a failed commit goes back to
  dirty,     \* per board: the layers and cells edited since the last commit
  channels,  \* per VIA board: touched_channels
  proc,      \* per client: the command it runs
  commands, moves, faults,
  seen,      \* history: per client, the registry when its user last read the list
  moved,     \* history: per client, the ids whose board came or went since
  last,      \* history: per board, the last acknowledged write of every field
  committed, \* history: .. of every key, up to the last commit
  kept       \* history: .. of what surely survives a replug

boardVars == <<live, saved, area, confirmed, dirty, channels, last, committed, kept>>
userVars == <<seen, moved>>
vars == <<at, boardVars, proc, commands, moves, faults, userVars>>

Blank(b) ==
  [light |-> IF b \in Gmk THEN DefaultLighting
             ELSE [v \in ViaValues |-> [i \in 1 .. Needed(v) |-> 0]],
   keys |-> [l \in Layers |-> <<>>],   \* per layer the remapped cells
   eeprom |-> [o \in 0 .. EepromSize - 1 |-> 0]]
Unwritten == [light |-> [v \in ViaValues |-> None], keys |-> [l \in Layers |-> <<>>],
              eeprom |-> <<>>]
Idle == [pc |-> "idle", call |-> None, name |-> None, id |-> None, left |-> 0]

\* After boot: whatever keyboards there were are attached.
Init ==
  /\ at \in [Ids -> Boards \cup {None}]
  /\ \A i, j \in Ids : i # j /\ at[i] = at[j] => at[i] = None
  /\ live = [b \in Boards |-> Blank(b)] /\ saved = live
  /\ area = [b \in Boards |-> Blank(b).keys] /\ confirmed = area
  /\ channels = [b \in Boards |-> {}] /\ dirty = channels
  /\ proc = [c \in Clients |-> Idle]
  /\ commands = 0 /\ moves = 0 /\ faults = 0
  /\ seen = [c \in Clients |-> at] /\ moved = [c \in Clients |-> {}]
  /\ last = [b \in Boards |-> Unwritten] /\ kept = last
  /\ committed = [b \in Boards |-> Unwritten.keys]

-----------------------------------------------------------------------------
(* Keyboards come and go. *)

Move(i, b) ==
  /\ moves < MaxMoves
  /\ moves' = moves + 1
  /\ at' = [at EXCEPT ![i] = b]
  /\ moved' = [c \in Clients |-> moved[c] \cup {i}]

Fault == faults < MaxFaults /\ faults' = faults + 1

\* A VIA board starts from what it saved.
AttachVia(b) == UNCHANGED <<boardVars, faults>>

\* A GMK67 driver starts from its file, or fresh if that cannot be read; with
\* sync_on_attach it adopts and saves the keymap of the board's two areas, unless a page
\* cannot be read.
ReadBack(keys) ==
  [l \in Layers |-> IF keydef_command(l) = {} THEN <<>>
                    ELSE read_keydef_layer(encode_keydef_buffer(keys[l]))]
StartGmk(b, board, readable, adopts, saves) ==
  LET file == IF readable THEN saved[b] ELSE Blank(b)
      shadow == IF adopts THEN [file EXCEPT !.keys = board] ELSE file
      notes == IF readable THEN kept[b] ELSE Unwritten
  IN /\ live' = [live EXCEPT ![b] = shadow]
     /\ confirmed' = [confirmed EXCEPT ![b] = shadow.keys]
     /\ saved' = IF adopts /\ saves THEN [saved EXCEPT ![b] = shadow] ELSE saved
     /\ last' = [last EXCEPT ![b] = notes] /\ kept' = [kept EXCEPT ![b] = notes]
     /\ committed' = [committed EXCEPT ![b] = notes.keys]
     /\ UNCHANGED <<area, dirty, channels>>
AttachGmk(b) ==
  \E board \in {ReadBack(area[b])},
     readable \in BOOLEAN, adopts \in {SyncOnAttach, FALSE}, saves \in BOOLEAN :
    /\ StartGmk(b, board, readable, adopts, saves)
    /\ IF readable /\ adopts = SyncOnAttach /\ (adopts => saves) THEN UNCHANGED faults ELSE Fault

Attach(i, b) ==
  /\ at[i] = None
  /\ \A j \in Ids : at[j] # b
  /\ Move(i, b)
  /\ IF b \in Gmk THEN AttachGmk(b) ELSE AttachVia(b)
  /\ UNCHANGED <<proc, commands, seen>>

\* The session ends with the board out of reach: what was volatile is gone.
Detach(i) ==
  LET b == at[i] IN
  /\ b # None
  /\ Move(i, None)
  /\ live' = [live EXCEPT ![b] = saved[b]]
  /\ confirmed' = [confirmed EXCEPT ![b] = saved[b].keys]
  /\ last' = [last EXCEPT ![b] = kept[b]]
  /\ committed' = [committed EXCEPT ![b] = kept[b].keys]
  /\ channels' = [channels EXCEPT ![b] = {}]
  /\ dirty' = [dirty EXCEPT ![b] = {}]
  /\ UNCHANGED <<saved, area, kept, proc, commands, faults, seen>>

-----------------------------------------------------------------------------
(* The user: reads the list, types a command. *)

List(c) ==
  /\ proc[c].pc = "idle"
  /\ seen' = [seen EXCEPT ![c] = at]
  /\ moved' = [moved EXCEPT ![c] = {}]
  /\ UNCHANGED <<at, boardVars, proc, commands, moves, faults>>

parse_level(level) == IF level.percent THEN (level.n * 255 + 50) \div 100 ELSE level.n

\* The calls a command line comes to, all of one kind.  A keymap is read cell by cell,
\* and the lighting value by value: there a read that fails is noted and the next one
\* made, elsewhere the command gives up.
Light(channel, value, data) ==
  [op |-> "light", channel |-> channel, value |-> value, data |-> data]
LevelCall(value, level) == Light(RGB, value, <<parse_level(level)>>)
EffectCall(effect) == Light(RGB, VIA_VALUE_EFFECT, <<effect>>)   \* off is effect 0
ColorCall(rgb) == Light(RGB, VIA_VALUE_COLOR, rgb_to_hs(rgb[1], rgb[2], rgb[3]))
KeyCall(layer, cell, code) == [op |-> "key", layer |-> layer, cell |-> cell, code |-> code]
MacroCall(offset, data) == [op |-> "macro", offset |-> offset, data |-> data]
Wire(cmd) ==
  CASE cmd.verb = "brightness" -> LevelCall(VIA_VALUE_BRIGHTNESS, cmd.level)
    [] cmd.verb = "speed" -> LevelCall(VIA_VALUE_SPEED, cmd.level)
    [] cmd.verb = "effect" -> EffectCall(cmd.effect)
    [] cmd.verb = "off" -> EffectCall(0)
    [] cmd.verb = "color" -> ColorCall(cmd.rgb)
    [] cmd.verb = "set-raw" -> Light(cmd.channel, cmd.value, cmd.data)
    [] cmd.verb = "set" -> KeyCall(cmd.layer, cmd.cell, cmd.code)
    [] cmd.verb = "set-macro" -> MacroCall(cmd.offset, cmd.data)
    [] cmd.verb = "commit" -> [op |-> "commit"]
    [] cmd.verb = "keymap" -> [op |-> "read key", layer |-> cmd.layer, cell |-> cmd.cell]
    [] cmd.verb = "get-macro" -> [op |-> "read macro", offset |-> cmd.offset, length |-> cmd.length]
    [] cmd.verb = "show" -> [op |-> "read light"]
Calls(cmd) ==
  CASE cmd.verb = "show" -> Cardinality(ViaValues)
    [] cmd.verb = "keymap" -> cmd.cells
    [] OTHER -> 1

Run(c, cmd, name) ==
  /\ proc[c].pc = "idle"
  /\ commands < MaxCommands
  /\ commands' = commands + 1
  /\ proc' = [proc EXCEPT ![c] = [Idle EXCEPT !.pc = "resolving", !.call = Wire(cmd),
                                              !.name = name, !.left = Calls(cmd)]]
  /\ UNCHANGED <<at, boardVars, moves, faults, userVars>>

\* ListDevices answers the ids in order.  Seeded fault: in no particular order.
Present(registry) == {i \in Ids : registry[i] # None}
InAnyOrder(ids, k) == ids
InOrder(ids, k) == {i \in ids : Cardinality({j \in ids : j < i}) = k}

\* resolve_device: an id, else an index into the list, else a unique part of an id.
\* At most one id; none is an error the user sees.
Resolved(registry, name) ==
  LET ids == Present(registry)
      parts == name.matches \cap ids
  IN CASE name.exact \in ids -> {name.exact}
       [] name.exact \notin ids /\ name.index \in 0 .. Cardinality(ids) - 1 ->
            InOrder(ids, name.index)
       [] OTHER -> IF Cardinality(parts) = 1 THEN parts ELSE {}

Resolve(c) ==
  /\ proc[c].pc = "resolving"
  /\ \/ \E i \in Resolved(at, proc[c].name) :
          proc' = [proc EXCEPT ![c].pc = "calling", ![c].id = i]
     \/ /\ Resolved(at, proc[c].name) = {}
        /\ proc' = [proc EXCEPT ![c] = Idle]
  /\ UNCHANGED <<at, boardVars, commands, moves, faults, userVars>>

-----------------------------------------------------------------------------
(***************************************************************************)
(* One D-Bus call: the frontend's command, the engine's checks, the        *)
(* driver.  It is refused, or it is carried out and acknowledged, or it    *)
(* fails on the way, and then a VIA board may have obeyed all the same.    *)
(***************************************************************************)
Call(c) == proc[c].call
Reaches(c, b) == proc[c].pc = "calling" /\ at[proc[c].id] = b /\ b # None

\* The command after this call.
GoesOn(call, ok) == ok \/ call.op = "read light"
Answered(c, ok) ==
  proc' = IF GoesOn(Call(c), ok) /\ proc[c].left > 1
          THEN [proc EXCEPT ![c].left = @ - 1] ELSE [proc EXCEPT ![c] = Idle]

\* Nothing changes but the answer.
Declined(c) == Answered(c, FALSE) /\ UNCHANGED <<boardVars, faults>>

DeviceNotFound(c) ==
  /\ proc[c].pc = "calling"
  /\ at[proc[c].id] = None
  /\ Declined(c)
  /\ UNCHANGED <<at, commands, moves, userVars>>

\* DeviceTopology::contains, over what the drivers report.
contains(b, layer, cell) ==
  IF b \in Gmk THEN layer < 2 /\ cell \in Cells
  ELSE layer \in Layers /\ cell \in (0 .. 15) \X (0 .. 15)

\* What VIA firmware keeps of a frame: the value's bytes, zeros where there was no data.
Padded(value, data) ==
  [i \in 1 .. Needed(value) |-> IF i <= Len(data) THEN data[i] ELSE 0]
OnFirmware(cell) == cell \in (0 .. ViaRows - 1) \X (0 .. ViaCols - 1)

\* validate_macro_range.  Seeded fault: only the chunk is bounded.
ChunkFits(offset, len) == len <= MaxMacroChunk
validate_macro_range(offset, len) == len <= MaxMacroChunk /\ offset + len <= MacroSize

MAX_LIGHTING_VALUE == 29

\* Which writes the drivers take up; the others are Unsupported, out of bounds or malformed.
LightAccepted(b, call) ==
  IF b \in Gmk THEN Refused(live[b].light, call.channel, call.value, call.data) = "ok"
  ELSE Len(call.data) <= MAX_LIGHTING_VALUE
KeyAccepted(b, call) ==
  /\ contains(b, call.layer, call.cell)
  /\ b \in Gmk => keydef_command(call.layer) # {} /\ key_index_for(call.cell) # {}
MacroAccepted(b, offset, len) == b \notin Gmk /\ validate_macro_range(offset, len)

\* The function f with k at v.
With(f, k, v) == [x \in DOMAIN f \cup {k} |-> IF x = k THEN v ELSE f[x]]

\* The board (for a GMK67 board, its driver) with the write done.  VIA firmware ignores
\* values it does not have and cells outside its matrix, and answers as if it had not.
LightWritten(b, call) ==
  IF b \in Gmk
  THEN [live[b] EXCEPT !.light = Proposed(@, call.channel, call.value, call.data)]
  ELSE IF call.channel = RGB /\ call.value \in ViaValues
  THEN [live[b] EXCEPT !.light[call.value] = Padded(call.value, call.data)] ELSE live[b]
KeyWritten(b, call) ==
  IF b \in Gmk \/ OnFirmware(call.cell)
  THEN [live[b] EXCEPT !.keys[call.layer] = With(@, call.cell, call.code)] ELSE live[b]
MacroWritten(b, call) ==
  [live[b] EXCEPT !.eeprom = [o \in DOMAIN @ |->
     IF o - call.offset \in 0 .. Len(call.data) - 1
     THEN call.data[o - call.offset + 1] ELSE @[o]]]

\* The fields of a board the call writes: kind and place.
Fields(b, call) ==
  CASE call.op = "light" /\ call.channel = VIA_CHANNEL_PACKED /\ b \in Gmk ->
         {<<"light", v>> : v \in ViaValues}
    [] call.op = "light" /\ call.channel = RGB -> {<<"light", call.value>>}
    [] call.op = "key" -> {<<"key", call.layer, call.cell>>}
    [] call.op = "macro" -> {<<"byte", call.offset + i - 1>> : i \in 1 .. Len(call.data)}
    [] OTHER -> {}

\* last with the call's fields at the values sent, or forgotten (known = FALSE).
Sent(call, v) == IF call.channel = RGB THEN Padded(v, call.data) ELSE None
Noted(notes, b, call, known) ==
  LET note(v) == IF known THEN v ELSE None IN
  CASE call.op = "light" ->
         [notes EXCEPT !.light = [v \in ViaValues |->
            IF <<"light", v>> \in Fields(b, call) THEN note(Sent(call, v)) ELSE @[v]]]
    [] call.op = "key" ->
         [notes EXCEPT !.keys[call.layer] = With(@, call.cell, note(call.code))]
    [] call.op = "macro" ->
         LET written == call.offset .. call.offset + Len(call.data) - 1 IN
         [notes EXCEPT !.eeprom = [o \in written \cup DOMAIN @ |->
            IF o \in written THEN note(call.data[o - call.offset + 1]) ELSE @[o]]]

\* A VIA board keeps keys and macros at once, lighting when it is told to save.
StoreVia(b, call, new, ok) ==
  /\ live' = [live EXCEPT ![b] = new]
  /\ last' = [last EXCEPT ![b] = Noted(@, b, call, ok)]
  /\ IF call.op = "light" THEN UNCHANGED <<saved, kept>>
     ELSE /\ saved' = [saved EXCEPT ![b] = [new EXCEPT !.light = saved[b].light]]
          /\ kept' = [kept EXCEPT ![b] = Noted(@, b, call, ok)]
  /\ channels' = IF ok /\ call.op = "light"
                 THEN [channels EXCEPT ![b] = @ \cup {call.channel}] ELSE channels
  /\ UNCHANGED <<area, confirmed, dirty, committed>>

\* The whole shadow goes to its file, or nothing does and nobody is told.
Save(b, shadow, noted, otherwise) ==
  \/ /\ saved' = [saved EXCEPT ![b] = shadow]
     /\ kept' = [kept EXCEPT ![b] = noted]
     /\ UNCHANGED faults
  \/ /\ Fault
     /\ kept' = [kept EXCEPT ![b] = otherwise]
     /\ UNCHANGED saved

\* Notes of keys, but for some cells.
Forgetting(keys, cells) ==
  [l \in Layers |-> [k \in DOMAIN keys[l] |-> IF <<l, k>> \in cells THEN None ELSE keys[l][k]]]

\* The GMK67 driver keeps a key in its shadow, and saves the shadow with every lighting:
\* keys that are not committed yet are in the file then, and not on the board.
StoreGmk(b, call, new) ==
  LET notes == Noted(last[b], b, call, TRUE) IN
  /\ live' = [live EXCEPT ![b] = new]
  /\ last' = [last EXCEPT ![b] = notes]
  /\ \/ /\ call.op = "key"
        /\ dirty' = [dirty EXCEPT ![b] = @ \cup {<<call.layer, call.cell>>}]
        /\ UNCHANGED <<saved, kept, faults>>
     \/ /\ call.op = "light"
        /\ Save(b, new, [notes EXCEPT !.keys = Forgetting(kept[b].keys, dirty[b])],
                        Noted(kept[b], b, call, FALSE))
        /\ UNCHANGED dirty
  /\ UNCHANGED <<area, confirmed, channels, committed>>

\* The write fails on the way: a GMK67 driver keeps what it had, a VIA board may obey.
WriteFails(b, call, new) ==
  /\ Fault
  /\ \/ UNCHANGED boardVars
     \/ b \notin Gmk /\ StoreVia(b, call, new, FALSE)

Write(c, b, accepted, new) ==
  /\ \/ ~accepted /\ Declined(c)
     \/ /\ accepted
        /\ IF b \in Gmk THEN StoreGmk(b, Call(c), new)
           ELSE StoreVia(b, Call(c), new, TRUE) /\ UNCHANGED faults
        /\ Answered(c, TRUE)
     \/ /\ accepted
        /\ WriteFails(b, Call(c), new)
        /\ Answered(c, FALSE)
  /\ UNCHANGED <<at, commands, moves, userVars>>

SetLighting(c, b) ==
  /\ Reaches(c, b) /\ Call(c).op = "light"
  /\ Write(c, b, LightAccepted(b, Call(c)), LightWritten(b, Call(c)))
SetKeycode(c, b) ==
  /\ Reaches(c, b) /\ Call(c).op = "key"
  /\ Write(c, b, KeyAccepted(b, Call(c)), KeyWritten(b, Call(c)))
SetMacro(c, b) ==
  /\ Reaches(c, b) /\ Call(c).op = "macro"
  /\ Write(c, b, MacroAccepted(b, Call(c).offset, Len(Call(c).data)), MacroWritten(b, Call(c)))

\* Reads are answered with what live holds, or fail a check or on the way.
Read(c, accepted) ==
  /\ \/ Answered(c, accepted) /\ UNCHANGED faults
     \/ Answered(c, FALSE) /\ Fault
  /\ UNCHANGED <<at, boardVars, commands, moves, userVars>>

GetLighting(c, b) == Reaches(c, b) /\ Call(c).op = "read light" /\ Read(c, TRUE)
GetKeycode(c, b) ==
  /\ Reaches(c, b) /\ Call(c).op = "read key"
  /\ Read(c, contains(b, Call(c).layer, Call(c).cell))
GetMacro(c, b) ==
  /\ Reaches(c, b) /\ Call(c).op = "read macro"
  /\ Read(c, MacroAccepted(b, Call(c).offset, Call(c).length))

\* A layer with edits is pushed whole, lowest layer first, page by page: the areas, when
\* the push stopped after so many pages of the layer stop, or came to its end.
KEY_DEF_PAGES == 9
Page(cell) == KeyIndex[cell] \div 16
dirty_layers(b) == {d[1] : d \in dirty[b]}
Overlaid(old, new, pages) ==
  [k \in {k \in DOMAIN new : Page(k) < pages} \cup {k \in DOMAIN old : Page(k) >= pages} |->
     IF Page(k) < pages THEN new[k] ELSE old[k]]
Pushed(b, stop, pages) ==
  [l \in Layers |-> IF l \notin dirty_layers(b) \/ l > stop THEN area[b][l]
                    ELSE IF l = stop THEN Overlaid(area[b][l], live[b].keys[l], pages)
                    ELSE live[b].keys[l]]

\* commit_to_nvram.  GMK67: edits are pushed, confirmed and saved, or rolled back, and then
\* the areas hold some of them.
ConfirmCommit(b) ==
  /\ area' = [area EXCEPT ![b] = Pushed(b, 4, 0)]
  /\ confirmed' = [confirmed EXCEPT ![b] = live[b].keys]
  /\ committed' = [committed EXCEPT ![b] = last[b].keys]
  /\ Save(b, live[b],
          [last[b] EXCEPT !.keys = [l \in Layers |-> IF l \in dirty_layers(b) THEN @[l]
                                                     ELSE kept[b].keys[l]]],
          [kept[b] EXCEPT !.keys = Forgetting(@, dirty[b])])
  /\ UNCHANGED <<live, last>>
Rollback(b) ==
  /\ Fault
  /\ \E stop \in dirty_layers(b), pages \in 0 .. KEY_DEF_PAGES :
       area' = [area EXCEPT ![b] = Pushed(b, stop, pages)]
  /\ live' = [live EXCEPT ![b].keys = confirmed[b]]
  /\ last' = [last EXCEPT ![b].keys = committed[b]]
  /\ kept' = [kept EXCEPT ![b].keys = Forgetting(@, dirty[b])]
  /\ UNCHANGED <<saved, confirmed, committed>>
CommitGmk(b, ok) ==
  \/ dirty[b] = {} /\ ok /\ UNCHANGED <<boardVars, faults>>
  \/ /\ dirty[b] # {}
     /\ IF ok THEN ConfirmCommit(b) ELSE Rollback(b)
     /\ dirty' = [dirty EXCEPT ![b] = {}]
     /\ UNCHANGED channels

\* VIA: the touched channels are saved one by one, in any order, up to the first that
\* fails; a save that fails may have been done, and firmware answers id_unhandled for a
\* channel it does not have.
SavedRGB(b) ==
  /\ saved' = [saved EXCEPT ![b].light = live[b].light]
  /\ kept' = [kept EXCEPT ![b].light = last[b].light]
CommitVia(b, ok) ==
  /\ UNCHANGED <<live, last, area, confirmed, committed, dirty>>
  /\ \/ /\ ok
        /\ channels[b] \subseteq {RGB}
        /\ channels' = [channels EXCEPT ![b] = {}]
        /\ IF channels[b] = {} THEN UNCHANGED <<saved, kept>> ELSE SavedRGB(b)
        /\ UNCHANGED faults
     \/ /\ ~ok
        /\ ~ channels[b] \subseteq {RGB}
        /\ \E done \in SUBSET (channels[b] \cap {RGB}) :
             /\ channels' = [channels EXCEPT ![b] = @ \ done]
             /\ IF done = {} THEN UNCHANGED <<saved, kept>> ELSE SavedRGB(b)
        /\ UNCHANGED faults
     \/ /\ ~ok
        /\ RGB \in channels[b]
        /\ SavedRGB(b) \/ UNCHANGED <<saved, kept>>
        /\ Fault
        /\ UNCHANGED channels

Commit(c, b) ==
  /\ Reaches(c, b)
  /\ Call(c).op = "commit"
  /\ \E ok \in BOOLEAN :
       /\ IF b \in Gmk THEN CommitGmk(b, ok) ELSE CommitVia(b, ok)
       /\ Answered(c, ok)
  /\ UNCHANGED <<at, commands, moves, userVars>>

\* The worker commits by itself half a second after the last edit.
AutoCommit(b) ==
  /\ dirty[b] # {}
  /\ \E ok \in BOOLEAN : CommitGmk(b, ok)
  /\ UNCHANGED <<at, proc, commands, moves, userVars>>

Next ==
  \/ \E i \in Ids, b \in Boards : Attach(i, b)
  \/ \E i \in Ids : Detach(i)
  \/ \E c \in Clients : List(c) \/ Resolve(c) \/ DeviceNotFound(c)
  \/ \E c \in Clients, cmd \in Commands, name \in Names : Run(c, cmd, name)
  \/ \E c \in Clients, b \in Boards :
       \/ SetLighting(c, b) \/ SetKeycode(c, b) \/ SetMacro(c, b) \/ Commit(c, b)
       \/ GetLighting(c, b) \/ GetKeycode(c, b) \/ GetMacro(c, b)
  \/ \E b \in Boards : AutoCommit(b)

Spec == Init /\ [][Next]_vars

-----------------------------------------------------------------------------
(* Properties. *)

KeymapOf(b, keys) ==
  \A l \in Layers :
    /\ DOMAIN keys[l] \subseteq IF b \in Gmk THEN Keyed ELSE (0 .. 15) \X (0 .. 15)
    /\ \A k \in DOMAIN keys[l] : keys[l][k] \in Keycode
    /\ b \in Gmk /\ keydef_command(l) = {} => keys[l] = <<>>

\* Values have their types.  A GMK67 keymap holds only keys its areas have, since a commit
\* would drop the others without a word (set_keycode's checks).
TypeOK ==
  /\ at \in [Ids -> Boards \cup {None}]
  /\ \A b \in Boards : \A s \in {live[b], saved[b]} :
       /\ s.light \in IF b \in Gmk THEN Lightings
                     ELSE [ViaValues -> [{1} -> Byte] \cup [{1, 2} -> Byte]]
       /\ KeymapOf(b, s.keys)
       /\ s.eeprom \in [0 .. EepromSize - 1 -> Byte]
  /\ \A b \in Boards : KeymapOf(b, area[b]) /\ KeymapOf(b, confirmed[b])
  /\ channels \in [Boards -> SUBSET Byte]
  /\ \A b \in Boards : dirty[b] \subseteq IF b \in Gmk THEN Layers \X Keyed ELSE {}
  /\ \A c \in Clients :
       /\ proc[c].pc \in {"idle", "resolving", "calling"}
       /\ proc[c].pc = "calling" => proc[c].id \in Ids
       /\ seen[c] \in [Ids -> Boards \cup {None}]
       /\ moved[c] \subseteq Ids
  /\ commands \in 0 .. MaxCommands /\ moves \in 0 .. MaxMoves /\ faults \in 0 .. MaxFaults

\* What lighting show reads.
Shown(b, light, v) == IF b \in Gmk THEN get_lighting(light, RGB, v) ELSE light[v]

\* A GMK67 board keeps 16 levels and a colour as RGB: levels come back within half a step,
\* effects as they are, colours with their saturation and, once shown, within 12 of 255.
Rendered(value, sent, got) ==
  CASE value \in {VIA_VALUE_BRIGHTNESS, VIA_VALUE_SPEED} -> Diff(sent[1], got[1]) <= 8
    [] value = VIA_VALUE_EFFECT -> got[1] = IF sent[1] = MODE_LIGHTS_OFF THEN 0 ELSE sent[1]
    [] value = VIA_VALUE_COLOR ->
         /\ got[2] = sent[2]
         /\ \A i \in 1 .. 3 : Diff(hs_to_rgb(sent[1], sent[2])[i], hs_to_rgb(got[1], got[2])[i]) <= 12

\* A field reads as its last acknowledged write, whatever other fields were written,
\* refused or lost between (lighting_with_via_value, the scales and colours of both ends).
\* A failed commit takes keys back to their last committed write (rollback), a replug every
\* field to its last persistent one (save_touched_channels, ShadowState::save and load, the
\* key-definition areas).  After a replug nothing is said of a GMK67 key that was edited
\* when a lighting was saved or a commit failed, until it is committed: the file or the
\* board may hold that edit or the key's older code.  Nor is anything said of what a save
\* or a load of the file has failed for.  Cells beyond a VIA board's matrix are
\* acknowledged and lost: the driver table gives every VIA board 16 rows and columns.
LastWriteHolds ==
  \A i \in Ids :
    LET b == at[i] IN
    b # None =>
      /\ \A v \in ViaValues :
           LET sent == last[b].light[v]
               got == Shown(b, live[b].light, v) IN
           sent # None => IF b \in Gmk THEN Rendered(v, sent, got) ELSE got = sent
      /\ \A l \in Layers : \A k \in DOMAIN last[b].keys[l] :
           (last[b].keys[l][k] # None /\ (b \in Gmk \/ OnFirmware(k))) =>
             k \in DOMAIN live[b].keys[l] /\ live[b].keys[l][k] = last[b].keys[l][k]
      /\ \A o \in DOMAIN last[b].eeprom :
           last[b].eeprom[o] # None => live[b].eeprom[o] = last[b].eeprom[o]

\* Two states of a board agree but for these fields.
SameElsewhere(b, fields, old, new) ==
  /\ \A v \in ViaValues :
       <<"light", v>> \notin fields => Shown(b, old.light, v) = Shown(b, new.light, v)
  /\ \A l \in Layers : \A k \in DOMAIN old.keys[l] \cup DOMAIN new.keys[l] :
       <<"key", l, k>> \notin fields =>
         /\ k \in DOMAIN old.keys[l] \cap DOMAIN new.keys[l]
         /\ old.keys[l][k] = new.keys[l][k]
  /\ \A o \in DOMAIN old.eeprom :
       <<"byte", o>> \notin fields \/ o >= MacroSize => old.eeprom[o] = new.eeprom[o]

\* While a board stays, only a call that names it changes what it holds, in the field the
\* call names and, of its EEPROM, inside the macro buffer (validate_macro_range); a
\* commit can only take back edits that were never committed.
WritesStayInTheirField ==
  [][\A i \in Ids :
       LET b == at[i] IN
       (b # None /\ at' = at) =>
         \/ live'[b] \in {live[b], [live[b] EXCEPT !.keys = confirmed[b]]}
         \/ \E c \in Clients :
              /\ Reaches(c, b) /\ proc'[c] # proc[c]
              /\ SameElsewhere(b, Fields(b, Call(c)), live[b], live'[b])]_vars

\* What the user of c means by a name: an id of the list read last, a line of it, or the
\* one line the name is part of; and the ids that must have kept their board since for
\* the name to mean the same.
NthLine(ids, n) == CHOOSE i \in ids : Cardinality({j \in ids : j < i}) = n
Meant(c) ==
  LET name == proc[c].name
      ids == Present(seen[c]) IN
  CASE name.exact \in ids -> [id |-> name.exact, mind |-> {name.exact}]
    [] name.exact \notin ids /\ name.index \in 0 .. Cardinality(ids) - 1 ->
         [id |-> NthLine(ids, name.index), mind |-> 1 .. NthLine(ids, name.index)]
    [] OTHER -> IF Cardinality(name.matches \cap ids) = 1
                THEN [id |-> CHOOSE i \in name.matches \cap ids : TRUE,
                      mind |-> IF name.index >= 0 THEN Ids ELSE name.matches \cup {name.exact}]
                ELSE [id |-> None, mind |-> Ids]

\* A command reaches the keyboard its user saw under that name, unless a keyboard that
\* matters to the name came or went meanwhile: for an index, one that is listed before it
\* (resolve_device, and the order of ListDevices).
NamedIsReached ==
  \A c \in Clients :
    (proc[c].pc = "calling" /\ Meant(c).mind \cap moved[c] = {}) =>
      Meant(c).id # None /\ at[proc[c].id] = seen[c][Meant(c).id]
=============================================================================

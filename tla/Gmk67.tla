-------------------------------- MODULE Gmk67 --------------------------------
(***************************************************************************)
(* The GMK67-family driver (hal/legacy/gmk67.rs) over its shadow state     *)
(* (hal/legacy/mod.rs): the keymap is edited in a host-side shadow, pushed *)
(* to the board one layer at a time by multi-frame transactions, rolled    *)
(* back when a push fails, and kept in a JSON file across restarts.        *)
(*                                                                         *)
(* The worker gives the driver one call at a time; every frame is a step,  *)
(* so it can fail, and the daemon can die, between any two frames, and     *)
(* before and after a save.  A key is named by its layer and by the page   *)
(* of the layer's area that carries it; edits are numbered, and 0 is a key *)
(* that was never remapped and the default lighting.                       *)
(***************************************************************************)
EXTENDS Integers, FiniteSets

CONSTANTS
  LastLayer,     \* layers are 0 .. LastLayer
  LastPage,      \* a layer's area has pages 1 .. LastPage (KEY_DEF_PAGES)
  SyncOnAttach,  \* devices.toml sync_on_attach
  MaxOps,        \* bound: edits and lighting changes
  MaxFaults,     \* bound: failed frames and loads
  MaxCrashes     \* bound: ends of the session, orderly or not

ASSUME ConstantsAssumption ==
  /\ LastLayer \in Nat
  /\ LastPage \in Nat \ {0}
  /\ SyncOnAttach \in BOOLEAN
  /\ {MaxOps, MaxFaults, MaxCrashes} \subseteq Nat

Layers == 0 .. LastLayer
Pages == 1 .. LastPage
Keys == Layers \X Pages
NoKeys == [k \in Keys |-> 0]

VARIABLES
  area,       \* board: what each page of each layer's key-definition area holds
  render,     \* board: the lighting shown
  custom,     \* board: in customization mode, inside a transaction
  file,       \* the JSON file
  keymap,     \* ShadowState.keymap
  confirmed,  \* ShadowState.confirmed
  dirty,      \* ShadowState.dirty, its positions
  status,     \* ShadowState.status
  light,      \* the driver's and the shadow's lighting
  activity,   \* "down", "idle", "keymap", "confirm", "committed", "render", "persist", "lit",
              \* "read", "abort"
  todo,       \* the layers the commit or the read-back still has to do
  frame,      \* the next frame of the transaction
  newLight,   \* the lighting being rendered
  ops, faults, crashes,
  acked,      \* history: per key, its value in the last acknowledged commit
  doneLight,  \* history: the last lighting whose call was done: acknowledged, or cut off
              \* before the answer by the end of the session
  pushed,     \* history: layers pushed so far by this commit
  tainted,    \* history: layers whose clean keys may differ between shadow and board
  fileTainted,\* history: layers that may differ between file and board
  diskFailed, \* history: some save or load failed
  unended     \* history: an abort frame was lost, or the daemon died in a transaction

boardVars == <<area, render, custom>>
shadowVars == <<keymap, confirmed, dirty, status>>
taskVars == <<activity, todo, frame, newLight>>
countVars == <<ops, faults, crashes>>
taintVars == <<pushed, tainted, fileTainted>>
historyVars == <<acked, doneLight, taintVars, diskFailed, unended>>
vars == <<boardVars, file, shadowVars, light, taskVars, countVars, historyVars>>

\* dirty_layers: the pending layers, lowest first.
DirtyLayers == {k[1] : k \in dirty}
Lowest(S) == CHOOSE l \in S : \A m \in S : l <= m
Layer == Lowest(todo)

\* The frames of a transaction: customization on, start page, the pages, end and,
\* but for a read-back, effect start.
On == 1
Start == 2
PageOf(f) == f - Start
IsPage(f) == PageOf(f) \in Pages
End == Start + LastPage + 1
EffectStart == End + 1
\* The render transaction carries one mode frame instead of the pages.
Mode == 3
RenderEnd == 4
RenderStart == 5

\* load: the file is the confirmed state of the new session.  A file that cannot be read
\* or parsed is left where it is, and the session starts with no keys and default lighting.
Fresh == [keymap |-> NoKeys, light |-> 0]
Loaded(readable) ==
  LET loaded == IF readable THEN file ELSE Fresh IN
  /\ keymap' = loaded.keymap
  /\ confirmed' = loaded.keymap
  /\ dirty' = {}
  /\ status' = "Confirmed"
  /\ light' = loaded.light

\* save: the file is replaced atomically, or left as it was (the error is swallowed).
\* The layers of unpushed that are in it, or were already, differ from the board.
\* Seeded faults: only the lighting is written; only the keymap is.
SaveLighting(ok, km, li, unpushed) ==
  /\ file' = [file EXCEPT !.light = li]
  /\ fileTainted' = unpushed
  /\ UNCHANGED diskFailed
SaveKeymap(ok, km, li, unpushed) ==
  /\ file' = [file EXCEPT !.keymap = km]
  /\ fileTainted' = unpushed
  /\ UNCHANGED diskFailed
Save(ok, km, li, unpushed) ==
  /\ file' = IF ok THEN [keymap |-> km, light |-> li] ELSE file
  /\ fileTainted' = IF ok THEN unpushed ELSE fileTainted
  /\ diskFailed' = (diskFailed \/ ~ok)

Init ==
  /\ area = NoKeys
  /\ render = 0
  /\ custom = FALSE
  /\ file = Fresh
  /\ keymap = NoKeys /\ confirmed = NoKeys /\ dirty = {} /\ status = "Confirmed"
  /\ light = 0
  /\ activity = "down" /\ todo = {} /\ frame = On /\ newLight = 0
  /\ ops = 0 /\ faults = 0 /\ crashes = 0
  /\ acked = NoKeys /\ doneLight = 0
  /\ pushed = {} /\ tainted = {} /\ fileTainted = {}
  /\ diskFailed = FALSE /\ unended = FALSE

-----------------------------------------------------------------------------
(* Frames. *)

Fails(failed) ==
  /\ failed => faults < MaxFaults
  /\ faults' = IF failed THEN faults + 1 ELSE faults

\* One feature report.  It fails with an error or by timeout, and a frame that timed
\* out may still have reached the board.
Send(o, landed) ==
  /\ o = "ok" => landed
  /\ Fails(o = "err")

\* What the two framing commands do to the board.
Framing(landed, on, end) ==
  custom' = IF landed /\ frame = on THEN TRUE
            ELSE IF landed /\ frame = end THEN FALSE
            ELSE custom

Goto(a, ls, f) == activity' = a /\ todo' = ls /\ frame' = f

-----------------------------------------------------------------------------
(* Attach: Gmk67Driver::new, then the topology query. *)

Attach(readable) ==
  /\ activity = "down"
  /\ Fails(~readable)
  /\ Loaded(readable)
  /\ IF SyncOnAttach THEN Goto("read", Layers, On) ELSE Goto("idle", {}, On)
  /\ tainted' = IF readable THEN fileTainted ELSE Layers
  /\ diskFailed' = (diskFailed \/ ~readable)
  /\ UNCHANGED <<boardVars, file, newLight, ops, crashes, acked, doneLight, pushed, fileTainted,
                 unended>>

\* sync_eeprom: what the layers read so far hold is adopted once it is complete.
\* Seeded fault: it is adopted layer by layer.
AnyLayerRead == TRUE
EveryLayerRead == todo = {Layer}
Entries == [k \in Keys |-> IF k[1] \in todo \ {Layer} THEN 0 ELSE area[k]]
AdoptConfirmed(saved) ==
  /\ keymap' = Entries
  /\ confirmed' = Entries
  /\ dirty' = {}
  /\ status' = "Confirmed"
  /\ tainted' = {}
  /\ Save(saved, Entries, light, {})

\* One frame of read_keydef_layer; any error aborts, and the loaded shadow is kept.
ReadFrame(o, landed, saved) ==
  /\ activity = "read"
  /\ Send(o, landed)
  /\ Framing(landed, On, End)
  /\ IF o = "ok" /\ frame = End /\ EveryLayerRead
     THEN AdoptConfirmed(saved)
     ELSE UNCHANGED <<shadowVars, file, tainted, fileTainted, diskFailed>>
  /\ CASE o = "err" -> Goto("abort", {}, frame)
       [] o = "ok" /\ frame < End -> Goto("read", todo, frame + 1)
       [] o = "ok" /\ frame = End /\ todo = {Layer} -> Goto("idle", {}, On)
       [] OTHER -> Goto("read", todo \ {Layer}, On)
  /\ UNCHANGED <<area, render, light, newLight, ops, crashes, acked, doneLight, pushed, unended>>

-----------------------------------------------------------------------------
(* Calls. *)

\* set_keycode: the shadow is edited.
SetKeycode(k) ==
  /\ activity = "idle"
  /\ ops < MaxOps
  /\ ops' = ops + 1
  /\ keymap' = [keymap EXCEPT ![k] = ops + 1]
  /\ dirty' = dirty \cup {k}
  /\ status' = "Pending"
  /\ UNCHANGED <<boardVars, file, confirmed, light, taskVars, faults, crashes, historyVars>>

\* set_lighting starts its render transaction.
SetLighting ==
  /\ activity = "idle"
  /\ ops < MaxOps
  /\ ops' = ops + 1
  /\ newLight' = ops + 1
  /\ Goto("render", {}, On)
  /\ UNCHANGED <<boardVars, file, shadowVars, light, faults, crashes, historyVars>>

\* One frame of render_effect.
RenderFrame(o, landed) ==
  /\ activity = "render"
  /\ Send(o, landed)
  /\ Framing(landed, On, RenderEnd)
  /\ render' = IF landed /\ frame = Mode THEN newLight ELSE render
  /\ CASE o = "err" -> Goto("abort", {}, frame)
       [] o = "ok" /\ frame < RenderStart -> Goto("render", {}, frame + 1)
       [] o = "ok" /\ frame = RenderStart -> Goto("persist", {}, On)
  /\ UNCHANGED <<area, file, shadowVars, light, newLight, ops, crashes, historyVars>>

\* After the last frame the lighting is adopted and the whole shadow saved, edits included.
Persist(saved) ==
  /\ activity = "persist"
  /\ light' = newLight
  /\ Save(saved, keymap, newLight, tainted \cup DirtyLayers)
  /\ Goto("lit", {}, On)
  /\ UNCHANGED <<boardVars, shadowVars, newLight, countVars, acked, doneLight, pushed, tainted,
                 unended>>

\* Seeded fault: clean layers are pushed too.
EveryLayer == Layers
LayersToPush == DirtyLayers

\* commit_to_nvram; a clean shadow has nothing to push.
Commit ==
  /\ activity = "idle"
  /\ dirty # {}
  /\ status' = "Pending"
  /\ Goto("keymap", LayersToPush, On)
  /\ pushed' = {}
  /\ UNCHANGED <<boardVars, file, keymap, confirmed, dirty, light, newLight, countVars,
                 acked, doneLight, tainted, fileTainted, diskFailed, unended>>

\* A page carries every remap of the layer, edited or not.
\* Seeded fault: only the edited keys are sent.
EditsOnly(k) == IF k \in dirty THEN keymap[k] ELSE 0
Entry(k) == keymap[k]

\* rollback: back to the last committed keymap; nothing is saved.
\* Seeded fault: the edits stay.
EditsKept == keymap
RolledBack == confirmed
Rollback ==
  /\ keymap' = RolledBack
  /\ dirty' = {}
  /\ status' = "Failed"
  /\ UNCHANGED confirmed

\* One frame of commit_keymap for the current layer.
CommitFrame(o, landed) ==
  /\ activity = "keymap"
  /\ Send(o, landed)
  /\ Framing(landed, On, End)
  /\ area' = IF landed /\ IsPage(frame)
             THEN [area EXCEPT ![<<Layer, PageOf(frame)>>] = Entry(<<Layer, PageOf(frame)>>)]
             ELSE area
  /\ fileTainted' = IF area' = area THEN fileTainted ELSE fileTainted \cup {Layer}
  /\ CASE o = "err" ->
            /\ Goto("abort", todo, frame)
            /\ tainted' = tainted \cup pushed \cup {Layer}
            /\ UNCHANGED pushed
       [] o = "ok" /\ frame < EffectStart ->
            Goto("keymap", todo, frame + 1) /\ UNCHANGED <<tainted, pushed>>
       [] o = "ok" /\ frame = EffectStart ->
            /\ Goto(IF todo = {Layer} THEN "confirm" ELSE "keymap", todo \ {Layer}, On)
            /\ pushed' = pushed \cup {Layer}
            /\ UNCHANGED tainted
  /\ UNCHANGED <<render, file, shadowVars, light, newLight, ops, crashes,
                 acked, doneLight, diskFailed, unended>>

\* confirm_commit: every layer was pushed.
ConfirmCommit(saved) ==
  /\ activity = "confirm"
  /\ confirmed' = keymap
  /\ dirty' = {}
  /\ status' = "Confirmed"
  /\ tainted' = tainted \ pushed
  /\ Save(saved, keymap, light, tainted \ pushed)
  /\ Goto("committed", {}, On)
  /\ UNCHANGED <<boardVars, keymap, light, newLight, countVars, acked, doneLight, pushed, unended>>

\* The caller is answered.
Answer ==
  /\ activity \in {"lit", "committed"}
  /\ IF activity = "lit"
     THEN doneLight' = light /\ UNCHANGED acked
     ELSE /\ acked' = [k \in Keys |-> IF k[1] \in pushed THEN keymap[k] ELSE acked[k]]
          /\ UNCHANGED doneLight
  /\ Goto("idle", {}, On)
  /\ UNCHANGED <<boardVars, file, shadowVars, light, newLight, countVars, taintVars, diskFailed,
                 unended>>

\* abort_transaction: best effort; a failed commit is then rolled back.
\* Seeded fault: a board that refused the first frame is not sent the abort.
AbortSkipped(landed) == landed /\ frame > Start
AbortLands(landed) == landed
Abort(o, landed) ==
  /\ activity = "abort"
  /\ Send(o, landed)
  /\ custom' = (custom /\ ~AbortLands(landed))
  /\ unended' = (IF landed THEN FALSE ELSE TRUE)
  /\ IF todo = {} THEN UNCHANGED shadowVars ELSE Rollback
  /\ Goto("idle", {}, On)
  /\ UNCHANGED <<area, render, file, light, newLight, ops, crashes,
                 acked, doneLight, taintVars, diskFailed>>

\* The session ends: the daemon is stopped or killed, or the board is pulled out.
\* The shadow is gone; the board and the file remain.
EndSession ==
  /\ activity # "down"
  /\ crashes < MaxCrashes
  /\ crashes' = crashes + 1
  /\ Goto("down", {}, On)
  /\ unended' = (unended \/ activity \in {"keymap", "render", "read", "abort"})
  /\ doneLight' = IF activity = "lit" THEN light ELSE doneLight
  /\ UNCHANGED <<boardVars, file, shadowVars, light, newLight, ops, faults,
                 acked, taintVars, diskFailed>>

-----------------------------------------------------------------------------
Next ==
  \/ \E readable \in BOOLEAN : Attach(readable)
  \/ \E o \in {"ok", "err"}, landed \in BOOLEAN, saved \in BOOLEAN : ReadFrame(o, landed, saved)
  \/ \E o \in {"ok", "err"}, landed \in BOOLEAN :
       RenderFrame(o, landed) \/ CommitFrame(o, landed) \/ Abort(o, landed)
  \/ \E k \in Keys : SetKeycode(k)
  \/ SetLighting
  \/ Commit
  \/ \E saved \in BOOLEAN : Persist(saved) \/ ConfirmCommit(saved)
  \/ Answer
  \/ EndSession

Spec == Init /\ [][Next]_vars

-----------------------------------------------------------------------------
(* Properties. *)

\* Types of the variables, and the shape of the driver's activity: only a commit and a
\* read-back work through layers, and the layers of a commit are dirty ones.
TypeOK ==
  /\ area \in [Keys -> Nat]
  /\ render \in Nat
  /\ custom \in BOOLEAN
  /\ file \in [keymap : [Keys -> Nat], light : Nat]
  /\ keymap \in [Keys -> Nat]
  /\ confirmed \in [Keys -> Nat]
  /\ dirty \subseteq Keys
  /\ status \in {"Confirmed", "Pending", "Failed"}
  /\ light \in Nat
  /\ activity \in {"down", "idle", "keymap", "confirm", "committed", "render", "persist", "lit",
                   "read", "abort"}
  /\ todo \subseteq Layers
  /\ activity \in {"keymap", "read"} => todo # {}
  /\ activity = "keymap" => todo \subseteq DirtyLayers
  /\ frame \in On .. EffectStart \cup On .. RenderStart
  /\ {newLight, ops, faults, crashes, doneLight} \subseteq Nat
  /\ acked \in [Keys -> Nat]
  /\ {pushed, tainted, fileTainted} \subseteq SUBSET Layers
  /\ {diskFailed, unended} \subseteq BOOLEAN

Up == activity # "down"

\* The shadow differs from its rollback target only where it is dirty, and it is dirty only
\* while pending (set_keycode, confirm_commit, rollback, adopt_confirmed).
ShadowConsistent ==
  Up => /\ \A k \in Keys \ dirty : keymap[k] = confirmed[k]
        /\ dirty # {} => status = "Pending"

\* An unedited key of the shadow, and so every read of it, differs from the board only
\* in a layer that a failed or interrupted commit had begun to push, that a lighting save
\* wrote with edits in it, or that a failed save left old in the file, and in any layer
\* after a load that failed; a later commit of the layer or a read-back heals it
\* (load, push_dirty_layers sends whole layers).
DriftConfined ==
  activity = "idle" =>
    \A k \in Keys \ dirty : k[1] \notin tainted => keymap[k] = area[k]

\* Between calls the board is in customization mode only if an abort frame was lost or
\* the daemon died in a transaction (abort_transaction after any failed frame).
LeavesCustomization == (activity = "idle" /\ custom) => unended

\* As long as every save and every load succeeds, an acknowledged commit is never lost:
\* not by a failed later commit and its rollback, not by a crash at any frame or around a
\* save, not by a restart or a read-back.  (Edits are numbered, so a larger value is a
\* later edit.)
CommittedSurvives ==
  ~diskFailed =>
    \A k \in Keys :
      /\ area[k] >= acked[k]
      /\ file.keymap[k] >= acked[k]
      /\ Up => keymap[k] >= acked[k] /\ confirmed[k] >= acked[k]

\* The lighting a restart loads is the last whose call was done, unless a save or a load
\* failed: an acknowledged one is in the file wherever the session ends, one whose render
\* failed never is, and a keymap save writes no older one (set_lighting, persist_lighting).
LightingSurvives ==
  ~diskFailed =>
    /\ file.light = IF activity = "lit" THEN newLight ELSE doneLight
    /\ Up => light = file.light

\* "a later commit can never push a half-read keymap to the board": a read-back changes
\* the shadow only to what the whole board holds (sync_eeprom).
ReadBackWhole == [][(activity = "read" /\ keymap' # keymap) => keymap' = area]_vars

-----------------------------------------------------------------------------
(* Documented properties that the code does not have. *)

\* "The engine never observes stale state through get_keycode": what is read back for an
\* unedited key is what the board holds.
NeverStale == activity = "idle" => \A k \in Keys \ dirty : keymap[k] = area[k]
=============================================================================

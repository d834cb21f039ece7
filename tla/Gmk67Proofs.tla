----------------------------- MODULE Gmk67Proofs -----------------------------
(***************************************************************************)
(* Proofs about Gmk67: for any number of layers and pages, frames that     *)
(* fail or land late, crashes, and loads and saves that fail, the driver   *)
(* keeps its promises about the shadow, the board and the file.            *)
(***************************************************************************)
EXTENDS Gmk67, WellFoundedInduction, TLAPS

\* Frames stay within the transaction they belong to.
FrameShape ==
  /\ activity = "render" => frame <= RenderStart
  /\ activity = "read" => frame <= End

-----------------------------------------------------------------------------
(* Lemmas about layers and frames. *)

\* A set of layers that is not empty has a lowest one.
LEMMA LowestIsMember ==
  ASSUME NEW S, S \subseteq Layers, S # {}
  PROVE  Lowest(S) \in S
<1>1. S \subseteq Nat
  BY ConstantsAssumption DEF Layers
<1>2. PICK l \in S : \A m \in S : <<m, l>> \notin OpToRel(<, Nat)
  BY <1>1, WFMin, NatLessThanWellFounded, Zenon
<1>3. \A m \in S : ~(m < l)
  BY <1>1, <1>2, Zenon DEF OpToRel
<1>4. \E x \in S : \A m \in S : x <= m
  BY <1>1, <1>3
<1>5. QED
  BY <1>4 DEF Lowest

\* The layer at work is one of those to do.
LEMMA LayerToDo ==
  ASSUME TypeOK, activity \in {"keymap", "read"}
  PROVE  Layer \in todo /\ Layer \in Layers
  BY LowestIsMember DEF TypeOK, Layer

\* The frames of the transactions, in order.
LEMMA FrameOrder ==
  /\ LastPage \in Nat /\ LastPage >= 1
  /\ On = 1 /\ Start = 2 /\ End = LastPage + 3 /\ EffectStart = LastPage + 4
  /\ Mode = 3 /\ RenderEnd = 4 /\ RenderStart = 5
  BY ConstantsAssumption DEF On, Start, End, EffectStart, Mode, RenderEnd, RenderStart

\* A page frame of a layer carries a key of that layer.
LEMMA PageKeys ==
  ASSUME NEW l \in Layers, NEW f, IsPage(f)
  PROVE  <<l, PageOf(f)>> \in Keys
  BY DEF IsPage, Keys

-----------------------------------------------------------------------------
(* What a frame may come to. *)

\* A frame of a commit fails, or another one follows, or the layer is done.
LEMMA CommitFrameCases ==
  ASSUME TypeOK, NEW o \in {"ok", "err"}, NEW landed \in BOOLEAN, CommitFrame(o, landed)
  PROVE  \/ /\ o = "err"
            /\ activity' = "abort" /\ todo' = todo /\ frame' = frame
            /\ tainted' = tainted \cup pushed \cup {Layer} /\ pushed' = pushed
         \/ /\ o = "ok" /\ landed /\ frame < EffectStart
            /\ activity' = "keymap" /\ todo' = todo /\ frame' = frame + 1
            /\ tainted' = tainted /\ pushed' = pushed
         \/ /\ o = "ok" /\ landed /\ frame = EffectStart
            /\ activity' = IF todo = {Layer} THEN "confirm" ELSE "keymap"
            /\ todo' = todo \ {Layer} /\ frame' = On
            /\ tainted' = tainted /\ pushed' = pushed \cup {Layer}
<1>1. frame \in Int /\ frame <= EffectStart
  BY FrameOrder DEF TypeOK
<1>2. o = "ok" => landed
  BY DEF CommitFrame, Send
<1>3. CASE o = "err"
  BY <1>3 DEF CommitFrame, Goto
<1>4. CASE o = "ok" /\ frame < EffectStart
  BY <1>2, <1>4 DEF CommitFrame, Goto
<1>5. CASE o = "ok" /\ frame = EffectStart
  BY <1>1, <1>2, <1>5, FrameOrder DEF CommitFrame, Goto
<1>6. QED
  BY <1>1, <1>3, <1>4, <1>5, FrameOrder

\* A frame of a read-back fails, or another one follows, or the layer is read.
LEMMA ReadFrameCases ==
  ASSUME TypeOK, FrameShape, NEW o \in {"ok", "err"}, NEW landed \in BOOLEAN,
         NEW saved \in BOOLEAN, ReadFrame(o, landed, saved)
  PROVE  /\ o = "ok" => landed
         /\ \/ /\ o = "err"
               /\ activity' = "abort" /\ todo' = {} /\ frame' = frame
               /\ UNCHANGED <<shadowVars, file, tainted, fileTainted, diskFailed>>
            \/ /\ o = "ok" /\ frame < End
               /\ activity' = "read" /\ todo' = todo /\ frame' = frame + 1
               /\ UNCHANGED <<shadowVars, file, tainted, fileTainted, diskFailed>>
            \/ /\ o = "ok" /\ frame = End /\ todo = {Layer}
               /\ activity' = "idle" /\ todo' = {} /\ frame' = On
               /\ AdoptConfirmed(saved)
            \/ /\ o = "ok" /\ frame = End /\ todo # {Layer}
               /\ activity' = "read" /\ todo' = todo \ {Layer} /\ frame' = On
               /\ UNCHANGED <<shadowVars, file, tainted, fileTainted, diskFailed>>
<1>1. frame \in Int /\ End \in Int /\ frame <= End
  BY FrameOrder DEF TypeOK, FrameShape, ReadFrame
<1>2. o = "ok" => landed
  BY DEF ReadFrame, Send
<1>3. CASE o = "err"
  BY <1>2, <1>3 DEF ReadFrame, Goto
<1>4. CASE o = "ok" /\ frame < End
  BY <1>1, <1>2, <1>4 DEF ReadFrame, Goto
<1>5. CASE o = "ok" /\ frame = End /\ todo = {Layer}
  BY <1>1, <1>2, <1>5 DEF ReadFrame, Goto, EveryLayerRead
<1>6. CASE o = "ok" /\ frame = End /\ todo # {Layer}
  BY <1>1, <1>2, <1>6 DEF ReadFrame, Goto, EveryLayerRead
<1>7. QED
  BY <1>1, <1>3, <1>4, <1>5, <1>6

\* A frame of a render fails, or another one follows, or the render is done.
LEMMA RenderFrameCases ==
  ASSUME TypeOK, FrameShape, NEW o \in {"ok", "err"}, NEW landed \in BOOLEAN,
         RenderFrame(o, landed)
  PROVE  /\ o = "ok" => landed
         /\ todo' = {}
         /\ \/ /\ o = "err"
               /\ activity' = "abort" /\ frame' = frame
            \/ /\ o = "ok" /\ frame < RenderStart
               /\ activity' = "render" /\ frame' = frame + 1
            \/ /\ o = "ok" /\ frame = RenderStart
               /\ activity' = "persist" /\ frame' = On
<1>1. frame \in Int /\ RenderStart \in Int /\ frame <= RenderStart
  BY FrameOrder DEF TypeOK, FrameShape, RenderFrame
<1>2. o = "ok" => landed
  BY DEF RenderFrame, Send
<1>3. CASE o = "err"
  BY <1>2, <1>3 DEF RenderFrame, Goto
<1>4. CASE o = "ok" /\ frame < RenderStart
  <2>1. frame # RenderStart /\ o # "err"
    BY <1>1, <1>4
  <2>2. Goto("render", {}, frame + 1)
    BY <1>4, <2>1 DEF RenderFrame
  <2>3. QED
    BY <1>2, <1>4, <2>2 DEF Goto
<1>5. CASE o = "ok" /\ frame = RenderStart
  BY <1>1, <1>2, <1>5 DEF RenderFrame, Goto
<1>6. QED
  BY <1>1, <1>3, <1>4, <1>5

-----------------------------------------------------------------------------
(* Type correctness. *)

LEMMA InitTypes == Init => TypeOK /\ FrameShape
<1> SUFFICES ASSUME Init PROVE TypeOK /\ FrameShape
  OBVIOUS
<1>1. NoKeys \in [Keys -> Nat]
  BY DEF NoKeys
<1>2. /\ area \in [Keys -> Nat] /\ keymap \in [Keys -> Nat] /\ confirmed \in [Keys -> Nat]
      /\ acked \in [Keys -> Nat]
      /\ file \in [keymap : [Keys -> Nat], light : Nat]
  BY <1>1 DEF Init, Fresh
<1>3. frame \in On .. EffectStart /\ activity = "down"
  BY FrameOrder DEF Init
<1>4. /\ dirty \subseteq Keys /\ todo \subseteq Layers /\ render \in Nat /\ light \in Nat
      /\ {newLight, ops, faults, crashes, doneLight} \subseteq Nat
      /\ {pushed, tainted, fileTainted} \subseteq SUBSET Layers
      /\ status = "Confirmed"
  BY DEF Init
<1>5. custom \in BOOLEAN /\ diskFailed \in BOOLEAN /\ unended \in BOOLEAN
  BY Zenon DEF Init
<1>6. {diskFailed, unended} \subseteq BOOLEAN
  BY <1>5, Zenon
<1>7. TypeOK
  BY <1>2, <1>3, <1>4, <1>5, <1>6 DEF TypeOK
<1>8. QED
  BY <1>3, <1>7 DEF FrameShape

\* A save keeps the file a keymap and a lighting.
LEMMA SaveTypes ==
  ASSUME TypeOK, NEW ok \in BOOLEAN, NEW km \in [Keys -> Nat], NEW li \in Nat,
         NEW unpushed \in SUBSET Layers, Save(ok, km, li, unpushed)
  PROVE  /\ file' \in [keymap : [Keys -> Nat], light : Nat]
         /\ fileTainted' \in SUBSET Layers
         /\ diskFailed' \in BOOLEAN
  BY DEF TypeOK, Save

LEMMA DirtyLayersAreLayers ==
  ASSUME TypeOK
  PROVE  DirtyLayers \subseteq Layers
  BY DEF TypeOK, DirtyLayers, Keys

\* The calls that are not frames.
LEMMA CallTypes ==
  ASSUME TypeOK, FrameShape,
         \/ \E readable \in BOOLEAN : Attach(readable)
         \/ \E k \in Keys : SetKeycode(k)
         \/ SetLighting \/ Commit \/ Answer \/ EndSession
  PROVE  (TypeOK /\ FrameShape)'
<1>1. ASSUME NEW readable \in BOOLEAN, Attach(readable)
      PROVE  (TypeOK /\ FrameShape)'
  <2>1. Layers # {} /\ 0 \in Layers
    BY ConstantsAssumption DEF Layers
  <2>2. /\ keymap' \in [Keys -> Nat] /\ confirmed' \in [Keys -> Nat] /\ light' \in Nat
        /\ dirty' = {} /\ status' = "Confirmed"
    BY <1>1 DEF Attach, Loaded, Fresh, NoKeys, TypeOK
  <2>3. /\ activity' \in {"read", "idle"} /\ todo' \subseteq Layers /\ frame' = On
        /\ activity' = "read" => todo' # {}
    BY <1>1, <2>1 DEF Attach, Goto
  <2>4. faults' \in Nat /\ tainted' \subseteq Layers /\ diskFailed' \in BOOLEAN
    BY <1>1 DEF Attach, Fails, TypeOK
  <2>5. QED
    BY <1>1, <2>2, <2>3, <2>4, FrameOrder DEF Attach, TypeOK, FrameShape, boardVars
<1>2. ASSUME NEW k \in Keys, SetKeycode(k)
      PROVE  (TypeOK /\ FrameShape)'
  BY <1>2, FrameOrder DEF SetKeycode, TypeOK, FrameShape, boardVars, taskVars, historyVars, taintVars
<1>3. CASE SetLighting
  BY <1>3, FrameOrder DEF SetLighting, Goto, TypeOK, FrameShape, boardVars, shadowVars, historyVars,
                          taintVars
<1>4. CASE Commit
  <2>1. DirtyLayers # {} /\ DirtyLayers \subseteq Layers
    BY <1>4, DirtyLayersAreLayers DEF Commit, DirtyLayers
  <2>2. DirtyLayers' = DirtyLayers
    BY <1>4 DEF Commit, DirtyLayers
  <2>3. activity' = "keymap" /\ todo' = DirtyLayers /\ frame' = On
    BY <1>4 DEF Commit, Goto, LayersToPush
  <2>4. QED
    BY <1>4, <2>1, <2>2, <2>3, FrameOrder DEF Commit, TypeOK, FrameShape, boardVars, countVars
<1>5. CASE Answer
  <2>1. acked' \in [Keys -> Nat] /\ doneLight' \in Nat
    BY <1>5 DEF Answer, TypeOK
  <2>2. QED
    BY <1>5, <2>1, FrameOrder DEF Answer, Goto, TypeOK, FrameShape, boardVars, shadowVars,
                                  countVars, taintVars
<1>6. CASE EndSession
  BY <1>6, FrameOrder DEF EndSession, Goto, TypeOK, FrameShape, boardVars, shadowVars, taintVars
<1>7. QED
  BY <1>1, <1>2, <1>3, <1>4, <1>5, <1>6

LEMMA SentTypes ==
  ASSUME TypeOK, NEW o \in {"ok", "err"}, NEW landed \in BOOLEAN, Send(o, landed)
  PROVE  faults' \in Nat
  BY DEF TypeOK, Send, Fails

LEMMA ReadTypes ==
  ASSUME TypeOK, FrameShape, NEW o \in {"ok", "err"}, NEW landed \in BOOLEAN,
         NEW saved \in BOOLEAN, ReadFrame(o, landed, saved)
  PROVE  (TypeOK /\ FrameShape)'
<1>1. faults' \in Nat
  BY SentTypes DEF ReadFrame
<1>2. custom' \in BOOLEAN
  BY DEF ReadFrame, Framing, TypeOK
<1>3. activity = "read" /\ todo # {} /\ todo \subseteq Layers
  BY DEF ReadFrame, TypeOK
<1>4. UNCHANGED <<area, render, light, newLight, ops, crashes, acked, doneLight, pushed, unended>>
  BY DEF ReadFrame
<1>5. /\ activity' \in {"abort", "read", "idle"}
      /\ todo' \subseteq Layers
      /\ activity' = "read" => todo' # {}
      /\ frame' \in On .. EffectStart
      /\ activity' = "read" => frame' <= End
  <2>1. frame \in Int /\ On <= frame /\ frame <= EffectStart
    BY FrameOrder DEF TypeOK
  <2>2. QED
    BY <1>3, <2>1, ReadFrameCases, FrameOrder
<1>6. /\ shadowVars' = shadowVars \/ AdoptConfirmed(saved)
      /\ <<file, tainted, fileTainted, diskFailed>>' = <<file, tainted, fileTainted, diskFailed>>
           \/ AdoptConfirmed(saved)
  BY ReadFrameCases
<1>7. CASE AdoptConfirmed(saved)
  <2>1. Entries \in [Keys -> Nat]
    BY DEF Entries, TypeOK
  <2>2. /\ file' \in [keymap : [Keys -> Nat], light : Nat]
        /\ fileTainted' \in SUBSET Layers
        /\ diskFailed' \in BOOLEAN
    BY <1>7, <2>1, SaveTypes DEF AdoptConfirmed, TypeOK
  <2>3. QED
    BY <1>1, <1>2, <1>4, <1>5, <1>7, <2>1, <2>2 DEF AdoptConfirmed, TypeOK, FrameShape
<1>8. CASE ~AdoptConfirmed(saved)
  <2>1. UNCHANGED <<shadowVars, file, tainted, fileTainted, diskFailed>>
    BY <1>6, <1>8
  <2>2. QED
    BY <1>1, <1>2, <1>4, <1>5, <2>1 DEF TypeOK, FrameShape, shadowVars
<1>9. QED
  BY <1>7, <1>8

LEMMA RenderTypes ==
  ASSUME TypeOK, FrameShape, NEW o \in {"ok", "err"}, NEW landed \in BOOLEAN,
         RenderFrame(o, landed)
  PROVE  (TypeOK /\ FrameShape)'
<1>1. faults' \in Nat
  BY SentTypes DEF RenderFrame
<1>2. custom' \in BOOLEAN /\ render' \in Nat
  BY DEF RenderFrame, Framing, TypeOK
<1>3. UNCHANGED <<area, file, keymap, confirmed, dirty, status, light, newLight, ops, crashes,
                  acked, doneLight, pushed, tainted, fileTainted, diskFailed, unended>>
  BY DEF RenderFrame, shadowVars, historyVars, taintVars
<1>4. /\ activity' \in {"abort", "render", "persist"}
      /\ todo' = {}
      /\ frame' \in On .. EffectStart \cup On .. RenderStart
      /\ activity' = "render" => frame' <= RenderStart
  <2>1. frame \in Int /\ On <= frame
    BY FrameOrder DEF TypeOK
  <2>2. frame <= RenderStart
    BY DEF FrameShape, RenderFrame
  <2>3. QED
    BY <2>1, <2>2, RenderFrameCases, FrameOrder
<1>5. QED
  BY <1>1, <1>2, <1>3, <1>4 DEF TypeOK, FrameShape

LEMMA PersistTypes ==
  ASSUME TypeOK, FrameShape, NEW saved \in BOOLEAN, Persist(saved)
  PROVE  (TypeOK /\ FrameShape)'
<1>1. /\ file' \in [keymap : [Keys -> Nat], light : Nat]
      /\ fileTainted' \in SUBSET Layers
      /\ diskFailed' \in BOOLEAN
  <2>1. keymap \in [Keys -> Nat] /\ newLight \in Nat /\ tainted \cup DirtyLayers \in SUBSET Layers
    BY DirtyLayersAreLayers DEF TypeOK
  <2>2. QED
    BY <2>1, SaveTypes DEF Persist
<1>2. activity' = "lit" /\ todo' = {} /\ frame' \in On .. EffectStart
  BY FrameOrder DEF Persist, Goto
<1>3. QED
  BY <1>1, <1>2 DEF Persist, TypeOK, FrameShape, boardVars, shadowVars, countVars

LEMMA CommitTypes ==
  ASSUME TypeOK, FrameShape, NEW o \in {"ok", "err"}, NEW landed \in BOOLEAN,
         CommitFrame(o, landed)
  PROVE  (TypeOK /\ FrameShape)'
<1>1. faults' \in Nat
  BY SentTypes DEF CommitFrame
<1>2. custom' \in BOOLEAN
  BY DEF CommitFrame, Framing, TypeOK
<1>3. Layer \in todo /\ Layer \in Layers /\ todo \subseteq DirtyLayers /\ todo \subseteq Layers
  BY LayerToDo DEF CommitFrame, TypeOK
<1>4. area' \in [Keys -> Nat]
  <2>1. \A k \in Keys : Entry(k) \in Nat
    BY DEF Entry, TypeOK
  <2>2. IsPage(frame) => <<Layer, PageOf(frame)>> \in Keys
    BY <1>3, PageKeys
  <2>3. QED
    BY <2>1, <2>2 DEF CommitFrame, TypeOK
<1>5. UNCHANGED <<render, file, keymap, confirmed, dirty, status, light, newLight, ops, crashes,
                  acked, doneLight, diskFailed, unended>>
  BY DEF CommitFrame, shadowVars
<1>6. fileTainted' \subseteq Layers
  BY <1>3 DEF CommitFrame, TypeOK
<1>7. pushed' \subseteq Layers /\ tainted' \subseteq Layers
  BY <1>3, CommitFrameCases DEF TypeOK
<1>8. /\ activity' \in {"abort", "keymap", "confirm"}
      /\ todo' \subseteq DirtyLayers /\ todo' \subseteq Layers
      /\ activity' = "keymap" => todo' # {}
      /\ frame' \in On .. EffectStart
  <2>1. frame \in Int /\ On <= frame /\ frame <= EffectStart
    BY FrameOrder DEF TypeOK
  <2>2. QED
    BY <1>3, <2>1, CommitFrameCases, FrameOrder
<1>9. DirtyLayers' = DirtyLayers
  BY <1>5 DEF DirtyLayers
<1>10. QED
  BY <1>1, <1>2, <1>4, <1>5, <1>6, <1>7, <1>8, <1>9 DEF TypeOK, FrameShape

LEMMA ConfirmTypes ==
  ASSUME TypeOK, FrameShape, NEW saved \in BOOLEAN, ConfirmCommit(saved)
  PROVE  (TypeOK /\ FrameShape)'
<1>1. acked' \in [Keys -> Nat]
  BY DEF ConfirmCommit, TypeOK
<1>2. /\ file' \in [keymap : [Keys -> Nat], light : Nat]
      /\ fileTainted' \in SUBSET Layers
      /\ diskFailed' \in BOOLEAN
  <2>1. keymap \in [Keys -> Nat] /\ light \in Nat /\ tainted \ pushed \in SUBSET Layers
    BY DEF TypeOK
  <2>2. QED
    BY <2>1, SaveTypes DEF ConfirmCommit
<1>3. activity' = "committed" /\ todo' = {} /\ frame' \in On .. EffectStart
  BY FrameOrder DEF ConfirmCommit, Goto
<1>4. QED
  BY <1>1, <1>2, <1>3 DEF ConfirmCommit, TypeOK, FrameShape, boardVars, countVars

LEMMA AbortTypes ==
  ASSUME TypeOK, FrameShape, NEW o \in {"ok", "err"}, NEW landed \in BOOLEAN, Abort(o, landed)
  PROVE  (TypeOK /\ FrameShape)'
<1>1. faults' \in Nat
  BY SentTypes DEF Abort
<1>2. custom' \in BOOLEAN /\ unended' \in BOOLEAN
  BY DEF Abort, TypeOK
<1>3. /\ keymap' \in [Keys -> Nat]
      /\ confirmed' \in [Keys -> Nat]
      /\ dirty' \subseteq Keys
      /\ status' \in {"Confirmed", "Pending", "Failed"}
  BY DEF Abort, Rollback, RolledBack, TypeOK, shadowVars
<1>4. activity' = "idle" /\ todo' = {} /\ frame' \in On .. EffectStart
  BY FrameOrder DEF Abort, Goto
<1>5. QED
  BY <1>1, <1>2, <1>3, <1>4 DEF Abort, TypeOK, FrameShape, taintVars

LEMMA NextTypes == TypeOK /\ FrameShape /\ [Next]_vars => (TypeOK /\ FrameShape)'
<1> SUFFICES ASSUME TypeOK, FrameShape, [Next]_vars
             PROVE  (TypeOK /\ FrameShape)'
  OBVIOUS
<1>1. CASE UNCHANGED vars
  BY <1>1 DEF vars, boardVars, shadowVars, taskVars, countVars, historyVars, taintVars, TypeOK,
              FrameShape, DirtyLayers
<1>2. CASE Next
  BY <1>2, CallTypes, ReadTypes, RenderTypes, PersistTypes, CommitTypes, ConfirmTypes, AbortTypes
     DEF Next
<1>3. QED
  BY <1>1, <1>2

\* In every reachable state all variables have their types, and only dirty layers are
\* being pushed (push_dirty_layers, sync_eeprom).
THEOREM TypeCorrect == Spec => []TypeOK
<1>1. QED
  BY InitTypes, NextTypes, PTL DEF Spec

\* The same with the frames, for the proofs below.
LEMMA Typed == Spec => [](TypeOK /\ FrameShape)
<1>1. QED
  BY InitTypes, NextTypes, PTL DEF Spec

-----------------------------------------------------------------------------
(* The shadow's bookkeeping. *)

LEMMA InitShadow == Init => ShadowConsistent
  BY DEF Init, ShadowConsistent, Up

LEMMA NextShadow == TypeOK /\ FrameShape /\ ShadowConsistent /\ [Next]_vars => ShadowConsistent'
<1> SUFFICES ASSUME TypeOK, FrameShape, ShadowConsistent, [Next]_vars
             PROVE  ShadowConsistent'
  OBVIOUS
<1> USE DEF ShadowConsistent, Up
<1>1. ASSUME NEW readable \in BOOLEAN, Attach(readable)
      PROVE  ShadowConsistent'
  BY <1>1 DEF Attach, Loaded
<1>2. ASSUME NEW o \in {"ok", "err"}, NEW landed \in BOOLEAN, NEW saved \in BOOLEAN,
             ReadFrame(o, landed, saved)
      PROVE  ShadowConsistent'
  <2>1. CASE AdoptConfirmed(saved)
    BY <2>1 DEF AdoptConfirmed
  <2>2. CASE UNCHANGED shadowVars
    BY <1>2, <2>2 DEF ReadFrame, shadowVars
  <2>3. QED
    BY <1>2, <2>1, <2>2, ReadFrameCases
<1>3. ASSUME NEW o \in {"ok", "err"}, NEW landed \in BOOLEAN, RenderFrame(o, landed)
      PROVE  ShadowConsistent'
  BY <1>3 DEF RenderFrame, shadowVars
<1>4. ASSUME NEW o \in {"ok", "err"}, NEW landed \in BOOLEAN, CommitFrame(o, landed)
      PROVE  ShadowConsistent'
  BY <1>4 DEF CommitFrame, shadowVars
<1>5. ASSUME NEW o \in {"ok", "err"}, NEW landed \in BOOLEAN, Abort(o, landed)
      PROVE  ShadowConsistent'
  BY <1>5 DEF Abort, Rollback, RolledBack, shadowVars
<1>6. ASSUME NEW k \in Keys, SetKeycode(k)
      PROVE  ShadowConsistent'
  BY <1>6 DEF SetKeycode, TypeOK
<1>7. CASE SetLighting \/ Answer
  BY <1>7 DEF SetLighting, Answer, shadowVars
<1>8. CASE Commit
  BY <1>8 DEF Commit
<1>9. ASSUME NEW saved \in BOOLEAN, Persist(saved) \/ ConfirmCommit(saved)
      PROVE  ShadowConsistent'
  BY <1>9 DEF Persist, ConfirmCommit, shadowVars
<1>10. CASE EndSession
  BY <1>10 DEF EndSession, Goto
<1>11. CASE UNCHANGED vars
  BY <1>11 DEF vars, shadowVars, taskVars
<1>12. QED
  BY <1>1, <1>2, <1>3, <1>4, <1>5, <1>6, <1>7, <1>8, <1>9, <1>10, <1>11 DEF Next

\* Edits, failed and confirmed commits, restarts and read-backs leave the shadow different
\* from its rollback target only where it is dirty (set_keycode, rollback, confirm_commit).
THEOREM ShadowConsistentHolds == Spec => []ShadowConsistent
<1>1. QED
  BY Typed, InitShadow, NextShadow, PTL DEF Spec

-----------------------------------------------------------------------------
(* The lighting. *)

LEMMA InitLighting == Init => LightingSurvives
  BY DEF Init, Fresh, LightingSurvives, Up

\* A save that does not fail writes the lighting it is given.
LEMMA SavedLighting ==
  ASSUME NEW ok \in BOOLEAN, NEW km, NEW li, NEW unpushed, Save(ok, km, li, unpushed)
  PROVE  ~diskFailed' => ~diskFailed /\ file'.light = li /\ file'.keymap = km
  BY DEF Save

\* What the steps that leave the lighting alone have in common.
LightUntouched ==
  /\ Up /\ activity # "lit" /\ activity' # "lit"
  /\ UNCHANGED <<file, light, doneLight, diskFailed>>

LEMMA NextLighting == TypeOK /\ FrameShape /\ LightingSurvives /\ [Next]_vars => LightingSurvives'
<1> SUFFICES ASSUME TypeOK, FrameShape, LightingSurvives, [Next]_vars, ~diskFailed'
             PROVE  /\ file'.light = IF activity' = "lit" THEN newLight' ELSE doneLight'
                    /\ Up' => light' = file'.light
  BY DEF LightingSurvives
<1> DEFINE Goal == /\ file'.light = IF activity' = "lit" THEN newLight' ELSE doneLight'
                   /\ Up' => light' = file'.light
<1>1. ASSUME NEW readable \in BOOLEAN, Attach(readable)
      PROVE  Goal
  <2>1. activity = "down" /\ activity' # "lit"
    BY <1>1 DEF Attach, Goto
  <2>2. readable /\ ~diskFailed
    BY <1>1 DEF Attach
  <2>3. light' = file.light /\ file' = file /\ doneLight' = doneLight
    BY <1>1, <2>2 DEF Attach, Loaded
  <2>4. QED
    BY <2>1, <2>2, <2>3 DEF LightingSurvives
<1>2. ASSUME LightUntouched
      PROVE  Goal
  BY <1>2 DEF LightUntouched, LightingSurvives
<1>3. ASSUME NEW o \in {"ok", "err"}, NEW landed \in BOOLEAN, NEW saved \in BOOLEAN,
             ReadFrame(o, landed, saved)
      PROVE  Goal
  <2>1. /\ activity = "read" /\ activity' \in {"read", "idle", "abort"}
        /\ light' = light /\ doneLight' = doneLight
    BY <1>3, ReadFrameCases DEF ReadFrame
  <2>2. CASE AdoptConfirmed(saved)
    <3>1. ~diskFailed /\ file'.light = light
      BY <2>2, SavedLighting DEF AdoptConfirmed
    <3>2. QED
      BY <2>1, <3>1 DEF LightingSurvives, Up
  <2>3. CASE UNCHANGED <<file, diskFailed>>
    BY <1>2, <2>1, <2>3 DEF LightUntouched, Up
  <2>4. QED
    BY <1>3, <2>2, <2>3, ReadFrameCases
<1>4. ASSUME NEW o \in {"ok", "err"}, NEW landed \in BOOLEAN,
             RenderFrame(o, landed) \/ CommitFrame(o, landed) \/ Abort(o, landed)
      PROVE  Goal
  <2>1. /\ activity \in {"render", "keymap", "abort"}
        /\ UNCHANGED <<file, light, doneLight, diskFailed>>
    BY <1>4 DEF RenderFrame, CommitFrame, Abort, historyVars
  <2>2. activity' # "lit"
    BY <1>4, RenderFrameCases, CommitFrameCases DEF Abort, Goto
  <2>3. QED
    BY <1>2, <2>1, <2>2 DEF LightUntouched, Up
<1>5. ASSUME NEW saved \in BOOLEAN, Persist(saved)
      PROVE  Goal
  <2>1. /\ activity' = "lit" /\ light' = newLight /\ newLight' = newLight
        /\ Save(saved, keymap, newLight, tainted \cup DirtyLayers)
    BY <1>5 DEF Persist, Goto
  <2>2. QED
    BY <2>1, SavedLighting
<1>6. ASSUME NEW saved \in BOOLEAN, ConfirmCommit(saved)
      PROVE  Goal
  <2>1. /\ activity = "confirm" /\ activity' = "committed"
        /\ light' = light /\ doneLight' = doneLight
        /\ Save(saved, keymap, light, tainted \ pushed)
    BY <1>6 DEF ConfirmCommit, Goto
  <2>2. ~diskFailed /\ file'.light = light
    BY <2>1, SavedLighting
  <2>3. QED
    BY <2>1, <2>2 DEF LightingSurvives, Up
<1>7. CASE Answer
  <2>1. /\ activity \in {"lit", "committed"} /\ activity' = "idle"
        /\ doneLight' = (IF activity = "lit" THEN light ELSE doneLight)
        /\ UNCHANGED <<file, light, diskFailed>>
    BY <1>7 DEF Answer, Goto
  <2>2. QED
    BY <2>1 DEF LightingSurvives, Up
<1>8. CASE EndSession
  <2>1. /\ Up /\ activity' = "down" /\ ~Up'
        /\ doneLight' = (IF activity = "lit" THEN light ELSE doneLight)
        /\ UNCHANGED <<file, light, diskFailed>>
    BY <1>8 DEF EndSession, Goto, Up
  <2>2. QED
    BY <2>1 DEF LightingSurvives
<1>9. ASSUME NEW k \in Keys, SetKeycode(k)
      PROVE  Goal
  <2>1. LightUntouched
    BY <1>9 DEF SetKeycode, historyVars, taskVars, LightUntouched, Up
  <2>2. QED
    BY <1>2, <2>1
<1>10. CASE SetLighting \/ Commit
  <2>1. LightUntouched
    BY <1>10 DEF SetLighting, Commit, Goto, historyVars, LightUntouched, Up
  <2>2. QED
    BY <1>2, <2>1
<1>11. CASE UNCHANGED vars
  BY <1>11 DEF vars, taskVars, historyVars, LightingSurvives, Up
<1>12. QED
  BY <1>1, <1>3, <1>4, <1>5, <1>6, <1>7, <1>8, <1>9, <1>10, <1>11 DEF Next

\* As long as saves and loads succeed, the file holds the lighting of the last call that was
\* done, wherever the session ends, and so does the driver (set_lighting, persist_lighting,
\* save, load).
THEOREM LightingSurvivesHolds == Spec => []LightingSurvives
<1>1. QED
  BY Typed, InitLighting, NextLighting, PTL DEF Spec

-----------------------------------------------------------------------------
(* The read-back. *)

\* The last frame of a read-back adopts the board whole.
LEMMA AdoptedIsArea ==
  ASSUME TypeOK, FrameShape, [Next]_vars, activity = "read", keymap' # keymap
  PROVE  keymap' = area
<1>1. PICK o \in {"ok", "err"}, landed \in BOOLEAN, saved \in BOOLEAN : ReadFrame(o, landed, saved)
  <2>1. ~(UNCHANGED vars) /\ ~EndSession
    BY DEF vars, EndSession, shadowVars
  <2>2. /\ \A readable \in BOOLEAN : ~Attach(readable)
        /\ ~(\E k \in Keys : SetKeycode(k)) /\ ~SetLighting /\ ~Commit /\ ~Answer
    BY DEF Attach, SetKeycode, SetLighting, Commit, Answer
  <2>3. \A saved \in BOOLEAN : ~Persist(saved) /\ ~ConfirmCommit(saved)
    BY DEF Persist, ConfirmCommit
  <2>4. \A o \in {"ok", "err"}, landed \in BOOLEAN :
          ~CommitFrame(o, landed) /\ ~Abort(o, landed)
    BY DEF CommitFrame, Abort
  <2>5. \A o \in {"ok", "err"}, landed \in BOOLEAN : ~RenderFrame(o, landed)
    BY DEF RenderFrame
  <2>6. QED
    BY <2>1, <2>2, <2>3, <2>4, <2>5 DEF Next
<1>2. ~ UNCHANGED shadowVars
  BY DEF shadowVars
<1>3. todo = {Layer} /\ AdoptConfirmed(saved)
  BY <1>1, <1>2, ReadFrameCases
<1>4. Entries = [k \in Keys |-> area[k]]
  BY <1>3 DEF Entries
<1>5. QED
  BY <1>3, <1>4 DEF AdoptConfirmed, TypeOK

\* A read-back changes the shadow only to what the whole board holds, so no later commit
\* can push a half-read keymap (sync_eeprom, adopt_confirmed).
THEOREM ReadBackWholeHolds == Spec => ReadBackWhole
<1>1. TypeOK /\ FrameShape /\ [Next]_vars
        => [(activity = "read" /\ keymap' # keymap) => keymap' = area]_vars
  BY AdoptedIsArea
<1>2. QED
  BY <1>1, Typed, PTL DEF Spec, ReadBackWhole

-----------------------------------------------------------------------------
(* Customization mode. *)

\* The board is in customization mode only inside a transaction, before an abort, or
\* because a transaction was never ended.
CustomShape ==
  custom => \/ unended
            \/ activity = "abort"
            \/ activity \in {"keymap", "read"} /\ On < frame /\ frame <= End
            \/ activity = "render" /\ On < frame /\ frame <= RenderEnd

\* A frame that went well in a transaction from on to end leaves the board in
\* customization mode only if the next frame is inside it.
LEMMA FramedInside ==
  ASSUME TypeOK, NEW end \in Int, On < end, NEW landed \in BOOLEAN, landed,
         Framing(landed, On, end), custom',
         custom => unended \/ (On < frame /\ frame <= end)
  PROVE  unended \/ (On < frame + 1 /\ frame + 1 <= end)
<1>1. frame \in Int /\ On \in Int /\ On <= frame
  BY FrameOrder DEF TypeOK
<1>2. CASE frame = On
  BY <1>1, <1>2
<1>3. frame # end
  <2>1. On # end
    BY FrameOrder
  <2>2. QED
    BY <2>1, Zenon DEF Framing
<1>4. CASE frame # On
  <2>1. custom
    BY <1>3, <1>4, Zenon DEF Framing
  <2>2. unended \/ (On < frame /\ frame <= end)
    BY <2>1
  <2>3. CASE On < frame /\ frame <= end
    BY <1>1, <1>3, <2>3
  <2>4. QED
    BY <2>2, <2>3
<1>5. QED
  BY <1>2, <1>4

LEMMA NextCustom == TypeOK /\ FrameShape /\ CustomShape /\ [Next]_vars => CustomShape'
<1> SUFFICES ASSUME TypeOK, FrameShape, CustomShape, [Next]_vars
             PROVE  CustomShape'
  OBVIOUS
<1>1. ASSUME NEW readable \in BOOLEAN, Attach(readable)
      PROVE  CustomShape'
  BY <1>1 DEF Attach, boardVars, CustomShape
<1>2. ASSUME NEW o \in {"ok", "err"}, NEW landed \in BOOLEAN, NEW saved \in BOOLEAN,
             ReadFrame(o, landed, saved)
      PROVE  CustomShape'
  <2>1. activity = "read" /\ Framing(landed, On, End) /\ unended' = unended
    BY <1>2 DEF ReadFrame
  <2>2. custom => unended \/ (On < frame /\ frame <= End)
    BY <2>1 DEF CustomShape
  <2>3. CASE o = "err"
    BY <1>2, <2>3, ReadFrameCases DEF CustomShape
  <2>4. CASE o = "ok" /\ frame < End
    <3>1. landed /\ End \in Int /\ On < End
      BY <1>2, <2>4, FrameOrder, ReadFrameCases
    <3>2. custom' => unended \/ (On < frame + 1 /\ frame + 1 <= End)
      BY <2>1, <2>2, <3>1, FramedInside
    <3>3. activity' = "read" /\ frame' = frame + 1
      BY <1>2, <2>4, FrameOrder, ReadFrameCases
    <3>4. QED
      BY <2>1, <3>2, <3>3, Zenon DEF CustomShape
  <2>5. CASE o = "ok" /\ frame = End
    <3>1. custom' = FALSE
      BY <1>2, <2>1, <2>5, ReadFrameCases, FrameOrder DEF Framing
    <3>2. QED
      BY <3>1 DEF CustomShape
  <2>6. QED
    BY <1>2, <2>3, <2>4, <2>5, ReadFrameCases
<1>3. ASSUME NEW o \in {"ok", "err"}, NEW landed \in BOOLEAN, RenderFrame(o, landed)
      PROVE  CustomShape'
  <2>1. activity = "render" /\ Framing(landed, On, RenderEnd) /\ unended' = unended
    BY <1>3 DEF RenderFrame, historyVars
  <2>2. custom => unended \/ (On < frame /\ frame <= RenderEnd)
    BY <2>1 DEF CustomShape
  <2>3. CASE o = "err"
    BY <1>3, <2>3, RenderFrameCases DEF CustomShape
  <2>4. CASE o = "ok" /\ frame < RenderStart
    <3>1. landed /\ RenderEnd \in Int /\ On < RenderEnd
      BY <1>3, <2>4, FrameOrder, RenderFrameCases
    <3>2. custom' => unended \/ (On < frame + 1 /\ frame + 1 <= RenderEnd)
      BY <2>1, <2>2, <3>1, FramedInside
    <3>3. activity' = "render" /\ frame' = frame + 1
      BY <1>3, <2>4, FrameOrder, RenderFrameCases
    <3>4. QED
      BY <2>1, <3>2, <3>3, Zenon DEF CustomShape
  <2>5. CASE o = "ok" /\ frame = RenderStart
    <3>1. frame # On /\ frame # RenderEnd /\ ~(frame <= RenderEnd)
      BY <2>5, FrameOrder
    <3>2. custom' = custom
      BY <2>1, <3>1, Zenon DEF Framing
    <3>3. QED
      BY <2>1, <2>2, <3>1, <3>2, Zenon DEF CustomShape
  <2>6. QED
    BY <1>3, <2>3, <2>4, <2>5, RenderFrameCases
<1>4. ASSUME NEW o \in {"ok", "err"}, NEW landed \in BOOLEAN, CommitFrame(o, landed)
      PROVE  CustomShape'
  <2>1. activity = "keymap" /\ Framing(landed, On, End) /\ unended' = unended
    BY <1>4 DEF CommitFrame
  <2>2. custom => unended \/ (On < frame /\ frame <= End)
    BY <2>1 DEF CustomShape
  <2>3. CASE o = "err"
    BY <1>4, <2>3, CommitFrameCases DEF CustomShape
  <2>4. CASE o = "ok" /\ frame < EffectStart
    <3>1. landed /\ End \in Int /\ On < End
      BY <1>4, <2>4, FrameOrder, CommitFrameCases
    <3>2. custom' => unended \/ (On < frame + 1 /\ frame + 1 <= End)
      BY <2>1, <2>2, <3>1, FramedInside
    <3>3. activity' = "keymap" /\ frame' = frame + 1
      BY <1>4, <2>4, FrameOrder, CommitFrameCases
    <3>4. QED
      BY <2>1, <3>2, <3>3, Zenon DEF CustomShape
  <2>5. CASE o = "ok" /\ frame = EffectStart
    <3>1. frame # On /\ frame # End /\ ~(frame <= End)
      BY <2>5, FrameOrder
    <3>2. custom' = custom
      BY <2>1, <3>1, Zenon DEF Framing
    <3>3. QED
      BY <2>1, <2>2, <3>1, <3>2, Zenon DEF CustomShape
  <2>6. QED
    BY <1>4, <2>3, <2>4, <2>5, CommitFrameCases
<1>5. ASSUME NEW o \in {"ok", "err"}, NEW landed \in BOOLEAN, Abort(o, landed)
      PROVE  CustomShape'
  BY <1>5 DEF Abort, AbortLands, CustomShape
<1>6. ASSUME NEW k \in Keys, SetKeycode(k)
      PROVE  CustomShape'
  BY <1>6 DEF SetKeycode, boardVars, historyVars, CustomShape
<1>7. CASE SetLighting \/ Commit \/ Answer
  BY <1>7 DEF SetLighting, Commit, Answer, boardVars, historyVars, CustomShape
<1>8. ASSUME NEW saved \in BOOLEAN, Persist(saved) \/ ConfirmCommit(saved)
      PROVE  CustomShape'
  BY <1>8 DEF Persist, ConfirmCommit, boardVars, CustomShape
<1>9. CASE EndSession
  BY <1>9 DEF EndSession, boardVars, CustomShape
<1>10. CASE UNCHANGED vars
  BY <1>10 DEF vars, boardVars, taskVars, historyVars, CustomShape, On, End, Start, RenderEnd
<1>11. QED
  BY <1>1, <1>2, <1>3, <1>4, <1>5, <1>6, <1>7, <1>8, <1>9, <1>10 DEF Next

\* Between calls the board is in customization mode only if an abort frame was lost or the
\* daemon died inside a transaction (abort_transaction).
THEOREM LeavesCustomizationHolds == Spec => []LeavesCustomization
<1>1. Init => CustomShape
  BY DEF Init, CustomShape
<1>2. CustomShape => LeavesCustomization
  BY DEF CustomShape, LeavesCustomization
<1>3. QED
  BY <1>1, <1>2, Typed, NextCustom, PTL DEF Spec

-----------------------------------------------------------------------------
(* The progress of a commit, and the drift between shadow, board and file. *)

\* A commit has pushed its layers whole, and of the layer at work the pages so far.
CommitProgress ==
  /\ activity = "keymap" => DirtyLayers \subseteq pushed \cup todo
  /\ activity = "confirm" => DirtyLayers \subseteq pushed
  /\ activity \in {"keymap", "confirm", "committed"} =>
       \A k \in Keys : k[1] \in pushed => area[k] = keymap[k]
  /\ activity = "keymap" =>
       \A p \in Pages : p < PageOf(frame) => area[<<Layer, p>>] = keymap[<<Layer, p>>]

BeingPushed(l) ==
  \/ activity \in {"keymap", "confirm"} /\ l \in pushed
  \/ activity = "keymap" /\ l = Layer

\* The rollback target is what the board holds, but for layers that are tainted or that
\* the commit at work has reached.
TargetOnBoard ==
  Up => \A k \in Keys : (k[1] \notin tainted /\ ~BeingPushed(k[1])) => confirmed[k] = area[k]

\* The file is what the board holds, but for the layers noted.
FileOnBoard == \A k \in Keys : k[1] \notin fileTainted => file.keymap[k] = area[k]

\* A page frame writes the shadow's value into a key of the layer at work.
LEMMA AreaWritten ==
  ASSUME TypeOK, NEW o \in {"ok", "err"}, NEW landed \in BOOLEAN, CommitFrame(o, landed)
  PROVE  /\ \A k \in Keys : area'[k] = area[k] \/ (area'[k] = keymap[k] /\ k[1] = Layer)
         /\ landed /\ IsPage(frame)
              => area'[<<Layer, PageOf(frame)>>] = keymap[<<Layer, PageOf(frame)>>]
<1>1. Layer \in Layers
  BY LayerToDo DEF CommitFrame
<1>2. CASE landed /\ IsPage(frame)
  <2>1. <<Layer, PageOf(frame)>> \in Keys
    BY <1>1, <1>2, PageKeys
  <2>2. area' = [area EXCEPT ![<<Layer, PageOf(frame)>>] = keymap[<<Layer, PageOf(frame)>>]]
    BY <1>2 DEF CommitFrame, Entry
  <2>3. QED
    BY <2>1, <2>2 DEF TypeOK
<1>3. CASE ~(landed /\ IsPage(frame))
  BY <1>3 DEF CommitFrame
<1>4. QED
  BY <1>2, <1>3

\* Every frame of a commit keeps the account of what was pushed.
LEMMA CommitFrameProgress ==
  ASSUME TypeOK, CommitProgress, NEW o \in {"ok", "err"}, NEW landed \in BOOLEAN,
         CommitFrame(o, landed)
  PROVE  CommitProgress'
<1>1. activity = "keymap" /\ keymap' = keymap /\ dirty' = dirty
  BY DEF CommitFrame, shadowVars
<1>2. DirtyLayers' = DirtyLayers
  BY <1>1 DEF DirtyLayers
<1>3. \A k \in Keys : area[k] = keymap[k] => area'[k] = keymap[k]
  BY AreaWritten
<1>4. Layer \in Layers /\ frame \in Int /\ \A p \in Pages : p \in Int /\ <<Layer, p>> \in Keys
  BY <1>1, LayerToDo, FrameOrder DEF TypeOK, Pages, Keys
<1>5. CASE activity' = "abort"
  BY <1>5 DEF CommitProgress
<1>6. CASE /\ landed /\ frame < EffectStart
           /\ activity' = "keymap" /\ todo' = todo /\ frame' = frame + 1 /\ pushed' = pushed
  <2>1. Layer' = Layer
    BY <1>6 DEF Layer
  <2>2. ASSUME NEW p \in Pages, p < PageOf(frame + 1)
        PROVE  area'[<<Layer, p>>] = keymap[<<Layer, p>>]
    <3>1. p < PageOf(frame) \/ p = PageOf(frame)
      <4>1. p \in Int /\ frame \in Int
        BY <1>4
      <4>2. QED
        BY <2>2, <4>1 DEF PageOf, Start
    <3>2. CASE p < PageOf(frame)
      BY <1>1, <1>3, <1>4, <3>2 DEF CommitProgress
    <3>3. CASE p = PageOf(frame)
      BY <1>6, <3>3, AreaWritten DEF IsPage
    <3>4. QED
      BY <3>1, <3>2, <3>3
  <2>3. DirtyLayers' \subseteq pushed' \cup todo'
    BY <1>1, <1>2, <1>6 DEF CommitProgress
  <2>4. \A k \in Keys : k[1] \in pushed' => area'[k] = keymap'[k]
    BY <1>1, <1>3, <1>6 DEF CommitProgress
  <2>5. \A p \in Pages : p < PageOf(frame') => area'[<<Layer', p>>] = keymap'[<<Layer', p>>]
    BY <1>1, <1>6, <2>1, <2>2
  <2>6. QED
    BY <1>6, <2>3, <2>4, <2>5 DEF CommitProgress, PageOf, Start
<1>7. CASE /\ landed /\ frame = EffectStart
           /\ activity' = IF todo = {Layer} THEN "confirm" ELSE "keymap"
           /\ todo' = todo \ {Layer} /\ frame' = On /\ pushed' = pushed \cup {Layer}
  <2>1. DirtyLayers' \subseteq pushed' \cup todo' /\ (todo = {Layer} => todo' = {})
    BY <1>1, <1>2, <1>7 DEF CommitProgress
  <2>2. ASSUME NEW k \in Keys, k[1] = Layer
        PROVE  area[k] = keymap[k]
    <3>1. k[2] \in Pages /\ k = <<Layer, k[2]>> /\ k[2] < PageOf(frame)
      BY <1>7, <2>2, FrameOrder DEF Keys, Pages, PageOf
    <3>2. QED
      BY <1>1, <3>1 DEF CommitProgress
  <2>3. \A k \in Keys : k[1] \in pushed' => area'[k] = keymap'[k]
    BY <1>1, <1>3, <1>7, <2>2 DEF CommitProgress
  <2>4. \A p \in Pages : ~(p < PageOf(frame'))
    BY <1>4, <1>7, FrameOrder DEF PageOf, Pages
  <2>5. QED
    BY <1>7, <2>1, <2>3, <2>4 DEF CommitProgress, PageOf, Start
<1>8. QED
  BY <1>5, <1>6, <1>7, CommitFrameCases

LEMMA NextProgress == TypeOK /\ FrameShape /\ CommitProgress /\ [Next]_vars => CommitProgress'
<1> SUFFICES ASSUME TypeOK, FrameShape, CommitProgress, [Next]_vars
             PROVE  CommitProgress'
  OBVIOUS
<1>1. CASE Commit
  <2>1. /\ activity' = "keymap" /\ todo' = DirtyLayers /\ frame' = On /\ pushed' = {}
        /\ DirtyLayers' = DirtyLayers
    BY <1>1 DEF Commit, Goto, LayersToPush, DirtyLayers
  <2>2. \A p \in Pages : ~(p < PageOf(On))
    BY FrameOrder DEF PageOf, Pages
  <2>3. QED
    BY <2>1, <2>2 DEF CommitProgress, PageOf, On, Start
<1>2. ASSUME NEW o \in {"ok", "err"}, NEW landed \in BOOLEAN, CommitFrame(o, landed)
      PROVE  CommitProgress'
  BY <1>2, CommitFrameProgress
<1>3. CASE (\E readable \in BOOLEAN : Attach(readable)) \/ SetLighting \/ Answer \/ EndSession
  <2>1. activity' \notin {"keymap", "confirm", "committed"}
    BY <1>3 DEF Attach, SetLighting, Answer, EndSession, Goto
  <2>2. QED
    BY <2>1 DEF CommitProgress
<1>4. ASSUME NEW k \in Keys, SetKeycode(k)
      PROVE  CommitProgress'
  BY <1>4 DEF SetKeycode, taskVars, CommitProgress
<1>5. ASSUME NEW saved \in BOOLEAN, Persist(saved) \/ ConfirmCommit(saved)
      PROVE  CommitProgress'
  BY <1>5 DEF Persist, ConfirmCommit, Goto, CommitProgress, boardVars
<1>6. ASSUME NEW o \in {"ok", "err"}, NEW landed \in BOOLEAN, NEW saved \in BOOLEAN,
             ReadFrame(o, landed, saved) \/ RenderFrame(o, landed)
      PROVE  CommitProgress'
  <2>1. activity' \notin {"keymap", "confirm", "committed"}
    BY <1>6, ReadFrameCases, RenderFrameCases
  <2>2. QED
    BY <2>1 DEF CommitProgress
<1>7. ASSUME NEW o \in {"ok", "err"}, NEW landed \in BOOLEAN, Abort(o, landed)
      PROVE  CommitProgress'
  BY <1>7 DEF Abort, Goto, CommitProgress
<1>8. CASE UNCHANGED vars
  BY <1>8 DEF vars, boardVars, shadowVars, taskVars, historyVars, taintVars, CommitProgress,
              DirtyLayers, PageOf, Start, Layer
<1>9. QED
  BY <1>1, <1>2, <1>3, <1>4, <1>5, <1>6, <1>7, <1>8 DEF Next

\* Drift appears only where a commit has begun to push.
LEMMA NextTarget ==
  TypeOK /\ FrameShape /\ ShadowConsistent /\ CommitProgress /\ TargetOnBoard /\ FileOnBoard
    /\ [Next]_vars => TargetOnBoard'
<1> SUFFICES ASSUME TypeOK, FrameShape, ShadowConsistent, CommitProgress, TargetOnBoard,
                    FileOnBoard, [Next]_vars, Up',
                    NEW k \in Keys, k[1] \notin tainted', ~BeingPushed(k[1])'
             PROVE  confirmed'[k] = area'[k]
  BY DEF TargetOnBoard
<1> DEFINE Held == Up /\ k[1] \notin tainted /\ ~BeingPushed(k[1])
<1>1. Held => confirmed[k] = area[k]
  BY DEF TargetOnBoard
<1>2. ASSUME NEW readable \in BOOLEAN, Attach(readable)
      PROVE  confirmed'[k] = area'[k]
  <2>1. k[1] \in Layers
    BY DEF Keys
  <2>2. readable /\ tainted' = fileTainted
    BY <1>2, <2>1 DEF Attach
  <2>3. QED
    BY <1>2, <2>2 DEF Attach, Loaded, boardVars, FileOnBoard
<1>3. ASSUME NEW o \in {"ok", "err"}, NEW landed \in BOOLEAN, NEW saved \in BOOLEAN,
             ReadFrame(o, landed, saved)
      PROVE  confirmed'[k] = area'[k]
  <2>1. activity = "read" /\ area' = area
    BY <1>3 DEF ReadFrame
  <2>2. CASE todo = {Layer} /\ AdoptConfirmed(saved)
    BY <2>1, <2>2 DEF AdoptConfirmed, Entries
  <2>3. CASE UNCHANGED <<shadowVars, tainted>>
    <3>1. Held
      BY <2>1, <2>3 DEF Up, BeingPushed
    <3>2. QED
      BY <1>1, <2>1, <2>3, <3>1 DEF shadowVars
  <2>4. QED
    BY <1>3, <2>2, <2>3, ReadFrameCases
<1>4. ASSUME (\E o \in {"ok", "err"}, landed \in BOOLEAN : RenderFrame(o, landed))
               \/ (\E saved \in BOOLEAN : Persist(saved)) \/ Answer
      PROVE  confirmed'[k] = area'[k]
  <2>1. activity \in {"render", "persist", "lit", "committed"} /\ UNCHANGED <<area, confirmed, tainted>>
    BY <1>4 DEF RenderFrame, Persist, Answer, boardVars, shadowVars, historyVars, taintVars
  <2>2. Held
    BY <2>1 DEF Up, BeingPushed
  <2>3. QED
    BY <1>1, <2>1, <2>2
<1>5. ASSUME NEW o \in {"ok", "err"}, NEW landed \in BOOLEAN, CommitFrame(o, landed)
      PROVE  confirmed'[k] = area'[k]
  <2>1. activity = "keymap" /\ confirmed' = confirmed
    BY <1>5 DEF CommitFrame, shadowVars
  <2>2. k[1] \notin tainted /\ k[1] \notin pushed /\ k[1] # Layer
    <3>1. CASE tainted' = tainted \cup pushed \cup {Layer}
      BY <3>1
    <3>2. CASE activity' = "keymap" /\ todo' = todo /\ tainted' = tainted /\ pushed' = pushed
      BY <3>2 DEF BeingPushed, Layer
    <3>3. CASE activity' \in {"keymap", "confirm"} /\ tainted' = tainted
               /\ pushed' = pushed \cup {Layer}
      BY <3>3 DEF BeingPushed
    <3>4. QED
      BY <1>5, <3>1, <3>2, <3>3, CommitFrameCases
  <2>3. Held
    BY <2>1, <2>2 DEF Up, BeingPushed
  <2>4. area'[k] = area[k]
    BY <1>5, <2>2, AreaWritten
  <2>5. QED
    BY <1>1, <2>1, <2>3, <2>4
<1>6. ASSUME NEW saved \in BOOLEAN, ConfirmCommit(saved)
      PROVE  confirmed'[k] = area'[k]
  <2>1. activity = "confirm" /\ Up /\ confirmed' = keymap /\ area' = area
        /\ tainted' = tainted \ pushed
    BY <1>6 DEF ConfirmCommit, boardVars, Up
  <2>2. CASE k[1] \in pushed
    BY <2>1, <2>2 DEF CommitProgress
  <2>3. CASE k[1] \notin pushed
    <3>1. Held
      BY <2>1, <2>3 DEF BeingPushed
    <3>2. k \notin dirty
      BY <2>1, <2>3 DEF CommitProgress, DirtyLayers
    <3>3. keymap[k] = confirmed[k]
      BY <2>1, <3>2 DEF ShadowConsistent
    <3>4. QED
      BY <1>1, <2>1, <3>1, <3>3
  <2>4. QED
    BY <2>2, <2>3
<1>7. ASSUME NEW o \in {"ok", "err"}, NEW landed \in BOOLEAN, Abort(o, landed)
      PROVE  confirmed'[k] = area'[k]
  <2>1. activity = "abort" /\ UNCHANGED <<area, confirmed, tainted>>
    BY <1>7 DEF Abort, Rollback, shadowVars, taintVars
  <2>2. Held
    BY <2>1 DEF Up, BeingPushed
  <2>3. QED
    BY <1>1, <2>1, <2>2
<1>8. ASSUME (\E j \in Keys : SetKeycode(j)) \/ SetLighting \/ Commit
      PROVE  confirmed'[k] = area'[k]
  <2>1. activity = "idle" /\ UNCHANGED <<area, confirmed, tainted>>
    BY <1>8 DEF SetKeycode, SetLighting, Commit, boardVars, shadowVars, historyVars, taintVars
  <2>2. Held
    BY <2>1 DEF Up, BeingPushed
  <2>3. QED
    BY <1>1, <2>1, <2>2
<1>9. ~EndSession
  BY DEF EndSession, Goto, Up
<1>10. CASE UNCHANGED vars
  <2>1. UNCHANGED <<area, confirmed, tainted, activity, todo, pushed>>
    BY <1>10 DEF vars, boardVars, shadowVars, taskVars, historyVars, taintVars
  <2>2. Held
    BY <2>1 DEF Up, BeingPushed, Layer
  <2>3. QED
    BY <1>1, <2>1, <2>2
<1>11. QED
  BY <1>2, <1>3, <1>4, <1>5, <1>6, <1>7, <1>8, <1>9, <1>10 DEF Next

\* A save writes a keymap that is the board's but for the layers it notes.
LEMMA SavedDrift ==
  ASSUME FileOnBoard, NEW ok \in BOOLEAN, NEW km, NEW li, NEW unpushed,
         Save(ok, km, li, unpushed), UNCHANGED area,
         \A k \in Keys : k[1] \notin unpushed => km[k] = area[k]
  PROVE  FileOnBoard'
  BY DEF FileOnBoard, Save

LEMMA NextFile ==
  TypeOK /\ FrameShape /\ ShadowConsistent /\ CommitProgress /\ TargetOnBoard /\ FileOnBoard
    /\ [Next]_vars => FileOnBoard'
<1> SUFFICES ASSUME TypeOK, FrameShape, ShadowConsistent, CommitProgress, TargetOnBoard,
                    FileOnBoard, [Next]_vars
             PROVE  FileOnBoard'
  OBVIOUS
<1>1. ASSUME NEW o \in {"ok", "err"}, NEW landed \in BOOLEAN, NEW saved \in BOOLEAN,
             ReadFrame(o, landed, saved)
      PROVE  FileOnBoard'
  <2>1. area' = area
    BY <1>1 DEF ReadFrame
  <2>2. CASE todo = {Layer} /\ AdoptConfirmed(saved)
    <3>1. \A k \in Keys : Entries[k] = area[k]
      BY <2>2 DEF Entries
    <3>2. QED
      BY <2>1, <2>2, <3>1, SavedDrift DEF AdoptConfirmed
  <2>3. CASE UNCHANGED <<file, fileTainted>>
    BY <2>1, <2>3 DEF FileOnBoard
  <2>4. QED
    BY <1>1, <2>2, <2>3, ReadFrameCases
<1>2. ASSUME NEW saved \in BOOLEAN, Persist(saved)
      PROVE  FileOnBoard'
  <2>1. /\ area' = area /\ activity = "persist"
        /\ Save(saved, keymap, newLight, tainted \cup DirtyLayers)
    BY <1>2 DEF Persist, boardVars
  <2>2. ASSUME NEW k \in Keys, k[1] \notin tainted \cup DirtyLayers
        PROVE  keymap[k] = area[k]
    <3>1. k \notin dirty
      BY <2>2 DEF DirtyLayers
    <3>2. keymap[k] = confirmed[k]
      BY <2>1, <3>1 DEF ShadowConsistent, Up
    <3>3. confirmed[k] = area[k]
      BY <2>1, <2>2 DEF TargetOnBoard, Up, BeingPushed
    <3>4. QED
      BY <3>2, <3>3
  <2>3. QED
    BY <2>1, <2>2, SavedDrift
<1>3. ASSUME NEW saved \in BOOLEAN, ConfirmCommit(saved)
      PROVE  FileOnBoard'
  <2>1. activity = "confirm" /\ area' = area /\ Save(saved, keymap, light, tainted \ pushed)
    BY <1>3 DEF ConfirmCommit, boardVars
  <2>2. ASSUME NEW k \in Keys, k[1] \notin tainted \ pushed
        PROVE  keymap[k] = area[k]
    <3>1. CASE k[1] \in pushed
      BY <2>1, <3>1 DEF CommitProgress
    <3>2. CASE k[1] \notin pushed
      <4>1. k \notin dirty
        BY <2>1, <3>2 DEF CommitProgress, DirtyLayers
      <4>2. keymap[k] = confirmed[k]
        BY <2>1, <4>1 DEF ShadowConsistent, Up
      <4>3. confirmed[k] = area[k]
        BY <2>1, <2>2, <3>2 DEF TargetOnBoard, Up, BeingPushed
      <4>4. QED
        BY <4>2, <4>3
    <3>3. QED
      BY <3>1, <3>2
  <2>3. QED
    BY <2>1, <2>2, SavedDrift
<1>4. ASSUME NEW o \in {"ok", "err"}, NEW landed \in BOOLEAN, CommitFrame(o, landed)
      PROVE  FileOnBoard'
  <2>1. file' = file /\ fileTainted' = IF area' = area THEN fileTainted
                                       ELSE fileTainted \cup {Layer}
    BY <1>4 DEF CommitFrame
  <2>2. \A k \in Keys : k[1] # Layer => area'[k] = area[k]
    BY <1>4, AreaWritten
  <2>3. QED
    BY <2>1, <2>2 DEF FileOnBoard
<1>5. ASSUME NEW o \in {"ok", "err"}, NEW landed \in BOOLEAN,
             RenderFrame(o, landed) \/ Abort(o, landed)
      PROVE  FileOnBoard'
  BY <1>5 DEF RenderFrame, Abort, historyVars, taintVars, FileOnBoard
<1>6. ASSUME NEW k \in Keys, SetKeycode(k)
      PROVE  FileOnBoard'
  BY <1>6 DEF SetKeycode, boardVars, historyVars, taintVars, FileOnBoard
<1>7. CASE (\E readable \in BOOLEAN : Attach(readable))
           \/ SetLighting \/ Commit \/ Answer \/ EndSession
  BY <1>7 DEF Attach, SetLighting, Commit, Answer, EndSession, boardVars, historyVars, taintVars,
              FileOnBoard
<1>8. CASE UNCHANGED vars
  BY <1>8 DEF vars, boardVars, historyVars, taintVars, FileOnBoard
<1>9. QED
  BY <1>1, <1>2, <1>3, <1>4, <1>5, <1>6, <1>7, <1>8 DEF Next

\* The inductive invariant of the driver.
DriverInv ==
  TypeOK /\ FrameShape /\ ShadowConsistent /\ CommitProgress /\ TargetOnBoard /\ FileOnBoard

\* The bookkeeping of the driver is right at every frame: the shadow, how far a commit has
\* come, and where shadow, board and file may differ.
THEOREM DriverCorrect == Spec => []DriverInv
<1>1. Init => CommitProgress /\ TargetOnBoard /\ FileOnBoard
  BY DEF Init, Fresh, CommitProgress, TargetOnBoard, FileOnBoard, Up, NoKeys
<1>2. Init => DriverInv
  BY <1>1, InitTypes, InitShadow DEF DriverInv
<1>3. DriverInv /\ [Next]_vars => DriverInv'
  BY NextTypes, NextShadow, NextProgress, NextTarget, NextFile DEF DriverInv
<1>4. QED
  BY <1>2, <1>3, PTL DEF Spec

\* An unedited key reads as something the board does not hold only in a layer that a failed
\* or interrupted commit had begun to push, or that the file had with edits in it, or after
\* a load that failed (commit_to_nvram, rollback, persist_lighting, load).
THEOREM DriftConfinedHolds == Spec => []DriftConfined
<1>1. DriverInv => DriftConfined
  <2> SUFFICES ASSUME DriverInv, activity = "idle", NEW k \in Keys \ dirty, k[1] \notin tainted
               PROVE  keymap[k] = area[k]
    BY DEF DriftConfined
  <2>1. keymap[k] = confirmed[k]
    BY DEF DriverInv, ShadowConsistent, Up
  <2>2. confirmed[k] = area[k]
    BY DEF DriverInv, TargetOnBoard, Up, BeingPushed
  <2>3. QED
    BY <2>1, <2>2
<1>2. QED
  BY <1>1, DriverCorrect, PTL

-----------------------------------------------------------------------------
(* What a commit acknowledged. *)

\* Edits are numbered by the calls so far.
Numbered ==
  \A k \in Keys : /\ area[k] <= ops /\ file.keymap[k] <= ops /\ acked[k] <= ops
                  /\ keymap[k] <= ops /\ confirmed[k] <= ops

\* The values there are of a key, and that of a key never remapped.
Sources(k) == {0, area[k], file.keymap[k], keymap[k], confirmed[k], acked[k]}

\* A step either leaves the values of a key where they are, or copies them from one place
\* to another, or makes an edit.
LEMMA ValuesAreCopied ==
  ASSUME TypeOK, FrameShape, [Next]_vars, NEW k \in Keys
  PROVE  /\ {area'[k], file'.keymap[k], confirmed'[k], acked'[k]} \subseteq Sources(k)
         /\ keymap'[k] \in Sources(k) \/ (keymap'[k] = ops + 1 /\ ops' = ops + 1)
         /\ ops' \in {ops, ops + 1}
<1> USE DEF Sources
<1>1. ASSUME NEW readable \in BOOLEAN, Attach(readable)
      PROVE  /\ {area'[k], file'.keymap[k], confirmed'[k], acked'[k], keymap'[k]} \subseteq Sources(k)
             /\ ops' = ops
  <2>1. UNCHANGED <<area, file, acked, ops>>
    BY <1>1 DEF Attach, boardVars
  <2>2. keymap'[k] \in {0, file.keymap[k]} /\ confirmed'[k] \in {0, file.keymap[k]}
    BY <1>1 DEF Attach, Loaded, Fresh, NoKeys
  <2>3. QED
    BY <2>1, <2>2
<1>2. ASSUME NEW o \in {"ok", "err"}, NEW landed \in BOOLEAN, NEW saved \in BOOLEAN,
             ReadFrame(o, landed, saved)
      PROVE  /\ {area'[k], file'.keymap[k], confirmed'[k], acked'[k], keymap'[k]} \subseteq Sources(k)
             /\ ops' = ops
  <2>1. UNCHANGED <<area, acked, ops>>
    BY <1>2 DEF ReadFrame
  <2>2. CASE todo = {Layer} /\ AdoptConfirmed(saved)
    <3>1. Entries[k] = area[k]
      BY <2>2 DEF Entries
    <3>2. QED
      BY <2>1, <2>2, <3>1 DEF AdoptConfirmed, Save
  <2>3. CASE UNCHANGED <<shadowVars, file>>
    BY <2>1, <2>3 DEF shadowVars
  <2>4. QED
    BY <1>2, <2>2, <2>3, ReadFrameCases
<1>3. ASSUME NEW saved \in BOOLEAN, Persist(saved)
      PROVE  /\ {area'[k], file'.keymap[k], confirmed'[k], acked'[k], keymap'[k]} \subseteq Sources(k)
             /\ ops' = ops
  <2>1. UNCHANGED <<area, shadowVars, acked, ops>>
    BY <1>3 DEF Persist, boardVars, countVars
  <2>2. file'.keymap \in {file.keymap, keymap}
    BY <1>3 DEF Persist, Save
  <2>3. QED
    BY <2>1, <2>2 DEF shadowVars
<1>4. ASSUME NEW o \in {"ok", "err"}, NEW landed \in BOOLEAN, CommitFrame(o, landed)
      PROVE  /\ {area'[k], file'.keymap[k], confirmed'[k], acked'[k], keymap'[k]} \subseteq Sources(k)
             /\ ops' = ops
  <2>1. UNCHANGED <<file, shadowVars, acked, ops>>
    BY <1>4 DEF CommitFrame
  <2>2. QED
    BY <1>4, <2>1, AreaWritten DEF shadowVars
<1>5. ASSUME NEW o \in {"ok", "err"}, NEW landed \in BOOLEAN, Abort(o, landed)
      PROVE  /\ {area'[k], file'.keymap[k], confirmed'[k], acked'[k], keymap'[k]} \subseteq Sources(k)
             /\ ops' = ops
  BY <1>5 DEF Abort, Rollback, RolledBack, shadowVars
<1>6. ASSUME NEW j \in Keys, SetKeycode(j)
      PROVE  /\ {area'[k], file'.keymap[k], confirmed'[k], acked'[k]} \subseteq Sources(k)
             /\ keymap'[k] \in {keymap[k], ops + 1}
             /\ ops' = ops + 1
  BY <1>6 DEF SetKeycode, boardVars, historyVars, TypeOK
<1>7. ASSUME NEW saved \in BOOLEAN, ConfirmCommit(saved)
      PROVE  /\ {area'[k], file'.keymap[k], confirmed'[k], acked'[k], keymap'[k]} \subseteq Sources(k)
             /\ ops' = ops
  BY <1>7 DEF ConfirmCommit, Save, boardVars, countVars
<1>8. CASE SetLighting \/ Commit \/ EndSession \/ UNCHANGED vars
  <2>1. UNCHANGED <<area, file, keymap, confirmed, acked>> /\ ops' \in {ops, ops + 1}
    BY <1>8 DEF SetLighting, Commit, EndSession, vars, boardVars, shadowVars, countVars, historyVars
  <2>2. QED
    BY <2>1
<1>9. ASSUME NEW o \in {"ok", "err"}, NEW landed \in BOOLEAN, RenderFrame(o, landed)
      PROVE  /\ {area'[k], file'.keymap[k], confirmed'[k], acked'[k], keymap'[k]} \subseteq Sources(k)
             /\ ops' = ops
  BY <1>9 DEF RenderFrame, shadowVars, historyVars
<1>10. CASE Answer
  <2>1. UNCHANGED <<area, file, keymap, confirmed, ops>>
    BY <1>10 DEF Answer, boardVars, shadowVars, countVars
  <2>2. acked'[k] \in {acked[k], keymap[k]}
    BY <1>10 DEF Answer
  <2>3. QED
    BY <2>1, <2>2
<1>11. QED
  BY <1>1, <1>2, <1>3, <1>4, <1>5, <1>6, <1>7, <1>8, <1>9, <1>10 DEF Next

LEMMA NextNumbered == TypeOK /\ FrameShape /\ Numbered /\ [Next]_vars => Numbered'
<1> SUFFICES ASSUME TypeOK, FrameShape, Numbered, [Next]_vars, NEW k \in Keys
             PROVE  /\ area'[k] <= ops' /\ file'.keymap[k] <= ops' /\ acked'[k] <= ops'
                    /\ keymap'[k] <= ops' /\ confirmed'[k] <= ops'
  BY DEF Numbered
<1>1. ops \in Nat /\ \A v \in Sources(k) : v \in Nat /\ v <= ops
  BY DEF Sources, Numbered, TypeOK
<1>2. ops' \in Nat /\ ops <= ops' /\ \A v \in Sources(k) : v <= ops'
  <2>1. ops' = ops \/ ops' = ops + 1
    BY ValuesAreCopied
  <2>2. QED
    BY <1>1, <2>1
<1>3. QED
  BY <1>1, <1>2, ValuesAreCopied

\* The values of a key that an acknowledged commit must not be missing from.
Survives(k) ==
  /\ area[k] >= acked[k]
  /\ file.keymap[k] >= acked[k]
  /\ Up => keymap[k] >= acked[k] /\ confirmed[k] >= acked[k]

\* A commit that is done and not yet answered is the rollback target and in the file.
CommitSaved ==
  activity = "committed" => confirmed = keymap /\ (~diskFailed => file.keymap = keymap)

LEMMA NextSaved == TypeOK /\ FrameShape /\ CommitSaved /\ [Next]_vars => CommitSaved'
<1> SUFFICES ASSUME TypeOK, FrameShape, CommitSaved, [Next]_vars, activity' = "committed"
             PROVE  confirmed' = keymap' /\ (~diskFailed' => file'.keymap = keymap')
  BY DEF CommitSaved
<1>1. ASSUME NEW saved \in BOOLEAN, ConfirmCommit(saved)
      PROVE  confirmed' = keymap' /\ (~diskFailed' => file'.keymap = keymap')
  <2>1. confirmed' = keymap /\ keymap' = keymap /\ Save(saved, keymap, light, tainted \ pushed)
    BY <1>1 DEF ConfirmCommit
  <2>2. QED
    BY <2>1, SavedLighting
<1>2. /\ \A readable \in BOOLEAN : ~Attach(readable)
      /\ \A saved \in BOOLEAN : ~Persist(saved)
      /\ ~SetLighting /\ ~Commit /\ ~Answer /\ ~EndSession
  BY DEF Attach, Persist, SetLighting, Commit, Answer, EndSession, Goto
<1>3. /\ \A k \in Keys : ~SetKeycode(k)
      /\ \A o \in {"ok", "err"}, landed \in BOOLEAN : ~Abort(o, landed)
  BY DEF SetKeycode, taskVars, Abort, Goto
<1>4. ASSUME NEW o \in {"ok", "err"}, NEW landed \in BOOLEAN, NEW saved \in BOOLEAN
      PROVE  ~ReadFrame(o, landed, saved) /\ ~RenderFrame(o, landed) /\ ~CommitFrame(o, landed)
  BY ReadFrameCases, RenderFrameCases, CommitFrameCases
<1>5. CASE UNCHANGED vars
  BY <1>5 DEF vars, shadowVars, taskVars, historyVars, CommitSaved
<1>6. QED
  BY <1>1, <1>2, <1>3, <1>4, <1>5 DEF Next

LEMMA NextCommitted ==
  DriverInv /\ Numbered /\ CommitSaved /\ CommittedSurvives /\ [Next]_vars => CommittedSurvives'
<1> SUFFICES ASSUME DriverInv, Numbered, CommitSaved, CommittedSurvives, [Next]_vars,
                    ~diskFailed', NEW k \in Keys
             PROVE  Survives(k)'
  BY DEF CommittedSurvives, Survives
<1> USE DEF Survives
<1>1. TypeOK /\ FrameShape
  BY DEF DriverInv
<1>2. ~diskFailed => Survives(k)
  BY DEF CommittedSurvives
<1>3. ASSUME NEW readable \in BOOLEAN, Attach(readable)
      PROVE  Survives(k)'
  <2>1. readable /\ ~diskFailed
    BY <1>3 DEF Attach
  <2>2. QED
    BY <1>2, <1>3, <2>1 DEF Attach, Loaded, boardVars
<1>4. ASSUME NEW o \in {"ok", "err"}, NEW landed \in BOOLEAN, NEW saved \in BOOLEAN,
             ReadFrame(o, landed, saved)
      PROVE  Survives(k)'
  <2>1. Up /\ UNCHANGED <<area, acked>>
    BY <1>4 DEF ReadFrame, Up
  <2>2. CASE todo = {Layer} /\ AdoptConfirmed(saved)
    <3>1. Entries[k] = area[k]
      BY <2>2 DEF Entries
    <3>2. Survives(k) /\ file'.keymap = Entries
      BY <1>2, <2>2, SavedLighting DEF AdoptConfirmed
    <3>3. QED
      BY <2>1, <2>2, <3>1, <3>2 DEF AdoptConfirmed
  <2>3. CASE UNCHANGED <<shadowVars, file, diskFailed>>
    BY <1>2, <2>1, <2>3 DEF shadowVars
  <2>4. QED
    BY <1>1, <1>4, <2>2, <2>3, ReadFrameCases
<1>5. ASSUME NEW saved \in BOOLEAN, Persist(saved)
      PROVE  Survives(k)'
  <2>1. Up /\ UNCHANGED <<area, shadowVars, acked>>
    BY <1>5 DEF Persist, boardVars, Up
  <2>2. ~diskFailed /\ file'.keymap = keymap
    BY <1>5, SavedLighting DEF Persist
  <2>3. QED
    BY <1>2, <2>1, <2>2 DEF shadowVars
<1>6. ASSUME NEW o \in {"ok", "err"}, NEW landed \in BOOLEAN, CommitFrame(o, landed)
      PROVE  Survives(k)'
  <2>1. Up /\ UNCHANGED <<file, shadowVars, acked, diskFailed>>
    BY <1>6 DEF CommitFrame, Up
  <2>2. area'[k] \in {area[k], keymap[k]}
    BY <1>1, <1>6, AreaWritten
  <2>3. QED
    BY <1>2, <2>1, <2>2 DEF shadowVars
<1>7. ASSUME NEW saved \in BOOLEAN, ConfirmCommit(saved)
      PROVE  Survives(k)'
  <2>1. /\ Up /\ keymap' = keymap /\ confirmed' = keymap /\ area' = area /\ acked' = acked
        /\ Save(saved, keymap, light, tainted \ pushed)
    BY <1>7 DEF ConfirmCommit, boardVars, Up
  <2>2. ~diskFailed /\ file'.keymap = keymap
    BY <2>1, SavedLighting
  <2>3. QED
    BY <1>2, <2>1, <2>2
<1>8. ASSUME NEW o \in {"ok", "err"}, NEW landed \in BOOLEAN, Abort(o, landed)
      PROVE  Survives(k)'
  <2>1. Up /\ UNCHANGED <<area, file, acked, diskFailed>> /\ keymap'[k] \in {keymap[k], confirmed[k]}
        /\ confirmed' = confirmed
    BY <1>8 DEF Abort, Rollback, RolledBack, shadowVars, Up
  <2>2. QED
    BY <1>2, <2>1
<1>9. ASSUME NEW j \in Keys, SetKeycode(j)
      PROVE  Survives(k)'
  <2>1. /\ Up /\ UNCHANGED <<area, file, confirmed, acked, diskFailed>>
        /\ keymap'[k] \in {keymap[k], ops + 1}
    BY <1>1, <1>9 DEF SetKeycode, boardVars, historyVars, TypeOK, Up
  <2>2. acked[k] \in Nat /\ ops \in Nat /\ acked[k] <= ops
    BY <1>1 DEF TypeOK, Numbered
  <2>3. ops + 1 >= acked[k]
    BY <2>2
  <2>4. QED
    BY <1>2, <2>1, <2>3
<1>10. CASE (\E o \in {"ok", "err"}, landed \in BOOLEAN : RenderFrame(o, landed))
            \/ SetLighting \/ Commit \/ EndSession
  <2>1. Up /\ UNCHANGED <<area, file, keymap, confirmed, acked, diskFailed>>
    BY <1>10 DEF RenderFrame, SetLighting, Commit, EndSession, boardVars, shadowVars, historyVars, Up
  <2>2. QED
    BY <1>2, <2>1
<1>11. CASE UNCHANGED vars
  BY <1>2, <1>11 DEF vars, boardVars, shadowVars, taskVars, historyVars, Up
<1>12. CASE Answer
  <2>1. /\ activity \in {"lit", "committed"} /\ Up
        /\ UNCHANGED <<area, file, keymap, confirmed, diskFailed>>
    BY <1>12 DEF Answer, boardVars, shadowVars, Up
  <2>2. CASE acked'[k] = acked[k]
    BY <1>2, <2>1, <2>2
  <2>3. CASE activity = "committed" /\ k[1] \in pushed /\ acked'[k] = keymap[k]
    <3>1. area[k] = keymap[k] /\ confirmed = keymap /\ file.keymap = keymap
      BY <2>1, <2>3 DEF DriverInv, CommitProgress, CommitSaved
    <3>2. keymap[k] \in Nat
      BY <1>1 DEF TypeOK
    <3>3. QED
      BY <2>1, <2>3, <3>1, <3>2
  <2>4. QED
    BY <1>12, <2>1, <2>2, <2>3 DEF Answer
<1>13. QED
  BY <1>3, <1>4, <1>5, <1>6, <1>7, <1>8, <1>9, <1>10, <1>11, <1>12 DEF Next

\* As long as saves and loads succeed, no key falls behind the last acknowledged commit on the
\* board, in the file or in the shadow: not by a failed later commit and its rollback, a crash at
\* any frame, a restart or a read-back (commit_to_nvram, save, load, sync_eeprom).
THEOREM CommittedSurvivesHolds == Spec => []CommittedSurvives
<1>1. Init => Numbered /\ CommitSaved /\ CommittedSurvives
  BY DEF Init, Fresh, Numbered, CommitSaved, CommittedSurvives, NoKeys
<1>2. DriverInv /\ Numbered /\ CommitSaved /\ [Next]_vars => Numbered' /\ CommitSaved'
  BY NextNumbered, NextSaved DEF DriverInv
<1>3. QED
  BY <1>1, <1>2, NextCommitted, DriverCorrect, PTL DEF Spec
=============================================================================

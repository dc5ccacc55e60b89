----------------------------- MODULE DesignLab ------------------------------
(***************************************************************************)
(* The Design Lab of the dashboard (lib/design-lab/store.ts and its          *)
(* dialog): layers over a product photo, one text, a selection, a crop mode  *)
(* and an undo history.  The store mutates its layers in place; gestures     *)
(* commit when they end, sliders and arrow keys when a timer fires, and      *)
(* images answer whenever they have loaded.  Positions, sizes, colours,      *)
(* opacity and visibility are one figure: the act that last changed them.    *)
(***************************************************************************)
EXTENDS Integers, Sequences, FiniteSets, SequencesExt, Lists

CONSTANTS
    HistoryLimit,             \* HISTORY_LIMIT
    MaxLayers, MaxActs, MaxOpens  \* bounds

VARIABLES
    design,    \* what serialize() keeps: layers, text, textSelected, selected
    cropping,  \* the layer in crop mode, or 0
    history,   \* the undo stack
    hidx,      \* where in it the store is
    dialog,    \* whether it is open, and hydrated
    session,   \* how many times it has been opened
    timers,    \* debounced commits that have yet to fire
    drag,      \* the gesture of the pointer
    images,    \* sessions whose new layer's image is still loading
    saved,     \* the design last applied
    counter,   \* nextId
    acts       \* changes made

vars == <<design, cropping, history, hidx, dialog, session, timers, drag, images, saved, counter, acts>>
store == <<design, cropping, history, hidx>>
None == 0
NoDrag == [id |-> None]
Blank == [layers |-> <<>>, text |-> None, textSelected |-> FALSE, selected |-> None]

Ids(d) == {d.layers[i].id : i \in DOMAIN d.layers}
Layer(id) == CHOOSE l \in ToSet(design.layers) : l.id = id
Shown == {l \in ToSet(design.layers) : l.kind = "layer"}
OfKind(layers, kind) == Only(layers, {l \in ToSet(layers) : l.kind = kind})
Overlays(layers) == OfKind(layers, "layer")
Without(layers, id) == Only(layers, {l \in ToSet(layers) : l.id # id})
TopOf(layers) == LET over == Overlays(layers) IN IF over = <<>> THEN None ELSE Last(over).id
NewLayer(id, kind, since, asked) ==
    [id |-> id, kind |-> kind, at |-> acts, style |-> "free", framed |-> FALSE, cropped |-> FALSE,
     locked |-> FALSE, since |-> since, asked |-> asked]
-----------------------------------------------------------------------------
(* commit: what was undone is cut off, and the oldest entry goes at the limit. *)
Push(d) ==
    LET all == Append(SubSeq(history, 1, hidx), d) IN
    /\ history' = IF Len(all) > HistoryLimit THEN Tail(all) ELSE all
    /\ hidx' = Len(history')

(* A discrete act commits what it did; a continuous one only shows it.        *)
Commit(d) == design' = d /\ Push(d)
Notify(d) == design' = d /\ UNCHANGED <<history, hidx>>

Selecting(d, id) == [d EXCEPT !.selected = id, !.textSelected = FALSE]
Changing(d, id, l) == [d EXCEPT !.layers = [i \in DOMAIN @ |-> IF @[i].id = id THEN l ELSE @[i]]]
Edited(id) == Changing(design, id, [Layer(id) EXCEPT !.at = acts + 1])

SelectedLayers == {l \in ToSet(design.layers) : l.id = design.selected}
InCropMode(l) == l.framed /\ cropping = l.id

(* Mutant: the crop is left without an entry in the history. *)
LeaveCropUncommitted(other) ==
    cropping' = (IF cropping = other THEN cropping ELSE None) /\ UNCHANGED <<history, hidx>>

(* Leaving crop mode for another layer, or for the text, commits the crop. *)
LeaveCrop(other) ==
    IF cropping \in {None, other}
    THEN UNCHANGED <<cropping, history, hidx>>
    ELSE cropping' = None /\ Push(design)

Select(id) == LeaveCrop(id) /\ design' = Selecting(design, id)

(* What a merchant does.  The pointer is busy during a drag, the keys are     *)
(* not; what is debounced fires when it likes, or is dropped with its panel.  *)
Acts == dialog.open /\ acts < MaxActs /\ acts' = acts + 1
Pointing == Acts /\ drag = NoDrag
Debounced(kinds) ==
    timers' = {k \in timers \cup kinds : k = "text" => design'.textSelected}
Doing(kinds) == Debounced(kinds) /\ UNCHANGED <<dialog, session, images, saved>>
Still == UNCHANGED <<drag, counter>>
-----------------------------------------------------------------------------
(* Opening.  The stored design comes in when the photo it is drawn on has     *)
(* been measured, or at once when there is none; until then the store has     *)
(* what the last session left.                                                *)
Imported(photo) ==
    LET ground == IF photo THEN <<NewLayer(counter + 1, "background", session', session')>> ELSE <<>>
        over == [i \in DOMAIN saved.layers |->
                    [saved.layers[i] EXCEPT !.id = counter + 1 + i, !.since = session', !.asked = session']]
        layers == ground \o over
    IN [layers |-> layers, text |-> saved.text, selected |-> TopOf(layers),
        textSelected |-> saved.text # None /\ TopOf(layers) = None]

(* Mutant: an import is one more entry of the history that is there. *)
ImportKeepingHistory(photo) == Commit(Imported(photo)) /\ UNCHANGED cropping

(* importDesign: the history starts from what was imported. *)
Import(photo) ==
    /\ design' = Imported(photo)
    /\ history' = <<design'>> /\ hidx' = 1
    /\ UNCHANGED cropping

Hydrate(photo) ==
    /\ Import(photo)
    /\ dialog' = [open |-> TRUE, hydrated |-> TRUE]
    /\ counter' = counter + 1 + Len(saved.layers)
    /\ drag' = IF drag = NoDrag THEN drag ELSE [drag EXCEPT !.attached = FALSE]

Open(photo) ==
    /\ ~dialog.open /\ session < MaxOpens
    /\ session' = session + 1
    /\ IF photo THEN dialog' = [open |-> TRUE, hydrated |-> FALSE] /\ UNCHANGED <<store, counter, drag>>
                ELSE Hydrate(FALSE)
    /\ UNCHANGED <<timers, images, saved, acts>>

PhotoAnswers(loaded) ==
    /\ dialog.open /\ ~dialog.hydrated
    /\ UNCHANGED session
    /\ Hydrate(loaded) /\ Debounced({})
    /\ UNCHANGED <<images, saved, acts>>

(* exportDesign leaves the photo out; a lock is not part of a design.         *)
Exported ==
    [layers |-> [i \in DOMAIN Overlays(design.layers) |->
                    [Overlays(design.layers)[i] EXCEPT !.locked = FALSE]],
     text |-> design.text]

Close ==
    /\ dialog.open /\ drag = NoDrag
    /\ dialog' = [open |-> FALSE, hydrated |-> FALSE] /\ timers' = {}
    /\ UNCHANGED <<store, session, drag, images, counter, acts>>

Apply == Close /\ saved' = Exported
Cancel == Close /\ UNCHANGED saved
-----------------------------------------------------------------------------
(* History. *)
Restore(i) ==
    /\ hidx' = i /\ design' = history[i]
    /\ drag' = IF drag = NoDrag THEN drag ELSE [drag EXCEPT !.attached = FALSE]
    /\ Doing({}) /\ UNCHANGED <<cropping, history, counter>>

Undo == Acts /\ hidx > 1 /\ Restore(hidx - 1)
Redo == Acts /\ hidx < Len(history) /\ Restore(hidx + 1)

TimerFires(kind) ==
    /\ kind \in timers
    /\ Commit(design)
    /\ timers' = timers \ {kind}
    /\ UNCHANGED <<cropping, dialog, session, drag, images, saved, counter, acts>>
-----------------------------------------------------------------------------
(* The keyboard. *)
Deselect == Acts /\ design.selected # None /\ Select(None) /\ Doing({}) /\ Still

(* Mutant: no timer commits what the arrow keys moved. *)
NudgeUntimed == {}

(* The timers an arrow key starts. *)
Nudged == {"nudge"}

Nudge ==
    /\ Acts
    /\ \E l \in SelectedLayers : ~l.locked /\ Notify(Edited(l.id))
    /\ Doing(Nudged) /\ Still /\ UNCHANGED cropping

(* Mutant: the layer that is gone stays selected. *)
KeptAsSelected(d, id) == d

(* removeLayerById: the topmost layer that is left is selected next.          *)
Removed(d, id) == IF d.selected = id THEN Selecting(d, TopOf(d.layers)) ELSE d

Delete(l) ==
    /\ Commit(Removed([design EXCEPT !.layers = Without(@, l.id)], l.id))
    /\ cropping' = IF cropping = l.id THEN None ELSE cropping
    /\ Doing({}) /\ Still

Duplicate(l) ==
    /\ l.kind = "layer" /\ Cardinality(Shown) < MaxLayers
    /\ counter' = counter + 1
    /\ LET i == CHOOSE j \in DOMAIN design.layers : design.layers[j].id = l.id
           copy == [l EXCEPT !.id = counter + 1, !.at = acts + 1]
       IN Commit(Selecting([design EXCEPT !.layers = InsertAt(@, i + 1, copy)], copy.id))
    /\ Doing({}) /\ UNCHANGED <<cropping, drag>>

DeleteKey == Acts /\ \E l \in SelectedLayers : ~l.locked /\ Delete(l)
DuplicateKey == Acts /\ \E l \in SelectedLayers : Duplicate(l)
-----------------------------------------------------------------------------
(* The list of layers, which does not hold the photo. *)
SelectRow(l) == Pointing /\ Select(l.id) /\ Doing({}) /\ Still
DeleteRow(l) == Pointing /\ Delete(l)
DuplicateRow(l) == Pointing /\ Duplicate(l)

(* Mutant: the layer moved up is put under the photo. *)
ReorderedAbove(layers, above) == <<above>> \o Without(layers, above.id)

(* reorderByIds: the ids of the overlays, and the photo back at the bottom.   *)
Reordered(layers, above) ==
    LET over == Overlays(layers)
        i == CHOOSE j \in DOMAIN over : over[j] = above
    IN OfKind(layers, "background") \o (IF i = Len(over) THEN over ELSE [over EXCEPT ![i] = over[i + 1], ![i + 1] = above])

MoveUp(l) ==
    /\ Pointing /\ l # Last(Overlays(design.layers))
    /\ Commit([design EXCEPT !.layers = Reordered(@, l)])
    /\ Doing({}) /\ Still /\ UNCHANGED cropping

ToggleLock(l) ==
    /\ Pointing /\ Commit(Changing(design, l.id, [l EXCEPT !.locked = ~@]))
    /\ Doing({}) /\ Still /\ UNCHANGED cropping

ToggleVisible(l) ==
    /\ Pointing /\ Commit(Edited(l.id))
    /\ Doing({}) /\ Still /\ UNCHANGED cropping

(* A layer's image is loaded before the layer is added.                       *)
AddLayer ==
    /\ Pointing /\ session \notin images
    /\ images' = images \cup {session}
    /\ UNCHANGED <<store, dialog, session, timers, drag, saved, counter>>

ImageLoads(s) ==
    /\ s \in images
    /\ images' = images \ {s}
    /\ IF Cardinality(Shown) < MaxLayers
       THEN /\ Commit(Selecting([design EXCEPT !.layers = Append(@, NewLayer(counter + 1, "layer", session, s))], counter + 1))
            /\ counter' = counter + 1
       ELSE UNCHANGED <<design, history, hidx, counter>>
    /\ Debounced({})
    /\ UNCHANGED <<cropping, dialog, session, drag, saved, acts>>

ImageFails(s) ==
    /\ s \in images /\ images' = images \ {s}
    /\ UNCHANGED <<store, dialog, session, timers, drag, saved, counter, acts>>
-----------------------------------------------------------------------------
(* The one text. *)
AddText ==
    /\ Pointing
    /\ IF design.text = None
       THEN /\ Commit([design EXCEPT !.text = acts + 1, !.selected = None, !.textSelected = TRUE])
            /\ UNCHANGED cropping
       ELSE /\ LeaveCrop(None)
            /\ design' = [design EXCEPT !.selected = None, !.textSelected = TRUE]
    /\ Doing({}) /\ Still

TextPanel == Pointing /\ design.textSelected /\ UNCHANGED cropping /\ Still
UpdateText == TextPanel /\ Commit([design EXCEPT !.text = acts + 1]) /\ Doing({})
SlideText == TextPanel /\ Notify([design EXCEPT !.text = acts + 1]) /\ Doing({"text"})
RemoveText ==
    TextPanel /\ Commit([design EXCEPT !.text = None, !.textSelected = FALSE]) /\ Doing({})

(* A font has loaded, and the text is as wide as it says.                     *)
FontMeasured ==
    /\ Acts /\ design.text # None
    /\ Notify([design EXCEPT !.text = acts + 1])
    /\ Doing({}) /\ Still /\ UNCHANGED cropping
-----------------------------------------------------------------------------
(* The properties of the selected layer. *)
Panel(l) == Pointing /\ ~design.textSelected /\ ~l.locked /\ Still

SetStyle(l, style) ==
    /\ Panel(l)
    /\ Commit(IF InCropMode(l) THEN design
              ELSE Changing(design, l.id, [l EXCEPT !.style = style, !.at = acts + 1]))
    /\ Doing({}) /\ UNCHANGED cropping

(* setShapeOn: the frame a layer has again is none, and its crop goes too.    *)
SetFrame(l) ==
    /\ Panel(l)
    /\ Commit(Changing(design, l.id, [l EXCEPT !.framed = ~@, !.cropped = ~l.framed, !.at = acts + 1,
                                               !.style = IF l.framed THEN "free" ELSE @]))
    /\ cropping' = IF l.framed /\ cropping = l.id THEN None ELSE cropping
    /\ Doing({})

Align(l) ==
    /\ Panel(l) /\ l.style # "cover" /\ ~InCropMode(l)
    /\ Commit(Edited(l.id)) /\ Doing({}) /\ UNCHANGED cropping

Slide(l) == Panel(l) /\ Notify(Edited(l.id)) /\ Doing({"slider"}) /\ UNCHANGED cropping
-----------------------------------------------------------------------------
(* The pointer on the canvas. *)
Grab(id, crop) == drag' = [id |-> id, crop |-> crop, attached |-> TRUE, changed |-> FALSE]

MouseDownOutside ==
    /\ Pointing
    /\ IF cropping # None THEN cropping' = None /\ Commit(design)
       ELSE design.selected # None /\ Select(None)
    /\ Doing({}) /\ Still

MouseDown(l) ==
    /\ Pointing /\ cropping = None
    /\ IF l.id = design.selected THEN UNCHANGED <<design, history, hidx>>
                                 ELSE Notify(Selecting(design, l.id))
    /\ IF l.locked \/ l.style = "cover" THEN UNCHANGED drag ELSE Grab(l.id, FALSE)
    /\ Doing({}) /\ UNCHANGED <<cropping, counter>>

MouseDownInCrop(l) ==
    /\ Pointing /\ cropping = l.id /\ Grab(l.id, TRUE)
    /\ Doing({}) /\ UNCHANGED <<store, counter>>

(* enterCrop gives the layer a crop, which is committed when it is left.      *)
DoubleClick(l) ==
    /\ Pointing
    /\ \/ cropping = l.id /\ cropping' = None /\ Commit(design)
       \/ /\ cropping = None /\ l.framed /\ ~l.locked
          /\ cropping' = l.id
          /\ Notify(Changing(Selecting(design, l.id), l.id, [l EXCEPT !.cropped = TRUE]))
    /\ Doing({}) /\ Still

(* The layer a drag moves is the object it took hold of; restore() has since  *)
(* replaced it.                                                              *)
MouseMove ==
    /\ Acts /\ drag # NoDrag
    /\ drag' = [drag EXCEPT !.changed = TRUE]
    /\ IF drag.attached /\ drag.id \in Ids(design) /\ (drag.crop => Layer(drag.id).framed)
       THEN Notify(Edited(drag.id)) ELSE UNCHANGED <<design, history, hidx>>
    /\ Doing({}) /\ UNCHANGED <<cropping, counter>>

MouseUp ==
    /\ dialog.open /\ drag # NoDrag
    /\ drag' = NoDrag
    /\ IF drag.changed THEN Commit(design) ELSE UNCHANGED <<design, history, hidx>>
    /\ Doing({}) /\ UNCHANGED <<cropping, counter, acts>>
-----------------------------------------------------------------------------
Init ==
    /\ design = Blank /\ cropping = None /\ history = <<>> /\ hidx = 0
    /\ dialog = [open |-> FALSE, hydrated |-> FALSE] /\ session = 0
    /\ timers = {} /\ drag = NoDrag /\ images = {}
    /\ acts = 0 /\ counter = 0
    /\ \E framed \in BOOLEAN :
          saved = [layers |-> <<[NewLayer(0, "layer", 0, 0) EXCEPT !.framed = framed]>>, text |-> None]

OnLayer(l) ==
    \/ SelectRow(l) \/ DeleteRow(l) \/ DuplicateRow(l) \/ MoveUp(l) \/ ToggleLock(l) \/ ToggleVisible(l)
    \/ MouseDown(l) \/ MouseDownInCrop(l) \/ DoubleClick(l)

OnSelected(l) == SetFrame(l) \/ Align(l) \/ Slide(l) \/ \E style \in {"free", "cover"} \ {l.style} : SetStyle(l, style)

Next ==
    \/ \E photo \in BOOLEAN : Open(photo) \/ PhotoAnswers(photo)
    \/ Apply \/ Cancel \/ Undo \/ Redo \/ Deselect \/ Nudge \/ DeleteKey \/ DuplicateKey
    \/ \E k \in timers : TimerFires(k)
    \/ \E s \in images : ImageLoads(s) \/ ImageFails(s)
    \/ AddLayer \/ AddText \/ UpdateText \/ SlideText \/ RemoveText \/ FontMeasured
    \/ MouseDownOutside \/ MouseMove \/ MouseUp
    \/ \E l \in Shown : OnLayer(l)
    \/ \E l \in SelectedLayers : OnSelected(l)

Spec == Init /\ [][Next]_vars
-----------------------------------------------------------------------------
Kept == {history[i] : i \in DOMAIN history}

TypeOK ==
    /\ Len(history) <= HistoryLimit /\ hidx \in 0 .. Len(history)
    /\ dialog.hydrated => dialog.open /\ hidx > 0
    /\ timers \subseteq {"nudge", "slider", "text"} /\ images \subseteq 0 .. MaxOpens
    /\ Cardinality(Shown) <= MaxLayers /\ acts \in 0 .. MaxActs

(* One thing is selected, it is there, and it is not the photo, which stays   *)
(* at the bottom: in what is shown and in whatever an undo can bring back.    *)
Composed(d) ==
    /\ d.selected # None => ~d.textSelected /\ \E l \in ToSet(d.layers) : l.id = d.selected /\ l.kind = "layer"
    /\ d.textSelected => d.text # None
    /\ Cardinality(Ids(d)) = Len(d.layers)
    /\ \A i \in DOMAIN d.layers : d.layers[i].kind = "background" => i = 1
DesignsAreComposed == \A d \in Kept \cup {design} : Composed(d)

(* Between gestures, with no timer to come, the layers on the canvas are       *)
(* those of the entry undo and redo start from.                               *)
CanvasIsCommitted ==
    dialog.hydrated /\ timers = {} /\ drag = NoDrag /\ cropping = None =>
        design.layers = history[hidx].layers

(* Whatever undo brings back came into the store since the dialog was opened, *)
(* and never what an earlier session had and cancelled.                       *)
HistoryIsThisSessions ==
    dialog.hydrated => \A d \in Kept \cup {design}, i \in 1 .. MaxLayers + 1 :
        i \in DOMAIN d.layers => d.layers[i].since = session
-----------------------------------------------------------------------------
(* Refuted.  A layer is added to the design it was asked for: its image may   *)
(* load when the dialog has been opened for another.                          *)
ImagesAreInTime ==
    dialog.hydrated => \A i \in DOMAIN design.layers : design.layers[i].asked = session

(* Refuted.  What is applied is what this session made of the stored design:  *)
(* before the photo has been measured it is what the last one left, or        *)
(* nothing.                                                                   *)
AppliedIsHydrated == [][saved' # saved => dialog.hydrated]_vars

(* Refuted.  A drag moves a layer: after an undo it moves the old object.      *)
DragsReachTheirLayer == drag # NoDrag => drag.attached /\ drag.id \in Ids(design)

(* Refuted.  Choosing a row does not cost the redo: crop mode outlives an      *)
(* undo, and leaving it commits.                                              *)
SelectionKeepsRedo == [][(\E l \in Shown : SelectRow(l)) => history' = history]_vars

(* Refuted.  The same for the text: its panel drops the timer of its sliders   *)
(* when it goes, and a font commits nothing.                                  *)
TextIsCommitted ==
    dialog.hydrated /\ timers = {} /\ drag = NoDrag /\ cropping = None =>
        design.text = history[hidx].text
=============================================================================

----------------------------- MODULE ImageSlot -----------------------------
(***************************************************************************)
(* The image slots of a design page (docs/design/image-slot.js).  Each slot *)
(* takes a picture by drop or file chooser, encodes it, and lets its owner  *)
(* crop or remove it.  All slots share one store, read once from a sidecar  *)
(* file and written back whole.  The read, the encodings and the writes     *)
(* end in any order.                                                       *)
(*                                                                         *)
(* Not represented: pixels and geometry (a crop is a model value, a picture *)
(* the number of the operation that brought it), masks, captions and error  *)
(* texts, files of a refused type, which change nothing, and slots without  *)
(* an id, which are not stored.  Every slot has fit=cover.                  *)
(***************************************************************************)
EXTENDS DesignHost

CONSTANTS
    Ids,        \* the slots of the page
    Authored,   \* those with a src attribute, shown when they hold no picture
    Crops,      \* views of a picture, Plain among them
    Plain,      \* {s: 1, x: 0, y: 0}
    MaxOps,     \* bound: the drops and removals of each slot
    Sidecars    \* what the file may hold at the start

Picture == Nat                      \* 0 is one the file held at the start
Entry   == [u: Picture \cup {None}, v: Crops]
Store   == [Ids -> Entry \cup {None}]

ASSUME SlotAssumption ==
    /\ Authored \subseteq Ids /\ Plain \in Crops /\ MaxOps \in [Ids -> Nat]
    /\ None \notin Ids \cup Crops \cup Picture \cup Entry \cup Store
    /\ Sidecars \subseteq Store

VARIABLES
    disk,       \* the sidecar file
    slots, tombstones, loaded,      \* the store and the hydration
    waiting,    \* load().then(save): saves that wait for the read, 2 for more
    saving, saveDirty, writes,      \* the writer and what it has under way
    gen,        \* _gen of each slot: its operations so far
    encoding,   \* toDataUrl calls under way
    framing,    \* the slot in reframe mode
    view        \* its _view; the view of another slot is the stored one

\* History, read by no step.
VARIABLES
    found,      \* what the read gave, None before it and if it failed
    put,        \* the newest picture put into each slot, by the order of the drops,
    cleared,    \* and its last removal, both numbered by gen; 0 for none
    touched,    \* slots that something was stored for
    recut,      \* slots cropped between a removal and the read
    framed,     \* the picture that is being cropped
    failed      \* the last write failed

storeVars == <<slots, tombstones, loaded, waiting>>
writeVars == <<saving, saveDirty, writes>>
slotVars  == <<disk, storeVars, writeVars, gen, encoding, framing, view,
               found, put, cleared, touched, recut, framed, failed>>

Empty == [i \in Ids |-> None]

SlotInit ==
    /\ disk \in Sidecars
    /\ slots = Empty /\ tombstones = {} /\ loaded = FALSE /\ waiting = 0
    /\ saving = FALSE /\ saveDirty = FALSE /\ writes = {}
    /\ gen = [i \in Ids |-> 0] /\ encoding = {} /\ framing = None /\ view = Plain
    /\ found = None /\ put = gen /\ cleared = gen /\ touched = {} /\ recut = {}
    /\ framed = None /\ failed = FALSE

\* The picture of a slot in a store, and what the slot shows.
PictureIn(store, i) == IF store[i] = None THEN None ELSE store[i].u
Filled(i) == PictureIn(slots, i) # None \/ i \in Authored
StoredView(i) == IF slots[i] = None THEN Plain ELSE slots[i].v

----------------------------------------------------------------------------
(* save.  An operator commented "mutant" is a plausible bug of the          *)
(* definition after it and no part of the model.                           *)

SaveNow(n) ==                       \* mutant: writes are not serialized
    /\ IF n > 0 /\ bridge THEN saving' = TRUE /\ writes' = writes \cup {slots'}
                          ELSE UNCHANGED <<saving, writes>>
    /\ UNCHANGED saveDirty

\* n calls in a row: the first may start a write, the others mark it dirty.
Save(n) ==
    IF n = 0 \/ ~bridge THEN UNCHANGED writeVars
    ELSE IF saving THEN saveDirty' = TRUE /\ UNCHANGED <<saving, writes>>
    ELSE /\ saving' = TRUE
         /\ writes' = writes \cup {slots'}
         /\ saveDirty' = (n > 1)

\* A write ends, with the file written or not; a dirty store goes out again.
WriteEnds == \E w \in writes, ok \in BOOLEAN :
    /\ disk' = IF ok THEN w ELSE disk
    /\ failed' = ~ok
    /\ IF saveDirty THEN /\ writes' = (writes \ {w}) \cup {slots}
                         /\ saveDirty' = FALSE /\ UNCHANGED saving
                    ELSE /\ writes' = writes \ {w}
                         /\ saving' = FALSE /\ UNCHANGED saveDirty
    /\ UNCHANGED <<storeVars, gen, encoding, framing, view,
                   found, put, cleared, touched, recut, framed>>

----------------------------------------------------------------------------
(* load                                                                    *)

Merge(j) ==
    [i \in Ids |->
        IF i \in tombstones THEN None
        ELSE IF slots[i] = None THEN j[i]
        ELSE IF slots[i].u = None /\ j[i] # None THEN [slots[i] EXCEPT !.u = j[i].u]
        ELSE slots[i]]

\* The read ends: with the file, without one, or with an error, which is taken
\* for a file that says nothing.
ReadEnds == \E ok \in BOOLEAN :
    /\ ~loaded
    /\ slots' = IF ok THEN Merge(disk) ELSE slots
    /\ tombstones' = IF ok THEN {} ELSE tombstones
    /\ loaded' = TRUE
    /\ Save(waiting)
    /\ waiting' = 0
    /\ found' = IF ok THEN disk ELSE None
    /\ framed' = IF framing = None THEN None ELSE PictureIn(slots', framing)
    /\ UNCHANGED <<disk, gen, encoding, framing, view,
                   put, cleared, touched, recut, failed>>

----------------------------------------------------------------------------
(* setSlot                                                                 *)

StoreUnread(i, e) ==                \* mutant: the save does not wait for the read
    /\ slots' = [slots EXCEPT ![i] = e]
    /\ tombstones' = IF e # None THEN tombstones \ {i}
                     ELSE IF loaded THEN tombstones ELSE tombstones \cup {i}
    /\ Save(1)
    /\ touched' = touched \cup {i}
    /\ UNCHANGED waiting

SetSlot(i, e) ==
    /\ slots' = [slots EXCEPT ![i] = e]
    /\ tombstones' = IF e # None THEN tombstones \ {i}
                     ELSE IF loaded THEN tombstones ELSE tombstones \cup {i}
    /\ IF loaded THEN Save(1) /\ UNCHANGED waiting
       ELSE UNCHANGED writeVars /\ waiting' = IF waiting = 2 THEN 2 ELSE waiting + 1
    /\ touched' = touched \cup {i}

----------------------------------------------------------------------------
(* The user.  A pointer press outside the slot being cropped ends its       *)
(* reframe mode first, so only the cropped slot is clicked on.             *)

At(i) == framing \in {None, i}

\* _exitReframe(false)
Abandon(i) ==
    /\ framing' = IF framing = i THEN None ELSE framing
    /\ framed' = IF framing = i THEN None ELSE framed
    /\ view' = IF framing = i THEN Plain ELSE view

\* A file is dropped on the slot or chosen for it.
Ingest(i) ==
    /\ gen[i] < MaxOps[i]
    /\ gen' = [gen EXCEPT ![i] = @ + 1]
    /\ encoding' = encoding \cup {[id |-> i, gen |-> gen[i] + 1]}
    /\ UNCHANGED <<disk, storeVars, writeVars, framing, view,
                   found, put, cleared, touched, recut, framed, failed>>

FreshAlways(e) == e \in encoding    \* mutant: the generation is not compared

\* The picture is stored, unless something happened to its slot meanwhile.
Fresh(e) == e.gen = gen[e.id]

\* History: an older picture that comes late does not become the newest.
Newest(e) == [put EXCEPT ![e.id] = IF @ > e.gen THEN @ ELSE e.gen]

EncodedAmidCrop(e) ==               \* mutant: reframe mode goes on
    /\ e \in encoding
    /\ encoding' = encoding \ {e}
    /\ IF Fresh(e) THEN /\ SetSlot(e.id, [u |-> e.gen, v |-> Plain])
                        /\ put' = Newest(e)
       ELSE UNCHANGED <<storeVars, writeVars, put, touched>>
    /\ UNCHANGED <<disk, loaded, gen, found, cleared, recut, failed,
                   framing, framed, view>>

Encoded(e) ==
    /\ e \in encoding
    /\ encoding' = encoding \ {e}
    /\ IF Fresh(e) THEN /\ Abandon(e.id)
                        /\ SetSlot(e.id, [u |-> e.gen, v |-> Plain])
                        /\ put' = Newest(e)
       ELSE UNCHANGED <<storeVars, writeVars, framing, view, framed, put, touched>>
    /\ UNCHANGED <<disk, loaded, gen, found, cleared, recut, failed>>

EncodeFails(e) ==
    /\ e \in encoding
    /\ encoding' = encoding \ {e}
    /\ UNCHANGED <<disk, storeVars, writeVars, gen, framing, view,
                   found, put, cleared, touched, recut, framed, failed>>

\* The Remove button.
Clear(i) ==
    /\ bridge /\ Filled(i) /\ At(i) /\ gen[i] < MaxOps[i]
    /\ Abandon(i)
    /\ gen' = [gen EXCEPT ![i] = @ + 1]
    /\ SetSlot(i, None)
    /\ cleared' = [cleared EXCEPT ![i] = gen[i] + 1]
    /\ UNCHANGED <<disk, loaded, encoding, found, put, recut, failed>>

\* A double click on a filled slot.
EnterReframe(i) ==
    /\ bridge /\ Filled(i) /\ framing = None
    /\ framing' = i
    /\ view' = StoredView(i)
    /\ framed' = PictureIn(slots, i)
    /\ UNCHANGED <<disk, storeVars, writeVars, gen, encoding,
                   found, put, cleared, touched, recut, failed>>

\* Dragging the picture or a corner, or the wheel.
Reframe(v) ==
    /\ framing # None /\ view # v
    /\ view' = v
    /\ UNCHANGED <<disk, storeVars, writeVars, gen, encoding, framing,
                   found, put, cleared, touched, recut, framed, failed>>

\* _commitView: the crop with the picture on show, if the slot holds one.
CropOf(i) == [u |-> PictureIn(slots, i), v |-> view]

\* A second double click, Escape, a press elsewhere, or the Replace button.
Commit ==
    /\ framing # None
    /\ SetSlot(framing, CropOf(framing))
    /\ recut' = IF framing \in tombstones THEN recut \cup {framing} ELSE recut
    /\ framing' = None /\ framed' = None /\ view' = Plain
    /\ UNCHANGED <<disk, loaded, gen, encoding, found, put, cleared, failed>>

\* The element is taken out of the page and put back.
Remount ==
    /\ framing # None
    /\ Abandon(framing)
    /\ UNCHANGED <<disk, storeVars, writeVars, gen, encoding,
                   found, put, cleared, touched, recut, failed>>

SlotNext ==
    \/ ReadEnds \/ WriteEnds \/ Commit \/ Remount
    \/ \E i \in Ids : Ingest(i) \/ Clear(i) \/ EnterReframe(i)
    \/ \E e \in encoding : Encoded(e) \/ EncodeFails(e)
    \/ \E v \in Crops : Reframe(v)

----------------------------------------------------------------------------
(* Properties                                                              *)

SlotTypeOK ==
    /\ loaded \in BOOLEAN /\ saving \in BOOLEAN
    /\ saveDirty \in BOOLEAN /\ failed \in BOOLEAN
    /\ {disk, slots} \cup writes \subseteq Store /\ found \in Store \cup {None}
    /\ tombstones \subseteq Ids /\ touched \subseteq Ids /\ recut \subseteq Ids
    /\ waiting \in 0..2 /\ {gen, put, cleared} \subseteq [Ids -> Nat]
    /\ encoding \subseteq [id: Ids, gen: Picture]
    /\ framing \in Ids \cup {None} /\ view \in Crops /\ framed \in Picture \cup {None}

\* The picture a slot should hold: of those put, the one that was dropped last,
\* unless it was removed since, and the one of the file while nobody put or
\* removed any.
Wanted(i) ==
    IF put[i] > cleared[i] THEN put[i]
    ELSE IF cleared[i] > 0 \/ found = None THEN None
    ELSE PictureIn(found, i)

\* Neither the encoding of an older drop that ends late, nor the late read, nor a
\* crop brings back, replaces or loses a picture.  Left out: a slot that is
\* cropped between a removal and the read gets the removed picture back.
NewestIsHeld == \A i \in Ids \ recut : PictureIn(slots, i) = Wanted(i)

\* Once nothing is being written, the file says what the page holds, unless
\* the read or the last write failed.
SettledIsSaved ==
    bridge /\ loaded /\ found # None /\ writes = {} /\ ~failed => disk = slots

\* Unless the read failed, no write changes what the file holds for a slot
\* nobody touched.
OthersKept ==
    [][(loaded => found # None) => \A i \in Ids \ touched : disk'[i] = disk[i]]_slotVars

\* A new picture ends the cropping of the old one, so a crop is never committed
\* for a picture it was not made on.  Left out: the picture that the read brings.
CropOfItsPicture == framing # None => framed = PictureIn(slots, framing)
=============================================================================

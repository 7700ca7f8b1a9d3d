---------------------------- MODULE DesignProofs ----------------------------
(***************************************************************************)
(* Proofs about the design page: its image slots, its viewport, its         *)
(* prototype and its canvas.  Only one part moves in a behaviour and none    *)
(* shares its state, so each has an inductive invariant of its own.        *)
(***************************************************************************)
EXTENDS DesignPage, SequenceTheorems, WellFoundedInduction, TLAPS

\* A step of the page is one of each part or leaves it alone, and the page and
\* the bridge are always as they were.
LEMMA StepOfParts ==
    ASSUME [PageNext]_pageVars
    PROVE  /\ UNCHANGED hostVars
           /\ SlotNext \/ UNCHANGED slotVars
           /\ CanvasNext \/ UNCHANGED canvasVars
           /\ ViewportNext \/ UNCHANGED viewportVars
           /\ PrototypeNext \/ UNCHANGED prototypeVars
  BY DEF PageNext, pageVars

----------------------------------------------------------------------------
(* Image slots: the inductive invariant                                    *)

\* SlotTypeOK, one variable at a time.
SlotTypes ==
    /\ loaded \in BOOLEAN /\ saving \in BOOLEAN
    /\ saveDirty \in BOOLEAN /\ failed \in BOOLEAN
    /\ disk \in Store /\ slots \in Store /\ (\A w \in writes : w \in Store)
    /\ found \in Store \cup {None}
    /\ tombstones \subseteq Ids /\ touched \subseteq Ids /\ recut \subseteq Ids
    /\ waiting \in 0..2
    /\ gen \in [Ids -> Nat] /\ put \in [Ids -> Nat] /\ cleared \in [Ids -> Nat]
    /\ encoding \subseteq [id: Ids, gen: Picture]
    /\ framing \in Ids \cup {None} /\ view \in Crops /\ framed \in Picture \cup {None}

\* The operations of a slot are numbered: what was put or removed has a number
\* that was given, and an encoding under way one that no removal has.
Numbered ==
    /\ \A i \in Ids : put[i] <= gen[i] /\ cleared[i] <= gen[i]
    /\ \A e \in encoding : /\ e.gen > 0 /\ e.gen <= gen[e.id]
                           /\ cleared[e.id] # e.gen

\* Before the read nothing is known of the file or written to it, and the store
\* holds what was touched.
UnreadStore ==
    ~loaded =>
        /\ found = None /\ writes = {} /\ ~saving /\ ~saveDirty /\ ~failed
        /\ \A i \in Ids \ touched : slots[i] = None /\ i \notin tombstones
        /\ waiting = 0 => slots = Empty /\ tombstones = {}

\* Before the read the tombstones are the slots whose last operation was a
\* removal.
Removed(i) == cleared[i] > 0 /\ ~(put[i] > cleared[i])
Tombstoned == ~loaded => \A i \in Ids \ recut : i \in tombstones <=> Removed(i)

\* One write at a time, of the store as it is unless it is dirty.
OneWrite ==
    /\ saving <=> writes # {}
    /\ \A v, w \in writes : v = w
    /\ saveDirty => saving
    /\ saving => bridge
    /\ loaded /\ saving /\ ~saveDirty => \A w \in writes : w = slots

\* What nobody touched is in the store, and in what is being written, as it is
\* in the file.
AsInFile ==
    loaded /\ found # None =>
        \A i \in Ids \ touched :
            /\ slots[i] = disk[i]
            /\ \A w \in writes : w[i] = disk[i]

SlotInv ==
    /\ SlotTypes /\ Numbered /\ UnreadStore /\ Tombstoned /\ OneWrite /\ AsInFile
    /\ NewestIsHeld /\ SettledIsSaved /\ CropOfItsPicture

LEMMA SlotTypesAreTypes == SlotTypeOK <=> SlotTypes
  BY DEF SlotTypeOK, SlotTypes

LEMMA SlotInitial ==
    ASSUME SlotInit
    PROVE  SlotInv
  <1>1. Empty \in Store /\ None \notin Picture /\ Plain \in Crops
    BY SlotAssumption DEF Empty, Store
  <1>2. [i \in Ids |-> 0] \in [Ids -> Nat]
    OBVIOUS
  <1>3. disk \in Store
    BY SlotAssumption DEF SlotInit
  <1>4. SlotTypes
    <2>1. /\ disk \in Store /\ slots \in Store /\ (\A w \in writes : w \in Store)
          /\ found \in Store \cup {None}
      BY <1>1, <1>3 DEF SlotInit
    <2>2. gen \in [Ids -> Nat] /\ put \in [Ids -> Nat] /\ cleared \in [Ids -> Nat]
      BY <1>2 DEF SlotInit
    <2>3. framing \in Ids \cup {None} /\ view \in Crops /\ framed \in Picture \cup {None}
      BY <1>1 DEF SlotInit
    <2>4. /\ loaded \in BOOLEAN /\ saving \in BOOLEAN
          /\ saveDirty \in BOOLEAN /\ failed \in BOOLEAN
      BY DEF SlotInit
    <2>5. /\ tombstones \subseteq Ids /\ touched \subseteq Ids /\ recut \subseteq Ids
          /\ waiting \in 0..2 /\ encoding \subseteq [id: Ids, gen: Picture]
      BY DEF SlotInit
    <2>. QED
      BY <2>1, <2>2, <2>3, <2>4, <2>5 DEF SlotTypes
  <1>5. Numbered /\ UnreadStore /\ Tombstoned
    BY DEF SlotInit, Empty, Numbered, UnreadStore, Tombstoned, Removed
  <1>6. OneWrite /\ AsInFile
    BY DEF SlotInit, OneWrite, AsInFile
  <1>7. NewestIsHeld /\ SettledIsSaved /\ CropOfItsPicture
    BY DEF SlotInit, Empty, NewestIsHeld, Wanted, PictureIn, SettledIsSaved, CropOfItsPicture
  <1>. QED
    BY <1>4, <1>5, <1>6, <1>7 DEF SlotInv

----------------------------------------------------------------------------
(* Image slots: what is stored and written                                 *)

\* A save that finds no write under way starts one, and leaves the store dirty
\* if there was more than one.
LEMMA SaveEffect ==
    ASSUME NEW n \in Nat, Save(n)
    PROVE  /\ n = 0 \/ ~bridge => UNCHANGED <<saving, saveDirty, writes>>
           /\ n # 0 /\ bridge /\ saving => saveDirty' /\ UNCHANGED <<saving, writes>>
           /\ n # 0 /\ bridge /\ ~saving =>
                 saving' /\ writes' = writes \cup {slots'} /\ (saveDirty' <=> n > 1)
  BY Zenon DEF Save, writeVars

LEMMA SaveTyped ==
    ASSUME SlotTypes, slots' \in Store, NEW n \in Nat, Save(n)
    PROVE  /\ saving' \in BOOLEAN /\ saveDirty' \in BOOLEAN
           /\ \A w \in writes' : w \in Store
  <1>1. /\ saving \in BOOLEAN /\ saveDirty \in BOOLEAN
        /\ \A w \in writes : w \in Store
    BY DEF SlotTypes
  <1>2. CASE n = 0 \/ ~bridge
    BY <1>1, <1>2, SaveEffect
  <1>3. CASE n # 0 /\ bridge /\ saving
    <2>1. saveDirty' = TRUE /\ saving' = saving /\ writes' = writes
      BY <1>3, Zenon DEF Save
    <2>. QED
      BY <1>1, <2>1
  <1>4. CASE n # 0 /\ bridge /\ ~saving
    <2>1. saving' = TRUE /\ writes' = writes \cup {slots'} /\ saveDirty' = (n > 1)
      BY <1>4, Zenon DEF Save
    <2>2. (n > 1) \in BOOLEAN
      OBVIOUS
    <2>3. saveDirty' \in BOOLEAN /\ saving' \in BOOLEAN
      BY <2>1, <2>2, Zenon
    <2>. QED
      BY <1>1, <2>1, <2>3
  <1>. QED
    BY <1>2, <1>3, <1>4

LEMMA SetSlotTyped ==
    ASSUME SlotTypes, NEW i \in Ids, NEW e \in Entry \cup {None}, SetSlot(i, e)
    PROVE  /\ slots' \in Store /\ slots' = [slots EXCEPT ![i] = e]
           /\ tombstones' \subseteq Ids /\ touched' \subseteq Ids /\ waiting' \in 0..2
           /\ saving' \in BOOLEAN /\ saveDirty' \in BOOLEAN
           /\ \A w \in writes' : w \in Store
  <1>1. slots' \in Store /\ slots' = [slots EXCEPT ![i] = e]
    BY DEF SetSlot, SlotTypes, Store
  <1>2. tombstones' \subseteq Ids /\ touched' \subseteq Ids /\ waiting' \in 0..2
    BY DEF SetSlot, SlotTypes
  <1>3. /\ saving' \in BOOLEAN /\ saveDirty' \in BOOLEAN
        /\ \A w \in writes' : w \in Store
    BY <1>1, SaveTyped DEF SetSlot, SlotTypes, writeVars
  <1>. QED
    BY <1>1, <1>2, <1>3

\* Storing something for a slot keeps the writer to its rules.
LEMMA SetSlotWrites ==
    ASSUME SlotInv, NEW i \in Ids, NEW e \in Entry \cup {None}, SetSlot(i, e),
           UNCHANGED <<bridge, disk, loaded, found, failed>>
    PROVE  UnreadStore' /\ OneWrite' /\ AsInFile' /\ SettledIsSaved'
  <1>1. slots' = [slots EXCEPT ![i] = e] /\ slots \in Store /\ touched' = touched \cup {i}
    BY SetSlotTyped DEF SetSlot, SlotInv, SlotTypes
  <1>2. \A j \in Ids \ touched' : slots'[j] = slots[j] /\ j \notin touched
    BY <1>1 DEF Store
  <1>3. CASE ~loaded
    <2>1. UNCHANGED writeVars /\ waiting' # 0
      BY <1>3 DEF SetSlot, SlotInv, SlotTypes
    <2>2. \A j \in Ids \ touched' : j \in tombstones' => j \in tombstones
      BY <1>1 DEF SetSlot
    <2>3. UnreadStore'
      BY <1>2, <1>3, <2>1, <2>2 DEF SlotInv, UnreadStore, writeVars
    <2>. QED
      BY <1>3, <2>1, <2>3 DEF SlotInv, OneWrite, AsInFile, SettledIsSaved, UnreadStore, writeVars
  <1>4. CASE loaded
    <2>1. UnreadStore' /\ SlotInv
      BY <1>4 DEF UnreadStore
    <2>2. CASE ~bridge
      <3>1. UNCHANGED writeVars
        BY <1>4, <2>2, SaveEffect DEF SetSlot, writeVars
      <3>2. OneWrite'
        BY <2>2, <3>1 DEF SlotInv, OneWrite, writeVars
      <3>3. AsInFile' /\ SettledIsSaved'
        BY <1>2, <2>2, <3>1 DEF SlotInv, AsInFile, SettledIsSaved, writeVars
      <3>. QED
        BY <2>1, <3>2, <3>3
    <2>3. CASE bridge /\ saving
      <3>1. saveDirty' /\ saving' = saving /\ writes' = writes
        <4>1. Save(1)
          BY <1>4, Zenon DEF SetSlot
        <4>2. 1 \in Nat /\ 1 # 0
          OBVIOUS
        <4>3. saveDirty' /\ UNCHANGED <<saving, writes>>
          BY <2>3, <4>1, <4>2, SaveEffect, Zenon
        <4>. QED
          BY <4>3
      <3>2. OneWrite'
        BY <2>3, <3>1 DEF SlotInv, OneWrite
      <3>3. AsInFile' /\ SettledIsSaved'
        BY <1>2, <2>3, <3>1 DEF SlotInv, OneWrite, AsInFile, SettledIsSaved
      <3>. QED
        BY <2>1, <3>2, <3>3
    <2>4. CASE bridge /\ ~saving
      <3>1. saving' /\ ~saveDirty' /\ writes' = {slots'}
        BY <1>4, <2>4, SaveEffect DEF SetSlot, SlotInv, OneWrite
      <3>2. OneWrite'
        BY <2>4, <3>1 DEF OneWrite
      <3>3. AsInFile' /\ SettledIsSaved'
        BY <1>2, <3>1 DEF SlotInv, AsInFile, SettledIsSaved
      <3>. QED
        BY <2>1, <3>2, <3>3
    <2>. QED
      BY <2>2, <2>3, <2>4
  <1>. QED
    BY <1>3, <1>4 DEF SlotInv, SlotTypes
----------------------------------------------------------------------------
(* Image slots: one lemma per action                                       *)

LEMMA WriteEndsKeeps ==
    ASSUME SlotInv, UNCHANGED bridge, WriteEnds
    PROVE  SlotInv'
  <1>1. PICK w \in writes, ok \in BOOLEAN :
          /\ disk' = IF ok THEN w ELSE disk
          /\ failed' = ~ok
          /\ IF saveDirty THEN /\ writes' = (writes \ {w}) \cup {slots}
                               /\ saveDirty' = FALSE /\ UNCHANGED saving
                          ELSE /\ writes' = writes \ {w}
                               /\ saving' = FALSE /\ UNCHANGED saveDirty
    BY Zenon DEF WriteEnds
  <1>2. UNCHANGED <<slots, tombstones, loaded, waiting, gen, encoding, framing, view,
                    found, put, cleared, touched, recut, framed>>
    BY DEF WriteEnds, storeVars
  <1>3. writes = {w} /\ saving /\ loaded /\ bridge
    BY DEF SlotInv, OneWrite, UnreadStore
  <1>4. CASE saveDirty
    <2>1. writes' = {slots} /\ saveDirty' = FALSE /\ saving' = saving
      BY <1>1, <1>3, <1>4
    <2>2. SlotTypes'
      <3>1. disk' \in Store /\ (\A v \in writes' : v \in Store)
        BY <1>1, <2>1 DEF SlotInv, SlotTypes
      <3>2. failed' \in BOOLEAN /\ saveDirty' \in BOOLEAN /\ saving' \in BOOLEAN
        BY <1>1, <2>1, Zenon DEF SlotInv, SlotTypes
      <3>. QED
        BY <1>2, <3>1, <3>2 DEF SlotInv, SlotTypes
    <2>3. OneWrite' /\ UnreadStore'
      BY <1>2, <1>3, <2>1 DEF OneWrite, UnreadStore
    <2>4. AsInFile' /\ SettledIsSaved'
      BY <1>1, <1>2, <1>3, <2>1 DEF SlotInv, AsInFile, SettledIsSaved
    <2>. QED
      BY <1>2, <2>2, <2>3, <2>4 DEF SlotInv, Numbered, Tombstoned, Removed, NewestIsHeld, Wanted,
         PictureIn, CropOfItsPicture
  <1>5. CASE ~saveDirty
    <2>1. writes' = {} /\ ~saveDirty' /\ saveDirty' = saveDirty /\ saving' = FALSE
      BY <1>1, <1>3, <1>5
    <2>2. SlotTypes'
      <3>1. disk' \in Store /\ (\A v \in writes' : v \in Store)
        BY <1>1, <2>1 DEF SlotInv, SlotTypes
      <3>2. failed' \in BOOLEAN /\ saveDirty' \in BOOLEAN /\ saving' \in BOOLEAN
        BY <1>1, <2>1, Zenon DEF SlotInv, SlotTypes
      <3>. QED
        BY <1>2, <3>1, <3>2 DEF SlotInv, SlotTypes
    <2>3. OneWrite' /\ UnreadStore'
      BY <1>2, <1>3, <2>1 DEF OneWrite, UnreadStore
    <2>4. w = slots
      BY <1>3, <1>5 DEF SlotInv, OneWrite
    <2>5. AsInFile' /\ SettledIsSaved'
      BY <1>1, <1>2, <1>3, <2>1, <2>4 DEF SlotInv, AsInFile, SettledIsSaved
    <2>. QED
      BY <1>2, <2>2, <2>3, <2>5 DEF SlotInv, Numbered, Tombstoned, Removed, NewestIsHeld, Wanted,
         PictureIn, CropOfItsPicture
  <1>. QED
    BY <1>4, <1>5

\* What the merge leaves of a slot.
LEMMA MergeEffect ==
    ASSUME SlotTypes, NEW i \in Ids
    PROVE  /\ Merge(disk) \in Store
           /\ i \in tombstones => Merge(disk)[i] = None
           /\ i \notin tombstones /\ slots[i] = None => Merge(disk)[i] = disk[i]
           /\ PictureIn(Merge(disk), i) =
                IF i \in tombstones THEN None
                ELSE IF PictureIn(slots, i) # None THEN PictureIn(slots, i)
                ELSE PictureIn(disk, i)
  <1>1. \A j \in Ids : disk[j] \in Entry \cup {None} /\ slots[j] \in Entry \cup {None}
    BY DEF SlotTypes, Store
  <1>2. ASSUME NEW j \in Ids PROVE Merge(disk)[j] \in Entry \cup {None}
    BY <1>1 DEF Merge, Entry
  <1>3. Merge(disk) \in Store
    BY <1>2 DEF Merge, Store
  <1>4. i \in tombstones => Merge(disk)[i] = None
    BY DEF Merge
  <1>5. i \notin tombstones /\ slots[i] = None => Merge(disk)[i] = disk[i]
    BY DEF Merge
  <1>6. ASSUME i \notin tombstones, slots[i] # None, slots[i].u = None
        PROVE  PictureIn(Merge(disk), i) = PictureIn(disk, i)
    <2>1. slots[i] \in Entry
      BY <1>1, <1>6
    <2>2. None \notin Entry
      BY SlotAssumption
    <2>3. CASE disk[i] = None
      BY <1>6, <2>3 DEF Merge, PictureIn
    <2>4. CASE disk[i] # None
      <3>1. Merge(disk)[i] = [slots[i] EXCEPT !.u = disk[i].u]
        BY <1>6, <2>4 DEF Merge
      <3>2. Merge(disk)[i].u = disk[i].u
        BY <2>1, <3>1 DEF Entry
      <3>3. Merge(disk)[i] # None
        BY <1>2, <2>1, <2>2, <2>4, <3>1, <1>1 DEF Entry
      <3>. QED
        BY <2>4, <3>2, <3>3 DEF PictureIn
    <2>. QED
      BY <2>3, <2>4
  <1>7. ASSUME i \notin tombstones, slots[i] # None, slots[i].u # None
        PROVE  Merge(disk)[i] = slots[i]
    BY <1>7 DEF Merge
  <1>. QED
    BY <1>3, <1>4, <1>5, <1>6, <1>7 DEF PictureIn

\* The read ends while nothing is being written; a save that waited for it
\* starts the first write.
LEMMA ReadEndsWrites ==
    ASSUME SlotInv, UNCHANGED bridge, ReadEnds
    PROVE  /\ slots' \in Store /\ saving' \in BOOLEAN /\ saveDirty' \in BOOLEAN
           /\ \A w \in writes' : w \in Store
           /\ OneWrite' /\ AsInFile' /\ SettledIsSaved'
  <1>1. PICK ok \in BOOLEAN :
          /\ ~loaded
          /\ slots' = IF ok THEN Merge(disk) ELSE slots
          /\ loaded' = TRUE
          /\ Save(waiting)
          /\ found' = IF ok THEN disk ELSE None
          /\ UNCHANGED <<disk, touched, failed>>
    BY Zenon DEF ReadEnds
  <1>2. waiting \in Nat
    BY DEF SlotInv, SlotTypes
  <1>3. slots' \in Store
    <2>1. CASE ok
      <3>1. CASE Ids = {}
        BY <1>1, <2>1, <3>1 DEF Merge, Store
      <3>2. CASE Ids # {}
        BY <1>1, <2>1, <3>2, MergeEffect DEF SlotInv
      <3>. QED
        BY <3>1, <3>2
    <2>. QED
      BY <1>1, <2>1 DEF SlotInv, SlotTypes
  <1>4. saving' \in BOOLEAN /\ saveDirty' \in BOOLEAN /\ (\A w \in writes' : w \in Store)
    BY <1>1, <1>2, <1>3, SaveTyped DEF SlotInv
  <1>5. ~loaded /\ found = None /\ writes = {} /\ ~saving /\ ~saveDirty /\ ~failed
    BY <1>1 DEF SlotInv, UnreadStore
  <1>6. ASSUME found' # None, NEW i \in Ids \ touched'
        PROVE  slots'[i] = disk'[i]
    <2>1. slots[i] = None /\ i \notin tombstones
      BY <1>1, <1>6 DEF SlotInv, UnreadStore
    <2>. QED
      BY <1>1, <1>6, <2>1, MergeEffect DEF SlotInv
  <1>7. CASE waiting = 0 \/ ~bridge
    <2>1. UNCHANGED <<saving, saveDirty, writes>>
      BY <1>1, <1>2, <1>7, SaveEffect
    <2>2. OneWrite'
      BY <1>5, <2>1 DEF OneWrite
    <2>3. AsInFile'
      BY <1>5, <1>6, <2>1 DEF AsInFile
    <2>4. ASSUME waiting = 0, found' # None PROVE disk' = slots'
      <3>1. slots = Empty /\ tombstones = {}
        BY <1>1, <2>4 DEF SlotInv, UnreadStore
      <3>2. Merge(disk) = [i \in Ids |-> disk[i]]
        BY <3>1 DEF Merge, Empty
      <3>. QED
        BY <1>1, <2>4, <3>2 DEF SlotInv, SlotTypes, Store
    <2>5. SettledIsSaved'
      BY <1>7, <2>4 DEF SettledIsSaved
    <2>. QED
      BY <1>3, <1>4, <2>2, <2>3, <2>5
  <1>8. CASE waiting # 0 /\ bridge
    <2>1. saving' /\ writes' = {slots'}
      BY <1>1, <1>2, <1>5, <1>8, SaveEffect
    <2>2. OneWrite'
      BY <1>8, <2>1 DEF OneWrite
    <2>3. AsInFile' /\ SettledIsSaved'
      BY <1>6, <2>1 DEF AsInFile, SettledIsSaved
    <2>. QED
      BY <1>3, <1>4, <2>2, <2>3
  <1>. QED
    BY <1>7, <1>8

LEMMA ReadEndsKeeps ==
    ASSUME SlotInv, UNCHANGED bridge, ReadEnds
    PROVE  SlotInv'
  <1>1. PICK ok \in BOOLEAN :
          /\ ~loaded
          /\ slots' = IF ok THEN Merge(disk) ELSE slots
          /\ tombstones' = IF ok THEN {} ELSE tombstones
          /\ loaded' = TRUE
          /\ waiting' = 0
          /\ found' = IF ok THEN disk ELSE None
          /\ framed' = IF framing = None THEN None ELSE PictureIn(slots', framing)
          /\ UNCHANGED <<disk, gen, encoding, framing, view,
                         put, cleared, touched, recut, failed>>
    BY Zenon DEF ReadEnds
  <1>2. slots' \in Store /\ (\A i \in Ids : slots'[i] \in Entry \cup {None})
    BY ReadEndsWrites DEF Store
  <1>3. framed' \in Picture \cup {None}
    BY <1>1, <1>2 DEF PictureIn, Entry, SlotInv, SlotTypes
  <1>4. tombstones' \subseteq Ids /\ waiting' \in 0..2 /\ found' \in Store \cup {None}
    BY <1>1 DEF SlotInv, SlotTypes
  <1>5. loaded' \in BOOLEAN /\ failed' \in BOOLEAN
    BY <1>1, Zenon DEF SlotInv, SlotTypes
  <1>6. SlotTypes'
    BY <1>1, <1>2, <1>3, <1>4, <1>5, ReadEndsWrites DEF SlotInv, SlotTypes
  <1>7. UnreadStore' /\ Tombstoned' /\ Numbered'
    BY <1>1 DEF UnreadStore, Tombstoned, SlotInv, Numbered
  <1>8. CropOfItsPicture'
    BY <1>1 DEF CropOfItsPicture, PictureIn
  <1>9. ASSUME NEW i \in Ids \ recut PROVE PictureIn(slots', i) = Wanted(i)'
    <2>1. /\ PictureIn(slots, i) = Wanted(i) /\ found = None
          /\ i \in tombstones <=> Removed(i)
      BY <1>1 DEF SlotInv, NewestIsHeld, UnreadStore, Tombstoned
    <2>2. put[i] \in Nat /\ cleared[i] \in Nat /\ None \notin Nat
      BY SlotAssumption DEF SlotInv, SlotTypes, Picture
    <2>3. CASE ~ok
      BY <1>1, <2>1, <2>3 DEF Wanted, PictureIn
    <2>4. CASE ok
      <3>1. PictureIn(Merge(disk), i) =
                IF i \in tombstones THEN None
                ELSE IF PictureIn(slots, i) # None THEN PictureIn(slots, i)
                ELSE PictureIn(disk, i)
        BY MergeEffect DEF SlotInv
      <3>2. disk # None
        BY SlotAssumption DEF SlotInv, UnreadStore, SlotTypes, Store
      <3>3. Wanted(i)' = IF put[i] > cleared[i] THEN put[i]
                         ELSE IF cleared[i] > 0 THEN None ELSE PictureIn(disk, i)
        BY <1>1, <2>4, <3>2 DEF Wanted, PictureIn
      <3>. QED
        BY <1>1, <2>1, <2>2, <2>4, <3>1, <3>3 DEF Wanted, Removed, PictureIn
    <2>. QED
      BY <2>3, <2>4
  <1>10. NewestIsHeld'
    BY <1>1, <1>9 DEF NewestIsHeld, PictureIn
  <1>. QED
    BY <1>6, <1>7, <1>8, <1>10, ReadEndsWrites DEF SlotInv

LEMMA EncodedKeeps ==
    ASSUME SlotInv, UNCHANGED bridge, NEW e \in encoding, Encoded(e)
    PROVE  SlotInv'
  <1>1. /\ encoding' = encoding \ {e}
        /\ UNCHANGED <<disk, loaded, gen, found, cleared, recut, failed>>
    BY DEF Encoded
  <1>2. /\ e \in [id: Ids, gen: Picture] /\ e.id \in Ids /\ e.gen \in Nat
        /\ e.gen > 0 /\ e.gen <= gen[e.id] /\ cleared[e.id] # e.gen
    BY DEF SlotInv, SlotTypes, Picture, Numbered
  <1>3. CASE ~Fresh(e)
    <2>1. UNCHANGED <<storeVars, writeVars, framing, view, framed, put, touched>>
      BY <1>3, Zenon DEF Encoded
    <2>2. UNCHANGED <<slots, tombstones, loaded, waiting, saving, saveDirty, writes,
                      framing, view, framed, put, touched>>
      BY <2>1 DEF storeVars, writeVars
    <2>3. Numbered' /\ SlotTypes'
      BY <1>1, <2>2 DEF SlotInv, Numbered, SlotTypes
    <2>. QED
      BY <1>1, <2>2, <2>3 DEF SlotInv, UnreadStore, Tombstoned, Removed, OneWrite, AsInFile,
         NewestIsHeld, Wanted, PictureIn, SettledIsSaved, CropOfItsPicture
  <1>4. CASE Fresh(e)
    <2> DEFINE it == [u |-> e.gen, v |-> Plain]
    <2>1. Abandon(e.id) /\ SetSlot(e.id, it) /\ put' = Newest(e)
      BY <1>4, Zenon DEF Encoded
    <2>2. it \in Entry /\ it # None /\ it.u = e.gen
      BY <1>2, SlotAssumption DEF Entry, Picture
    <2> HIDE DEF it
    <2>3. /\ slots' = [slots EXCEPT ![e.id] = it] /\ slots \in Store
          /\ tombstones' = tombstones \ {e.id}
      BY <1>2, <2>1, <2>2, SetSlotTyped DEF SlotInv, SetSlot, SlotTypes
    <2>4. UnreadStore' /\ OneWrite' /\ AsInFile' /\ SettledIsSaved'
      BY <1>1, <1>2, <2>1, <2>2, SetSlotWrites
    <2>5. SlotTypes'
      <3>1. framing' \in Ids \cup {None} /\ view' \in Crops /\ framed' \in Picture \cup {None}
        BY <2>1, SlotAssumption DEF Abandon, SlotInv, SlotTypes
      <3>2. put' \in [Ids -> Nat] /\ encoding' \subseteq [id: Ids, gen: Picture]
        BY <1>1, <1>2, <2>1 DEF SlotInv, SlotTypes, Newest
      <3>3. /\ slots' \in Store /\ tombstones' \subseteq Ids /\ touched' \subseteq Ids
            /\ waiting' \in 0..2 /\ saving' \in BOOLEAN /\ saveDirty' \in BOOLEAN
            /\ \A w \in writes' : w \in Store
        BY <1>2, <2>1, <2>2, SetSlotTyped DEF SlotInv
      <3>. QED
        BY <1>1, <3>1, <3>2, <3>3 DEF SlotInv, SlotTypes
    <2>6. put'[e.id] = e.gen /\ \A i \in Ids : i # e.id => put'[i] = put[i]
      <3>1. e.gen = gen[e.id] /\ put[e.id] <= gen[e.id] /\ put \in [Ids -> Nat]
        BY <1>2, <1>4 DEF Fresh, SlotInv, Numbered, SlotTypes
      <3>. QED
        BY <1>2, <2>1, <3>1 DEF Newest
    <2>7. cleared[e.id] \in Nat /\ gen[e.id] \in Nat /\ put'[e.id] > cleared[e.id]
      BY <1>2, <1>4, <2>6 DEF SlotInv, SlotTypes, Numbered, Fresh
    <2>8. Numbered'
      BY <1>1, <1>2, <2>6 DEF SlotInv, Numbered
    <2>9. Tombstoned'
      BY <1>1, <2>3, <2>6, <2>7 DEF SlotInv, Tombstoned, Removed
    <2>10. /\ PictureIn(slots', e.id) = e.gen
           /\ \A i \in Ids : i # e.id => PictureIn(slots', i) = PictureIn(slots, i)
      BY <1>2, <2>2, <2>3 DEF PictureIn, Store
    <2>11. NewestIsHeld'
      <3>1. ASSUME NEW i \in Ids \ recut PROVE PictureIn(slots', i) = Wanted(i)'
        <4>1. CASE i = e.id
          BY <1>1, <2>6, <2>7, <2>10, <4>1 DEF Wanted
        <4>2. CASE i # e.id
          <5>1. Wanted(i)' = Wanted(i)
            BY <1>1, <2>6, <4>2 DEF Wanted, PictureIn
          <5>. QED
            BY <2>10, <4>2, <5>1 DEF SlotInv, NewestIsHeld
        <4>. QED
          BY <4>1, <4>2
      <3>. QED
        BY <1>1, <3>1 DEF NewestIsHeld, PictureIn
    <2>12. CropOfItsPicture'
      <3>1. framing' # None => framing' = framing /\ framed' = framed /\ framing \in Ids
                               /\ framing # e.id
        BY <2>1 DEF Abandon, SlotInv, SlotTypes
      <3>2. framing' # None => framed' = PictureIn(slots', framing')
        BY <2>10, <3>1 DEF SlotInv, CropOfItsPicture
      <3>. QED
        BY <3>2 DEF CropOfItsPicture, PictureIn
    <2>. QED
      BY <2>4, <2>5, <2>8, <2>9, <2>11, <2>12 DEF SlotInv
  <1>. QED
    BY <1>3, <1>4

LEMMA EncodeFailsKeeps ==
    ASSUME SlotInv, UNCHANGED bridge, NEW e \in encoding, EncodeFails(e)
    PROVE  SlotInv'
  <1>1. /\ encoding' = encoding \ {e}
        /\ UNCHANGED <<disk, slots, tombstones, loaded, waiting, saving, saveDirty, writes,
                       gen, framing, view, found, put, cleared, touched, recut, framed, failed>>
    BY DEF EncodeFails, storeVars, writeVars
  <1>2. Numbered' /\ SlotTypes'
    BY <1>1 DEF SlotInv, Numbered, SlotTypes
  <1>. QED
    BY <1>1, <1>2 DEF SlotInv, UnreadStore, Tombstoned, Removed, OneWrite, AsInFile,
       NewestIsHeld, Wanted, PictureIn, SettledIsSaved, CropOfItsPicture

LEMMA IngestKeeps ==
    ASSUME SlotInv, UNCHANGED bridge, NEW i \in Ids, Ingest(i)
    PROVE  SlotInv'
  <1>1. /\ gen' = [gen EXCEPT ![i] = gen[i] + 1]
        /\ encoding' = encoding \cup {[id |-> i, gen |-> gen[i] + 1]}
        /\ UNCHANGED <<disk, slots, tombstones, loaded, waiting, saving, saveDirty, writes,
                       framing, view, found, put, cleared, touched, recut, framed, failed>>
    BY DEF Ingest, storeVars, writeVars
  <1>2. gen[i] \in Nat /\ \A j \in Ids : gen[j] \in Nat /\ put[j] \in Nat /\ cleared[j] \in Nat
    BY DEF SlotInv, SlotTypes
  <1>3. \A j \in Ids : gen'[j] = IF j = i THEN gen[i] + 1 ELSE gen[j]
    BY <1>1 DEF SlotInv, SlotTypes
  <1>4. gen' \in [Ids -> Nat] /\ encoding' \subseteq [id: Ids, gen: Picture]
    BY <1>1, <1>2 DEF SlotInv, SlotTypes, Picture
  <1>5. SlotTypes'
    BY <1>1, <1>4 DEF SlotInv, SlotTypes
  <1>6. Numbered'
    <2>1. \A j \in Ids : put[j] <= gen'[j] /\ cleared[j] <= gen'[j]
      BY <1>2, <1>3 DEF SlotInv, Numbered
    <2>2. ASSUME NEW e \in encoding
          PROVE  e.gen > 0 /\ e.gen <= gen'[e.id] /\ cleared[e.id] # e.gen
      <3>1. e.id \in Ids /\ e.gen \in Nat
        BY DEF SlotInv, SlotTypes, Picture
      <3>. QED
        BY <1>2, <1>3, <3>1 DEF SlotInv, Numbered
    <2>3. cleared[i] # gen[i] + 1 /\ gen[i] + 1 > 0 /\ gen[i] + 1 <= gen'[i]
      BY <1>2, <1>3 DEF SlotInv, Numbered
    <2>. QED
      BY <1>1, <2>1, <2>2, <2>3 DEF Numbered
  <1>. QED
    BY <1>1, <1>5, <1>6 DEF SlotInv, UnreadStore, Tombstoned, Removed, OneWrite, AsInFile,
       NewestIsHeld, Wanted, PictureIn, SettledIsSaved, CropOfItsPicture

LEMMA ClearKeeps ==
    ASSUME SlotInv, UNCHANGED bridge, NEW i \in Ids, Clear(i)
    PROVE  SlotInv'
  <1>1. /\ Abandon(i) /\ At(i) /\ SetSlot(i, None)
        /\ gen' = [gen EXCEPT ![i] = gen[i] + 1]
        /\ cleared' = [cleared EXCEPT ![i] = gen[i] + 1]
        /\ UNCHANGED <<disk, loaded, encoding, found, put, recut, failed>>
    BY DEF Clear
  <1>2. \A j \in Ids : gen[j] \in Nat /\ put[j] \in Nat /\ cleared[j] \in Nat
    BY DEF SlotInv, SlotTypes
  <1>3. \A j \in Ids : /\ gen'[j] = IF j = i THEN gen[i] + 1 ELSE gen[j]
                       /\ cleared'[j] = IF j = i THEN gen[i] + 1 ELSE cleared[j]
    BY <1>1 DEF SlotInv, SlotTypes
  <1>4. /\ slots' = [slots EXCEPT ![i] = None] /\ slots \in Store
        /\ tombstones' = IF loaded THEN tombstones ELSE tombstones \cup {i}
    BY <1>1, SetSlotTyped DEF SlotInv, SetSlot, SlotTypes
  <1>5. UnreadStore' /\ OneWrite' /\ AsInFile' /\ SettledIsSaved'
    BY <1>1, SetSlotWrites
  <1>6. SlotTypes'
    <2>1. framing' \in Ids \cup {None} /\ view' \in Crops /\ framed' \in Picture \cup {None}
      BY <1>1, SlotAssumption DEF Abandon, SlotInv, SlotTypes
    <2>2. gen' \in [Ids -> Nat] /\ cleared' \in [Ids -> Nat]
      BY <1>1, <1>2 DEF SlotInv, SlotTypes
    <2>3. /\ slots' \in Store /\ tombstones' \subseteq Ids /\ touched' \subseteq Ids
          /\ waiting' \in 0..2 /\ saving' \in BOOLEAN /\ saveDirty' \in BOOLEAN
          /\ \A w \in writes' : w \in Store
      BY <1>1, SetSlotTyped DEF SlotInv
    <2>. QED
      BY <1>1, <2>1, <2>2, <2>3 DEF SlotInv, SlotTypes
  <1>7. Numbered'
    <2>1. \A j \in Ids : put[j] <= gen'[j] /\ cleared'[j] <= gen'[j]
      BY <1>2, <1>3 DEF SlotInv, Numbered
    <2>2. ASSUME NEW e \in encoding
          PROVE  e.gen > 0 /\ e.gen <= gen'[e.id] /\ cleared'[e.id] # e.gen
      <3>1. e.id \in Ids /\ e.gen \in Nat
        BY DEF SlotInv, SlotTypes, Picture
      <3>. QED
        BY <1>2, <1>3, <3>1 DEF SlotInv, Numbered
    <2>. QED
      BY <1>1, <2>1, <2>2 DEF Numbered
  <1>8. cleared'[i] > 0 /\ ~(put[i] > cleared'[i])
    BY <1>2, <1>3 DEF SlotInv, Numbered
  <1>9. Tombstoned'
    BY <1>1, <1>3, <1>4, <1>8 DEF SlotInv, Tombstoned, Removed
  <1>10. \A j \in Ids : slots'[j] = IF j = i THEN None ELSE slots[j]
    BY <1>4 DEF Store
  <1>11. NewestIsHeld'
    <2>1. ASSUME NEW j \in Ids \ recut PROVE PictureIn(slots', j) = Wanted(j)'
      <3>1. CASE j = i
        BY <1>1, <1>8, <1>10, <3>1 DEF Wanted, PictureIn
      <3>2. CASE j # i
        <4>1. Wanted(j)' = Wanted(j)
          BY <1>1, <1>3, <3>2 DEF Wanted, PictureIn
        <4>. QED
          BY <1>10, <3>2, <4>1 DEF SlotInv, NewestIsHeld, PictureIn
      <3>. QED
        BY <3>1, <3>2
    <2>. QED
      BY <1>1, <2>1 DEF NewestIsHeld, PictureIn
  <1>12. CropOfItsPicture'
    BY <1>1 DEF At, Abandon, CropOfItsPicture
  <1>. QED
    BY <1>5, <1>6, <1>7, <1>9, <1>11, <1>12 DEF SlotInv

\* Entering and leaving the reframe mode, and moving the picture, stores nothing.
LEMMA FramingKeeps ==
    ASSUME SlotInv, UNCHANGED bridge,
           \/ \E i \in Ids : EnterReframe(i)
           \/ \E v \in Crops : Reframe(v)
           \/ Remount
    PROVE  SlotInv'
  <1>1. UNCHANGED <<disk, slots, tombstones, loaded, waiting, saving, saveDirty, writes, gen,
                    encoding, found, put, cleared, touched, recut, failed>>
    BY DEF EnterReframe, Reframe, Remount, storeVars, writeVars
  <1>2. /\ framing' \in Ids \cup {None} /\ view' \in Crops /\ framed' \in Picture \cup {None}
        /\ CropOfItsPicture'
    <2>1. ASSUME NEW i \in Ids, EnterReframe(i)
          PROVE  /\ framing' = i /\ view' \in Crops
                 /\ framed' \in Picture \cup {None} /\ CropOfItsPicture'
      <3>1. slots[i] \in Entry \cup {None}
        BY DEF SlotInv, SlotTypes, Store
      <3>2. StoredView(i) \in Crops /\ PictureIn(slots, i) \in Picture \cup {None}
        BY <3>1, SlotAssumption DEF StoredView, PictureIn, Entry
      <3>3. framing' = i /\ view' = StoredView(i) /\ framed' = PictureIn(slots, i)
        BY <2>1 DEF EnterReframe
      <3>. QED
        BY <1>1, <3>2, <3>3 DEF CropOfItsPicture, PictureIn
    <2>2. ASSUME NEW v \in Crops, Reframe(v)
          PROVE  UNCHANGED <<framing, framed>> /\ view' \in Crops
      BY <2>2 DEF Reframe
    <2>3. ASSUME Remount PROVE framing' = None /\ framed' = None /\ view' = Plain
      BY <2>3 DEF Remount, Abandon
    <2>4. Plain \in Crops
      BY SlotAssumption
    <2>. QED
      BY <1>1, <2>1, <2>2, <2>3, <2>4 DEF SlotInv, SlotTypes, CropOfItsPicture, PictureIn
  <1>3. SlotTypes' /\ Numbered'
    BY <1>1, <1>2 DEF SlotInv, SlotTypes, Numbered
  <1>. QED
    BY <1>1, <1>2, <1>3 DEF SlotInv, UnreadStore, Tombstoned, Removed, OneWrite, AsInFile,
       NewestIsHeld, Wanted, PictureIn, SettledIsSaved

LEMMA CommitKeeps ==
    ASSUME SlotInv, UNCHANGED bridge, Commit
    PROVE  SlotInv'
  <1> DEFINE it == CropOf(framing)
  <1>1. /\ framing \in Ids /\ SetSlot(framing, it)
        /\ recut' = IF framing \in tombstones THEN recut \cup {framing} ELSE recut
        /\ framing' = None /\ framed' = None /\ view' = Plain
        /\ UNCHANGED <<disk, loaded, gen, encoding, found, put, cleared, failed>>
    BY DEF Commit, SlotInv, SlotTypes
  <1>2. slots[framing] \in Entry \cup {None}
    BY <1>1 DEF SlotInv, SlotTypes, Store
  <1>3. it \in Entry /\ it # None /\ it.u = PictureIn(slots, framing)
    <2>1. PictureIn(slots, framing) \in Picture \cup {None} /\ view \in Crops
      BY <1>2 DEF PictureIn, Entry, SlotInv, SlotTypes
    <2>. QED
      BY <2>1, SlotAssumption DEF CropOf, Entry
  <1> HIDE DEF it
  <1>4. /\ slots' = [slots EXCEPT ![framing] = it] /\ slots \in Store
        /\ tombstones' = tombstones \ {framing}
    BY <1>1, <1>3, SetSlotTyped DEF SlotInv, SetSlot, SlotTypes
  <1>5. UnreadStore' /\ OneWrite' /\ AsInFile' /\ SettledIsSaved'
    BY <1>1, <1>3, SetSlotWrites
  <1>6. SlotTypes'
    <2>1. /\ slots' \in Store /\ tombstones' \subseteq Ids /\ touched' \subseteq Ids
          /\ waiting' \in 0..2 /\ saving' \in BOOLEAN /\ saveDirty' \in BOOLEAN
          /\ \A w \in writes' : w \in Store
      BY <1>1, <1>3, SetSlotTyped DEF SlotInv
    <2>2. recut' \subseteq Ids /\ view' \in Crops
      BY <1>1, SlotAssumption DEF SlotInv, SlotTypes
    <2>. QED
      BY <1>1, <2>1, <2>2 DEF SlotInv, SlotTypes
  <1>7. Numbered' /\ Tombstoned'
    BY <1>1, <1>4 DEF SlotInv, Numbered, Tombstoned, Removed
  <1>8. \A i \in Ids : PictureIn(slots', i) = PictureIn(slots, i)
    BY <1>1, <1>3, <1>4 DEF PictureIn, Store
  <1>9. NewestIsHeld'
    <2>1. ASSUME NEW i \in Ids \ recut' PROVE PictureIn(slots', i) = Wanted(i)'
      <3>1. i \in Ids \ recut /\ Wanted(i)' = Wanted(i)
        BY <1>1 DEF Wanted, PictureIn
      <3>. QED
        BY <1>8, <3>1 DEF SlotInv, NewestIsHeld
    <2>. QED
      BY <2>1 DEF NewestIsHeld, PictureIn
  <1>10. CropOfItsPicture'
    BY <1>1 DEF CropOfItsPicture
  <1>. QED
    BY <1>5, <1>6, <1>7, <1>9, <1>10 DEF SlotInv

LEMMA SlotStutterKeeps ==
    ASSUME SlotInv, UNCHANGED bridge, UNCHANGED slotVars
    PROVE  SlotInv'
  <1>1. UNCHANGED <<disk, slots, tombstones, loaded, waiting, saving, saveDirty, writes, gen,
                    encoding, framing, view, found, put, cleared, touched, recut, framed, failed>>
    BY DEF slotVars, storeVars, writeVars
  <1>2. SlotTypes' /\ Numbered'
    BY <1>1 DEF SlotInv, SlotTypes, Numbered
  <1>. QED
    BY <1>1, <1>2 DEF SlotInv, UnreadStore, Tombstoned, Removed, OneWrite, AsInFile,
       NewestIsHeld, Wanted, PictureIn, SettledIsSaved, CropOfItsPicture

LEMMA SlotStep ==
    ASSUME SlotInv, [PageNext]_pageVars
    PROVE  SlotInv'
  <1>1. UNCHANGED bridge /\ (SlotNext \/ UNCHANGED slotVars)
    BY StepOfParts DEF hostVars
  <1>2. CASE UNCHANGED slotVars
    BY <1>1, <1>2, SlotStutterKeeps
  <1>3. CASE SlotNext
    <2>1. CASE ReadEnds
      BY <1>1, <2>1, ReadEndsKeeps
    <2>2. CASE WriteEnds
      BY <1>1, <2>2, WriteEndsKeeps
    <2>3. CASE Commit
      BY <1>1, <2>3, CommitKeeps
    <2>4. CASE Remount \/ (\E i \in Ids : EnterReframe(i)) \/ (\E v \in Crops : Reframe(v))
      BY <1>1, <2>4, FramingKeeps
    <2>5. ASSUME NEW i \in Ids, Ingest(i) \/ Clear(i) PROVE SlotInv'
      BY <1>1, <2>5, IngestKeeps, ClearKeeps
    <2>6. ASSUME NEW e \in encoding, Encoded(e) \/ EncodeFails(e) PROVE SlotInv'
      BY <1>1, <2>6, EncodedKeeps, EncodeFailsKeeps
    <2>. QED
      BY <1>3, <2>1, <2>2, <2>3, <2>4, <2>5, <2>6 DEF SlotNext
  <1>. QED
    BY <1>1, <1>2, <1>3

\* What the proofs rest on: the inductive invariant of the slots.
THEOREM SlotsInvariant == PageSpec => []SlotInv
  <1>1. PageInit => SlotInv
    BY SlotInitial DEF PageInit
  <1>2. SlotInv /\ [PageNext]_pageVars => SlotInv'
    BY SlotStep
  <1>. QED
    BY <1>1, <1>2, PTL DEF PageSpec

\* Each slot shows the picture of the newest drop that was stored, by the order
\* of the drops, unless it was removed since, and what the file has for it while
\* nobody put or removed any: neither a late encoding (the _gen check) nor the
\* late read (load merging under the tombstones) nor a crop (_commitView) brings
\* back, replaces or loses one.
THEOREM NewestHeldCorrect == PageSpec => []NewestIsHeld
  BY SlotsInvariant, PTL DEF SlotInv

\* With no write under way the file has what the page holds, unless the read or
\* the last write failed: save's saveDirty flag sends out again what changed
\* while a write was under way.
THEOREM SettledSavedCorrect == PageSpec => []SettledIsSaved
  BY SlotsInvariant, PTL DEF SlotInv

\* A crop is committed only for the picture it was made on: what replaces or
\* removes a picture ends its reframe mode first (_exitReframe).
THEOREM CropOfPictureCorrect == PageSpec => []CropOfItsPicture
  BY SlotsInvariant, PTL DEF SlotInv

\* No write changes what the file holds for a slot nobody touched, although each
\* writes the whole store: save waits for the read.
THEOREM OthersKeptCorrect == PageSpec => OthersKept
  <1>1. ASSUME SlotInv, [PageNext]_pageVars, loaded => found # None,
               NEW i \in Ids \ touched
        PROVE  disk'[i] = disk[i]
    <2>1. CASE WriteEnds
      <3>1. PICK w \in writes : disk' \in {w, disk}
        BY <2>1 DEF WriteEnds
      <3>2. loaded
        BY <1>1, <3>1 DEF SlotInv, UnreadStore
      <3>. QED
        BY <1>1, <3>1, <3>2 DEF SlotInv, AsInFile
    <2>2. CASE UNCHANGED slotVars
      BY <2>2 DEF slotVars
    <2>3. CASE SlotNext /\ ~WriteEnds
      <3>1. disk' = disk
        BY <2>3 DEF SlotNext, ReadEnds, Commit, Remount, Ingest, Clear, EnterReframe, Encoded,
           EncodeFails, Reframe
      <3>. QED
        BY <3>1
    <2>. QED
      BY <1>1, <2>1, <2>2, <2>3, StepOfParts
  <1>2. SlotInv /\ [PageNext]_pageVars =>
           [(loaded => found # None) => \A i \in Ids \ touched : disk'[i] = disk[i]]_slotVars
    BY <1>1
  <1>. QED
    BY <1>2, SlotsInvariant, PTL DEF PageSpec, OthersKept

----------------------------------------------------------------------------
(* Viewport: queues of messages                                            *)

HostMessage == [type: {"zoom", "present"}, scale: Scales \cup {None}]
PageMessage == [type: {"probe", "set_zoom"}, scale: Factors \cup {None}]

\* What the host will know once it has received the messages of q.
HasPresent(q) == \E n \in DOMAIN q : q[n].type = "present"
NoZoom(q)     == \A n \in DOMAIN q : q[n].type # "zoom"
LastZoomIs(q, s) ==
    \E n \in DOMAIN q : /\ q[n].type = "zoom" /\ q[n].scale = s
                        /\ \A m \in DOMAIN q : m > n => q[m].type # "zoom"

\* A zoom message has a scale that can be shown, a set_zoom one that can be
\* asked for.
ZoomsFit(q) == \A n \in DOMAIN q : q[n].type = "zoom" => q[n].scale \in Scales
AsksFit(q)  == \A n \in DOMAIN q : q[n].type = "set_zoom" => q[n].scale \in Factors
NoProbe(q)  == \A n \in DOMAIN q : q[n].type # "probe"

LEMMA AppendZoom ==
    ASSUME NEW q \in Seq(HostMessage), NEW s \in Scales
    PROVE  LET r == Append(q, Zoom(s)) IN
           /\ r \in Seq(HostMessage) /\ LastZoomIs(r, s)
           /\ HasPresent(q) => HasPresent(r)
           /\ ZoomsFit(q) => ZoomsFit(r)
  <1> DEFINE z == Zoom(s)
             r == Append(q, z)
  <1>1. z \in HostMessage /\ z.type = "zoom" /\ z.scale = s
    BY DEF Zoom, HostMessage
  <1> HIDE DEF z
  <1>2. /\ r \in Seq(HostMessage) /\ Len(r) = Len(q) + 1 /\ r[Len(q) + 1] = z
        /\ \A n \in 1..Len(q) : r[n] = q[n]
        /\ DOMAIN r = 1..(Len(q) + 1) /\ DOMAIN q = 1..Len(q) /\ Len(q) \in Nat
    BY <1>1, AppendProperties, LenProperties
  <1> HIDE DEF r
  <1>3. LastZoomIs(r, s)
    BY <1>1, <1>2 DEF LastZoomIs
  <1>4. HasPresent(q) => HasPresent(r)
    BY <1>2 DEF HasPresent
  <1>5. ZoomsFit(q) => ZoomsFit(r)
    BY <1>1, <1>2 DEF ZoomsFit
  <1>. QED
    BY <1>2, <1>3, <1>4, <1>5 DEF r, z

LEMMA AppendPresent ==
    ASSUME NEW q \in Seq(HostMessage)
    PROVE  LET r == Append(q, Message("present")) IN
           /\ r \in Seq(HostMessage) /\ HasPresent(r)
           /\ ZoomsFit(q) => ZoomsFit(r)
  <1> DEFINE z == Message("present")
             r == Append(q, z)
  <1>1. z \in HostMessage /\ z.type = "present"
    BY DEF Message, HostMessage
  <1> HIDE DEF z
  <1>2. /\ r \in Seq(HostMessage) /\ Len(r) = Len(q) + 1 /\ r[Len(q) + 1] = z
        /\ \A n \in 1..Len(q) : r[n] = q[n]
        /\ DOMAIN r = 1..(Len(q) + 1) /\ DOMAIN q = 1..Len(q) /\ Len(q) \in Nat
    BY <1>1, AppendProperties, LenProperties
  <1> HIDE DEF r
  <1>3. HasPresent(r)
    BY <1>1, <1>2 DEF HasPresent
  <1>4. ZoomsFit(q) => ZoomsFit(r)
    BY <1>1, <1>2 DEF ZoomsFit
  <1>. QED
    BY <1>2, <1>3, <1>4 DEF r, z

\* The host receives the first message of q.
LEMMA TailToHost ==
    ASSUME NEW q \in Seq(HostMessage), q # <<>>
    PROVE  /\ Head(q) \in HostMessage /\ Tail(q) \in Seq(HostMessage)
           /\ HasPresent(q) => Head(q).type = "present" \/ HasPresent(Tail(q))
           /\ NoZoom(q) => Head(q).type = "present" /\ NoZoom(Tail(q))
           /\ ZoomsFit(q) => /\ ZoomsFit(Tail(q))
                             /\ Head(q).type # "present" => Head(q).scale \in Scales
           /\ \A s : LastZoomIs(q, s) =>
                 \/ LastZoomIs(Tail(q), s)
                 \/ Head(q).type # "present" /\ Head(q).scale = s /\ NoZoom(Tail(q))
  <1> DEFINE r == Tail(q)
             h == Head(q)
  <1>1. /\ r \in Seq(HostMessage) /\ Len(q) \in Nat /\ Len(q) > 0 /\ Len(r) = Len(q) - 1
        /\ DOMAIN q = 1..Len(q) /\ DOMAIN r = 1..(Len(q) - 1)
        /\ \A n \in 1..(Len(q) - 1) : r[n] = q[n + 1]
    BY HeadTailProperties, LenProperties, EmptySeq
  <1>2. h = q[1] /\ h \in HostMessage
    BY <1>1, ElementOfSeq
  <1>3. h.type \in {"zoom", "present"}
    BY <1>2 DEF HostMessage
  <1> HIDE DEF r, h
  <1>4. \A n \in 1..Len(q) : n = 1 \/ (n - 1 \in 1..(Len(q) - 1) /\ r[n - 1] = q[n])
    BY <1>1
  <1>5. HasPresent(q) => h.type = "present" \/ HasPresent(r)
    BY <1>1, <1>2, <1>4 DEF HasPresent
  <1>6. ASSUME NoZoom(q) PROVE h.type = "present" /\ NoZoom(r)
    <2>1. 1 \in DOMAIN q /\ q[1].type # "zoom"
      BY <1>1, <1>6 DEF NoZoom
    <2>2. NoZoom(r)
      BY <1>1, <1>6 DEF NoZoom
    <2>. QED
      BY <1>2, <1>3, <2>1, <2>2
  <1>7. ZoomsFit(q) => ZoomsFit(r) /\ (h.type # "present" => h.scale \in Scales)
    BY <1>1, <1>2, <1>3 DEF ZoomsFit
  <1>8. ASSUME NEW s, LastZoomIs(q, s)
        PROVE  LastZoomIs(r, s) \/ (h.type # "present" /\ h.scale = s /\ NoZoom(r))
    <2>1. PICK n \in 1..Len(q) :
            /\ q[n].type = "zoom" /\ q[n].scale = s
            /\ \A m \in 1..Len(q) : m > n => q[m].type # "zoom"
      BY <1>1, <1>8 DEF LastZoomIs
    <2>2. CASE n = 1
      BY <1>1, <1>2, <2>1, <2>2 DEF NoZoom
    <2>3. CASE n # 1
      <3>1. /\ n - 1 \in DOMAIN r /\ r[n - 1] = q[n]
            /\ \A m \in DOMAIN r : m > n - 1 => r[m].type # "zoom"
        BY <1>1, <1>4, <2>1, <2>3
      <3>. QED
        BY <2>1, <3>1 DEF LastZoomIs
    <2>. QED
      BY <2>2, <2>3
  <1>. QED
    BY <1>1, <1>2, <1>5, <1>6, <1>7, <1>8 DEF r, h

\* The page receives the first message of q, or one more is sent.
LEMMA TailToPage ==
    ASSUME NEW q \in Seq(PageMessage), q # <<>>
    PROVE  /\ Head(q) \in PageMessage /\ Tail(q) \in Seq(PageMessage)
           /\ AsksFit(q) => /\ AsksFit(Tail(q))
                            /\ Head(q).type = "set_zoom" => Head(q).scale \in Factors
           /\ NoProbe(Tail(q)) => Head(q).type = "probe" \/ NoProbe(q)
  <1> DEFINE r == Tail(q)
             h == Head(q)
  <1>1. /\ r \in Seq(PageMessage) /\ Len(q) \in Nat /\ Len(q) > 0 /\ Len(r) = Len(q) - 1
        /\ DOMAIN q = 1..Len(q) /\ DOMAIN r = 1..(Len(q) - 1)
        /\ \A n \in 1..(Len(q) - 1) : r[n] = q[n + 1]
    BY HeadTailProperties, LenProperties, EmptySeq
  <1>2. h = q[1] /\ h \in PageMessage
    BY <1>1, ElementOfSeq
  <1> HIDE DEF r, h
  <1>3. \A n \in 1..Len(q) : n = 1 \/ (n - 1 \in 1..(Len(q) - 1) /\ r[n - 1] = q[n])
    BY <1>1
  <1>4. AsksFit(q) => AsksFit(r) /\ (h.type = "set_zoom" => h.scale \in Factors)
    BY <1>1, <1>2 DEF AsksFit
  <1>5. NoProbe(r) => h.type = "probe" \/ NoProbe(q)
    BY <1>1, <1>2, <1>3 DEF NoProbe
  <1>. QED
    BY <1>1, <1>2, <1>4, <1>5 DEF r, h

LEMMA AppendToPage ==
    ASSUME NEW q \in Seq(PageMessage), NEW z \in PageMessage,
           z.type = "set_zoom" => z.scale \in Factors
    PROVE  /\ Append(q, z) \in Seq(PageMessage)
           /\ AsksFit(q) => AsksFit(Append(q, z))
           /\ NoProbe(Append(q, z)) => z.type # "probe" /\ NoProbe(q)
  <1> DEFINE r == Append(q, z)
  <1>1. /\ r \in Seq(PageMessage) /\ Len(r) = Len(q) + 1 /\ r[Len(q) + 1] = z
        /\ \A n \in 1..Len(q) : r[n] = q[n]
        /\ DOMAIN r = 1..(Len(q) + 1) /\ DOMAIN q = 1..Len(q) /\ Len(q) \in Nat
    BY AppendProperties, LenProperties
  <1> HIDE DEF r
  <1>2. AsksFit(q) => AsksFit(r)
    BY <1>1 DEF AsksFit
  <1>3. NoProbe(r) => z.type # "probe" /\ NoProbe(q)
    BY <1>1 DEF NoProbe
  <1>. QED
    BY <1>1, <1>2, <1>3 DEF r

----------------------------------------------------------------------------
(* Viewport: the inductive invariant                                       *)

\* ViewportTypeOK, one variable at a time.
ViewportTypes ==
    /\ mounted \in BOOLEAN /\ saveT \in BOOLEAN /\ isGesturing \in BOOLEAN
    /\ present \in BOOLEAN /\ hostLoads \in BOOLEAN
    /\ tf \in View /\ stored \in View \cup {None} /\ left \in View \cup {None}
    /\ dcScale \in Scales /\ lastPostedScale \in Scales \cup {None}
    /\ panning \in Pointers \cup {None} /\ turns \in 0..MaxTurns
    /\ toHost \in Seq(HostMessage) /\ toPage \in Seq(PageMessage)

\* The host knows of the canvas and its scale, or will from what is under way.
Announced == present \/ HasPresent(toHost)
Told == LastZoomIs(toHost, tf.scale) \/ (NoZoom(toHost) /\ dcScale = tf.scale)

\* Unless a probe is still to be answered.
WillBeInSync ==
    mounted => /\ lastPostedScale = tf.scale
               /\ NoProbe(toPage) => Announced /\ Told

\* What is stored is the view of the page, unless a save is due, and of the page
\* that was left, unless its save was lost.
ViewKept ==
    /\ mounted /\ ~saveT => stored = tf
    /\ ~mounted => ~saveT
    /\ ~mounted /\ left # None => left = IF stored = None THEN Home ELSE stored

ViewportInv ==
    /\ ViewportTypes /\ ZoomsFit(toHost) /\ AsksFit(toPage)
    /\ WillBeInSync /\ ViewKept

LEMMA ViewportTypesAreTypes == ViewportTypeOK <=> ViewportTypes
  BY DEF ViewportTypeOK, ViewportTypes, HostMessage, PageMessage

LEMMA ClampFits ==
    ASSUME NEW s \in Int
    PROVE  Clamp(s) \in Scales /\ (s \in Scales => Clamp(s) = s)
  BY ViewportAssumption DEF Clamp, Scales

LEMMA HomeFits == Home \in View /\ Home.scale = Actual /\ None \notin View /\ None \notin Scales
  BY ViewportAssumption DEF Home, View

LEMMA ViewportInitial ==
    ASSUME ViewportInit
    PROVE  ViewportInv
  <1>1. <<>> \in Seq(HostMessage) /\ <<>> \in Seq(PageMessage) /\ Len(<<>>) = 0
    BY EmptySeq
  <1>2. ViewportTypes
    <2>1. /\ tf \in View /\ stored \in View \cup {None} /\ left \in View \cup {None}
          /\ dcScale \in Scales /\ lastPostedScale \in Scales \cup {None}
          /\ panning \in Pointers \cup {None}
      BY HomeFits, ViewportAssumption DEF ViewportInit
    <2>2. turns \in 0..MaxTurns
      BY ViewportAssumption DEF ViewportInit
    <2>3. /\ mounted \in BOOLEAN /\ saveT \in BOOLEAN /\ isGesturing \in BOOLEAN
          /\ present \in BOOLEAN /\ hostLoads \in BOOLEAN
      BY DEF ViewportInit
    <2>4. toHost \in Seq(HostMessage) /\ toPage \in Seq(PageMessage)
      BY <1>1 DEF ViewportInit
    <2>. QED
      BY <2>1, <2>2, <2>3, <2>4 DEF ViewportTypes
  <1>3. toHost = <<>> /\ toPage = <<>>
    BY DEF ViewportInit
  <1>4. ZoomsFit(toHost) /\ AsksFit(toPage)
    BY <1>3 DEF ZoomsFit, AsksFit
  <1>5. WillBeInSync /\ ViewKept
    BY DEF ViewportInit, WillBeInSync, ViewKept
  <1>. QED
    BY <1>2, <1>4, <1>5 DEF ViewportInv

\* What is posted when a view is applied.
LEMMA ApplyPosts ==
    ASSUME NEW v \in View, NEW q \in Seq(HostMessage), ZoomsFit(q), NEW last, Apply(v, q, last)
    PROVE  /\ tf' = v /\ saveT' = TRUE /\ lastPostedScale' = v.scale /\ v.scale \in Scales
           /\ toHost' \in Seq(HostMessage) /\ ZoomsFit(toHost')
           /\ HasPresent(q) => HasPresent(toHost')
           /\ last = v.scale => toHost' = q
           /\ last # v.scale => LastZoomIs(toHost', v.scale)
  <1>1. tf' = v /\ saveT' = TRUE /\ lastPostedScale' = v.scale /\ v.scale \in Scales
    BY DEF Apply, View
  <1>2. CASE last = v.scale
    <2>1. toHost' = q \o <<>>
      BY <1>2 DEF Apply
    <2>2. toHost' = q
      BY <2>1, ConcatEmptySeq
    <2>. QED
      BY <1>1, <1>2, <2>2
  <1>3. CASE last # v.scale
    <2>1. Zoom(v.scale) \in HostMessage
      BY <1>1 DEF Zoom, HostMessage
    <2>2. toHost' = q \o <<Zoom(v.scale)>>
      BY <1>3 DEF Apply
    <2>3. toHost' = Append(q, Zoom(v.scale))
      BY <2>1, <2>2, AppendIsConcat
    <2>. QED
      BY <1>1, <1>3, <2>3, AppendZoom
  <1>. QED
    BY <1>2, <1>3

\* A new view on a mounted page: the host is told of a new scale.
LEMMA NewViewKeeps ==
    ASSUME ViewportInv, mounted, NEW v \in View, Apply(v, toHost, lastPostedScale),
           UNCHANGED <<mounted, stored, isGesturing, panning, present, dcScale, hostLoads, left>>,
           turns' \in 0..MaxTurns, toPage' \in Seq(PageMessage), AsksFit(toPage'),
           NoProbe(toPage') => NoProbe(toPage)
    PROVE  ViewportInv'
  <1>1. toHost \in Seq(HostMessage) /\ ZoomsFit(toHost)
    BY DEF ViewportInv, ViewportTypes
  <1>2. /\ tf' = v /\ saveT' = TRUE /\ lastPostedScale' = v.scale /\ v.scale \in Scales
        /\ toHost' \in Seq(HostMessage) /\ ZoomsFit(toHost')
        /\ HasPresent(toHost) => HasPresent(toHost')
        /\ lastPostedScale = v.scale => toHost' = toHost
        /\ lastPostedScale # v.scale => LastZoomIs(toHost', v.scale)
    BY <1>1, ApplyPosts
  <1>3. ViewportTypes'
    <2>1. saveT' \in BOOLEAN /\ tf' \in View /\ lastPostedScale' \in Scales \cup {None}
      BY <1>2
    <2>. QED
      BY <1>2, <2>1 DEF ViewportInv, ViewportTypes
  <1>4. lastPostedScale = tf.scale
    BY DEF ViewportInv, WillBeInSync
  <1>5. Announced => Announced'
    BY <1>2 DEF Announced
  <1>6. Told => Told'
    BY <1>2, <1>4 DEF Told
  <1>7. WillBeInSync'
    BY <1>2, <1>5, <1>6 DEF ViewportInv, WillBeInSync
  <1>8. ViewKept'
    BY <1>2 DEF ViewKept
  <1>. QED
    BY <1>2, <1>3, <1>7, <1>8 DEF ViewportInv

LEMMA ZoomIsView ==
    ASSUME NEW s \in Int, NEW q \in Seq(HostMessage), ZoomAt(s)
    PROVE  \E v \in View : Apply(v, toHost, lastPostedScale)
  BY ClampFits DEF ZoomAt, View

LEMMA PanIsView ==
    ASSUME tf \in View, NEW p \in Places, PanTo(p)
    PROVE  \E v \in View : Apply(v, toHost, lastPostedScale)
  BY DEF PanTo, View

LEMMA MovesKeep ==
    ASSUME ViewportInv, Wheel \/ GestureChange \/ PointerMove
    PROVE  ViewportInv'
  <1>1. tf \in View /\ toHost \in Seq(HostMessage) /\ turns \in 0..MaxTurns /\ MaxTurns \in Nat
    BY ViewportAssumption DEF ViewportInv, ViewportTypes
  <1>2. /\ mounted
        /\ UNCHANGED <<mounted, stored, isGesturing, panning, toPage,
                       present, dcScale, hostLoads, left>>
    BY DEF Wheel, GestureChange, PointerMove, gestureVars, hostSide
  <1>3. turns' \in 0..MaxTurns
    BY <1>1 DEF Wheel, GestureChange, PointerMove, Turn
  <1>4. (\E s \in Factors : ZoomAt(s)) \/ (\E p \in Places : PanTo(p))
    BY DEF Wheel, GestureChange, PointerMove
  <1>5. PICK v \in View : Apply(v, toHost, lastPostedScale)
    BY <1>1, <1>4, ZoomIsView, PanIsView, ViewportAssumption
  <1>6. toPage' \in Seq(PageMessage) /\ AsksFit(toPage') /\ (NoProbe(toPage') => NoProbe(toPage))
    BY <1>2 DEF ViewportInv, ViewportTypes
  <1>. QED
    BY <1>2, <1>3, <1>5, <1>6, NewViewKeeps

LEMMA MountKeeps ==
    ASSUME ViewportInv, Mount
    PROVE  ViewportInv'
  <1> DEFINE v == IF stored = None THEN Home ELSE [stored EXCEPT !.scale = Clamp(stored.scale)]
             told == IF stored = None THEN toHost ELSE Append(toHost, Zoom(v.scale))
             posted == Append(told, Message("present"))
  <1>1. /\ toHost \in Seq(HostMessage) /\ ZoomsFit(toHost)
        /\ stored \in View \cup {None} /\ ~mounted
    BY DEF ViewportInv, ViewportTypes, Mount
  <1>2. v \in View /\ v.scale \in Scales
    BY <1>1, HomeFits, ClampFits DEF View, Scales
  <1>3. told \in Seq(HostMessage) /\ ZoomsFit(told)
    BY <1>1, <1>2, AppendZoom
  <1>4. posted \in Seq(HostMessage) /\ HasPresent(posted) /\ ZoomsFit(posted)
    BY <1>3, AppendPresent
  <1>5. Apply(v, posted, None)
    <2>1. Zoom(v.scale) \in HostMessage /\ Message("present") \in HostMessage
      BY <1>2 DEF Zoom, Message, HostMessage
    <2>2. /\ toHost \o <<>> = toHost
          /\ toHost \o <<Zoom(v.scale)>> = Append(toHost, Zoom(v.scale))
          /\ told \o <<Message("present")>> = posted
      BY <1>1, <1>3, <2>1, ConcatEmptySeq, AppendIsConcat
    <2>3. toHost \o (IF stored = None THEN <<>> ELSE <<Zoom(v.scale)>>) = told
      <3> HIDE DEF v
      <3>1. CASE stored = None
        BY <2>2, <3>1
      <3>2. CASE stored # None
        BY <2>2, <3>2
      <3>. QED
        BY <3>1, <3>2
    <2>4. Apply(v, toHost \o (IF stored = None THEN <<>> ELSE <<Zoom(v.scale)>>)
                       \o <<Message("present")>>, None)
      BY Zenon DEF Mount
    <2>. QED
      BY <2>2, <2>3, <2>4
  <1>6. /\ mounted' = TRUE
        /\ UNCHANGED <<stored, isGesturing, panning, toPage, present, dcScale, hostLoads,
                       turns, left>>
    BY DEF Mount, gestureVars, hostSide
  <1> HIDE DEF v, told, posted
  <1>7. /\ tf' = v /\ saveT' = TRUE /\ lastPostedScale' = v.scale
        /\ toHost' \in Seq(HostMessage) /\ ZoomsFit(toHost') /\ HasPresent(toHost')
        /\ LastZoomIs(toHost', v.scale)
    BY <1>2, <1>4, <1>5, ApplyPosts, HomeFits
  <1>8. ViewportTypes'
    <2>1. mounted' \in BOOLEAN /\ saveT' \in BOOLEAN
      BY <1>6, <1>7
    <2>. QED
      BY <1>2, <1>6, <1>7, <2>1 DEF ViewportInv, ViewportTypes
  <1>9. WillBeInSync' /\ ViewKept'
    BY <1>6, <1>7 DEF WillBeInSync, Announced, Told, ViewKept
  <1>. QED
    BY <1>6, <1>7, <1>8, <1>9 DEF ViewportInv

LEMMA SavedKeeps ==
    ASSUME ViewportInv, Saved
    PROVE  ViewportInv'
  <1>1. /\ saveT' = FALSE /\ stored' = tf /\ saveT
        /\ UNCHANGED <<mounted, tf, lastPostedScale, isGesturing, panning, toHost, toPage,
                       present, dcScale, hostLoads, turns, left>>
    BY DEF Saved, gestureVars, hostSide
  <1>2. mounted
    BY <1>1 DEF ViewportInv, ViewKept
  <1>3. saveT' \in BOOLEAN /\ stored' \in View \cup {None}
    BY <1>1 DEF ViewportInv, ViewportTypes
  <1>4. ViewportTypes'
    BY <1>1, <1>3 DEF ViewportInv, ViewportTypes
  <1>5. WillBeInSync' /\ ViewKept'
    BY <1>1, <1>2 DEF ViewportInv, WillBeInSync, Announced, Told, ViewKept
  <1>. QED
    BY <1>1, <1>4, <1>5 DEF ViewportInv

LEMMA LeaveKeeps ==
    ASSUME ViewportInv, NEW hide \in BOOLEAN, Leave(hide)
    PROVE  ViewportInv'
  <1>1. /\ mounted /\ mounted' = FALSE /\ saveT' = FALSE /\ lastPostedScale' = None
        /\ isGesturing' = FALSE /\ panning' = None /\ toPage' = <<>> /\ hostLoads' = TRUE
        /\ left' = IF hide \/ ~saveT THEN tf ELSE None
        /\ UNCHANGED <<tf, toHost, present, dcScale>>
    BY DEF Leave
  <1>2. hide => stored' = tf
    BY DEF Leave, Flush
  <1>3. ~hide => stored' = stored
    BY DEF Leave, Flush
  <1>4. tf \in View /\ tf # None
    BY HomeFits DEF ViewportInv, ViewportTypes
  <1>5. turns' \in 0..MaxTurns
    BY ViewportAssumption DEF Leave, Turn, ViewportInv, ViewportTypes
  <1>6. ViewportTypes'
    <2>1. mounted' \in BOOLEAN /\ saveT' \in BOOLEAN /\ isGesturing' \in BOOLEAN
          /\ hostLoads' \in BOOLEAN
      BY <1>1
    <2>2. toPage' \in Seq(PageMessage)
      BY <1>1, EmptySeq
    <2>3. stored' \in View \cup {None} /\ left' \in View \cup {None}
      BY <1>1, <1>2, <1>3, <1>4 DEF ViewportInv, ViewportTypes
    <2>. QED
      BY <1>1, <1>5, <2>1, <2>2, <2>3 DEF ViewportInv, ViewportTypes
  <1>7. AsksFit(toPage')
    BY <1>1, EmptySeq DEF AsksFit
  <1>8. WillBeInSync'
    BY <1>1 DEF WillBeInSync
  <1>9. ViewKept'
    BY <1>1, <1>2, <1>3, <1>4 DEF ViewportInv, ViewKept
  <1>. QED
    BY <1>1, <1>6, <1>7, <1>8, <1>9 DEF ViewportInv

\* Pressing, letting go and pinching change no view.
LEMMA PressesKeep ==
    ASSUME ViewportInv,
           PointerUp \/ (\E on \in BOOLEAN : Gesture(on)) \/ (\E k \in Pointers : PointerDown(k))
    PROVE  ViewportInv'
  <1>1. UNCHANGED <<mounted, tf, saveT, lastPostedScale, stored, toHost, toPage,
                    present, dcScale, hostLoads, turns, left>>
    BY DEF PointerUp, Gesture, PointerDown, pageSide, hostSide
  <1>2. isGesturing' \in BOOLEAN /\ panning' \in Pointers \cup {None}
    <2>1. CASE PointerUp
      BY <2>1 DEF PointerUp, ViewportInv, ViewportTypes
    <2>2. ASSUME NEW on \in BOOLEAN, Gesture(on)
          PROVE  isGesturing' \in BOOLEAN /\ panning' \in Pointers \cup {None}
      BY <2>2 DEF Gesture, ViewportInv, ViewportTypes
    <2>3. ASSUME NEW k \in Pointers, PointerDown(k)
          PROVE  isGesturing' \in BOOLEAN /\ panning' \in Pointers \cup {None}
      BY <2>3 DEF PointerDown, ViewportInv, ViewportTypes
    <2>. QED
      BY <2>1, <2>2, <2>3
  <1>3. ViewportTypes'
    BY <1>1, <1>2 DEF ViewportInv, ViewportTypes
  <1>. QED
    BY <1>1, <1>3 DEF ViewportInv, WillBeInSync, Announced, Told, ViewKept

LEMMA PageReceivesKeeps ==
    ASSUME ViewportInv, PageReceives
    PROVE  ViewportInv'
  <1>1. /\ toPage # <<>> /\ toPage' = Tail(toPage)
        /\ UNCHANGED <<mounted, stored, isGesturing, panning, present, dcScale, hostLoads,
                       turns, left>>
    BY DEF PageReceives, gestureVars, hostSide
  <1>2. toPage \in Seq(PageMessage) /\ toHost \in Seq(HostMessage) /\ ZoomsFit(toHost)
        /\ tf \in View /\ turns \in 0..MaxTurns
    BY DEF ViewportInv, ViewportTypes
  <1>3. /\ Head(toPage) \in PageMessage /\ toPage' \in Seq(PageMessage)
        /\ AsksFit(toPage')
        /\ Head(toPage).type = "set_zoom" => Head(toPage).scale \in Factors
        /\ NoProbe(toPage') => Head(toPage).type = "probe" \/ NoProbe(toPage)
    BY <1>1, <1>2, TailToPage DEF ViewportInv
  <1>4. CASE ~mounted
    <2>1. UNCHANGED <<tf, saveT, lastPostedScale, toHost>>
      BY <1>4 DEF PageReceives, pageSide
    <2>2. ViewportTypes'
      BY <1>1, <1>3, <2>1 DEF ViewportInv, ViewportTypes
    <2>3. WillBeInSync' /\ ViewKept'
      BY <1>1, <1>4, <2>1 DEF ViewportInv, WillBeInSync, ViewKept
    <2>. QED
      BY <1>3, <2>1, <2>2, <2>3 DEF ViewportInv
  <1>5. CASE mounted /\ Head(toPage).type = "set_zoom" /\ ZoomAt(Head(toPage).scale)
    <2>1. Head(toPage).scale \in Int
      BY <1>3, <1>5, ViewportAssumption
    <2>2. PICK v \in View : Apply(v, toHost, lastPostedScale)
      BY <1>2, <1>5, <2>1, ZoomIsView
    <2>3. NoProbe(toPage') => NoProbe(toPage)
      BY <1>3, <1>5
    <2>. QED
      BY <1>1, <1>2, <1>3, <1>5, <2>2, <2>3, NewViewKeeps
  <1>6. CASE mounted /\ Probed
    <2> DEFINE posted == Append(toHost, Message("present"))
    <2>1. posted \in Seq(HostMessage) /\ HasPresent(posted) /\ ZoomsFit(posted)
      BY <1>2, AppendPresent
    <2>2. Apply(tf, posted, None)
      BY <1>6 DEF Probed
    <2> HIDE DEF posted
    <2>3. /\ tf' = tf /\ saveT' = TRUE /\ lastPostedScale' = tf.scale /\ tf.scale \in Scales
          /\ toHost' \in Seq(HostMessage) /\ ZoomsFit(toHost') /\ HasPresent(toHost')
          /\ LastZoomIs(toHost', tf.scale)
      BY <1>2, <2>1, <2>2, ApplyPosts, HomeFits
    <2>4. saveT' \in BOOLEAN
      BY <2>3
    <2>5. ViewportTypes'
      BY <1>1, <1>2, <1>3, <2>3, <2>4 DEF ViewportInv, ViewportTypes
    <2>6. WillBeInSync' /\ ViewKept'
      BY <1>1, <1>6, <2>3 DEF WillBeInSync, Announced, Told, ViewKept
    <2>. QED
      BY <1>3, <2>3, <2>5, <2>6 DEF ViewportInv
  <1>. QED
    BY <1>4, <1>5, <1>6 DEF PageReceives

LEMMA HostReceivesKeeps ==
    ASSUME ViewportInv, HostReceives
    PROVE  ViewportInv'
  <1>1. /\ toHost # <<>> /\ toHost' = Tail(toHost)
        /\ UNCHANGED <<mounted, tf, saveT, lastPostedScale, stored, isGesturing, panning,
                       toPage, hostLoads, turns, left>>
    BY DEF HostReceives, pageSide, gestureVars
  <1>2. toHost \in Seq(HostMessage) /\ ZoomsFit(toHost)
    BY DEF ViewportInv, ViewportTypes
  <1>3. /\ toHost' \in Seq(HostMessage)
        /\ HasPresent(toHost) => Head(toHost).type = "present" \/ HasPresent(toHost')
        /\ NoZoom(toHost) => Head(toHost).type = "present" /\ NoZoom(toHost')
        /\ ZoomsFit(toHost')
        /\ Head(toHost).type # "present" => Head(toHost).scale \in Scales
        /\ \A s : LastZoomIs(toHost, s) =>
              \/ LastZoomIs(toHost', s)
              \/ Head(toHost).type # "present" /\ Head(toHost).scale = s /\ NoZoom(toHost')
    BY <1>1, <1>2, TailToHost
  <1>4. CASE Head(toHost).type = "present"
    <2>1. present' = TRUE /\ dcScale' = dcScale
      BY <1>4 DEF HostReceives
    <2>2. present' \in BOOLEAN
      BY <2>1
    <2>3. ViewportTypes'
      BY <1>1, <1>3, <2>1, <2>2 DEF ViewportInv, ViewportTypes
    <2>4. Announced' /\ (Told => Told')
      BY <1>1, <1>3, <1>4, <2>1 DEF Announced, Told
    <2>. QED
      BY <1>1, <1>3, <2>3, <2>4 DEF ViewportInv, WillBeInSync, ViewKept
  <1>5. CASE Head(toHost).type # "present"
    <2>1. dcScale' = Head(toHost).scale /\ present' = present
      BY <1>5 DEF HostReceives
    <2>2. ViewportTypes'
      BY <1>1, <1>3, <1>5, <2>1 DEF ViewportInv, ViewportTypes
    <2>3. (Announced => Announced') /\ (Told => Told')
      BY <1>1, <1>3, <1>5, <2>1 DEF Announced, Told
    <2>. QED
      BY <1>1, <1>3, <2>2, <2>3 DEF ViewportInv, WillBeInSync, ViewKept
  <1>. QED
    BY <1>4, <1>5

LEMMA HostActsKeeps ==
    ASSUME ViewportInv, HostLoads \/ (\E s \in Factors : HostZooms(s))
    PROVE  ViewportInv'
  <1>1. toPage \in Seq(PageMessage)
    BY DEF ViewportInv, ViewportTypes
  <1>2. UNCHANGED <<mounted, tf, saveT, lastPostedScale, stored, isGesturing, panning,
                    toHost, left>>
    BY DEF HostLoads, HostZooms, pageSide, gestureVars
  <1>3. CASE HostLoads
    <2> DEFINE z == Message("probe")
    <2>1. z \in PageMessage /\ z.type = "probe"
      BY DEF Message, PageMessage
    <2>2. toPage' = Append(toPage, z) /\ present' = FALSE /\ dcScale' = Actual
          /\ hostLoads' = FALSE /\ turns' = turns
      BY <1>3 DEF HostLoads
    <2> HIDE DEF z
    <2>3. toPage' \in Seq(PageMessage) /\ AsksFit(toPage') /\ ~NoProbe(toPage')
      BY <1>1, <2>1, <2>2, AppendToPage DEF ViewportInv
    <2>4. present' \in BOOLEAN /\ hostLoads' \in BOOLEAN
      BY <2>2
    <2>5. ViewportTypes'
      BY <1>2, <2>2, <2>3, <2>4, ViewportAssumption DEF ViewportInv, ViewportTypes
    <2>. QED
      BY <1>2, <2>3, <2>5 DEF ViewportInv, WillBeInSync, ViewKept
  <1>4. ASSUME NEW s \in Factors, HostZooms(s) PROVE ViewportInv'
    <2> DEFINE z == [type |-> "set_zoom", scale |-> s]
    <2>1. z \in PageMessage /\ z.type = "set_zoom" /\ z.scale \in Factors
      BY DEF PageMessage
    <2>2. toPage' = Append(toPage, z) /\ UNCHANGED <<present, dcScale, hostLoads>>
      BY <1>4 DEF HostZooms, hostSide
    <2> HIDE DEF z
    <2>3. toPage' \in Seq(PageMessage) /\ AsksFit(toPage') /\ (NoProbe(toPage') => NoProbe(toPage))
      BY <1>1, <2>1, <2>2, AppendToPage DEF ViewportInv
    <2>4. turns' \in 0..MaxTurns
      BY <1>4, ViewportAssumption DEF HostZooms, Turn, ViewportInv, ViewportTypes
    <2>5. ViewportTypes'
      BY <1>2, <2>2, <2>3, <2>4 DEF ViewportInv, ViewportTypes
    <2>. QED
      BY <1>2, <2>2, <2>3, <2>5 DEF ViewportInv, WillBeInSync, Announced, Told, ViewKept
  <1>. QED
    BY <1>3, <1>4

LEMMA ViewportStep ==
    ASSUME ViewportInv, [PageNext]_pageVars
    PROVE  ViewportInv'
  <1>1. CASE UNCHANGED viewportVars
    <2>1. UNCHANGED <<mounted, tf, saveT, lastPostedScale, stored, isGesturing, panning, toHost,
                      toPage, present, dcScale, hostLoads, turns, left>>
      BY <1>1 DEF viewportVars, pageSide, gestureVars, hostSide
    <2>2. ViewportTypes'
      BY <2>1 DEF ViewportInv, ViewportTypes
    <2>. QED
      BY <2>1, <2>2 DEF ViewportInv, WillBeInSync, Announced, Told, ViewKept
  <1>2. CASE ViewportNext
    <2>1. CASE Mount \/ Saved
      BY <2>1, MountKeeps, SavedKeeps
    <2>2. CASE Wheel \/ GestureChange \/ PointerMove
      BY <2>2, MovesKeep
    <2>3. CASE \/ PointerUp
               \/ \E on \in BOOLEAN : Gesture(on)
               \/ \E k \in Pointers : PointerDown(k)
      BY <2>3, PressesKeep
    <2>4. CASE PageReceives \/ HostReceives
      BY <2>4, PageReceivesKeeps, HostReceivesKeeps
    <2>5. CASE HostLoads \/ (\E s \in Factors : HostZooms(s))
      BY <2>5, HostActsKeeps
    <2>6. CASE \E hide \in BOOLEAN : Leave(hide)
      BY <2>6, LeaveKeeps
    <2>. QED
      BY <1>2, <2>1, <2>2, <2>3, <2>4, <2>5, <2>6 DEF ViewportNext
  <1>. QED
    BY <1>1, <1>2, StepOfParts

\* What the proofs rest on: the inductive invariant of the viewport.
THEOREM ViewportInvariant == PageSpec => []ViewportInv
  <1>1. PageInit => ViewportInv
    BY ViewportInitial DEF PageInit
  <1>2. ViewportInv /\ [PageNext]_pageVars => ViewportInv'
    BY ViewportStep
  <1>. QED
    BY <1>1, <1>2, PTL DEF PageSpec

\* Once the messages of a mounted page are received, the host knows of the
\* canvas and shows its scale: the page announces itself, with its scale, when
\* it is mounted and when the host, which starts anew, asks (onHostMsg).
THEOREM HostInSyncCorrect == PageSpec => []HostInSync
  <1>1. ViewportInv => HostInSync
    BY EmptySeq DEF ViewportInv, WillBeInSync, Announced, Told, HasPresent, LastZoomIs, NoProbe,
       HostInSync
  <1>. QED
    BY <1>1, ViewportInvariant, PTL

\* A page comes back with the view it was left with, unless it crashed with a
\* save due: pagehide saves at once what the timer would have saved.
THEOREM ViewSurvivesCorrect == PageSpec => ViewSurvivesReload
  <1>1. ASSUME ViewportInv, [PageNext]_pageVars, ~mounted, mounted', left # None
        PROVE  tf' = left
    <2>1. Mount
      BY <1>1, StepOfParts DEF ViewportNext, Saved, Wheel, GestureChange, PointerMove, PointerUp,
         PageReceives, HostReceives, HostLoads, Leave, Gesture, PointerDown, HostZooms, viewportVars
    <2>2. left = IF stored = None THEN Home ELSE stored
      BY <1>1 DEF ViewportInv, ViewKept
    <2>3. tf' = IF stored = None THEN Home ELSE [stored EXCEPT !.scale = Clamp(stored.scale)]
      BY <2>1, Zenon DEF Mount, Apply
    <2>4. stored # None => stored \in View /\ Clamp(stored.scale) = stored.scale
      BY <1>1, ClampFits DEF ViewportInv, ViewportTypes, View, Scales
    <2>. QED
      BY <2>2, <2>3, <2>4 DEF View
  <1>2. ViewportInv /\ [PageNext]_pageVars =>
           [~mounted /\ mounted' /\ left # None => tf' = left]_viewportVars
    BY <1>1
  <1>. QED
    BY <1>2, ViewportInvariant, PTL DEF PageSpec, ViewSurvivesReload

----------------------------------------------------------------------------
(* Prototype: the inductive invariant                                      *)

\* No item that was added has the id of one of data.jsx, and what is open is in
\* the closet.
ClosetOK ==
    /\ \A n \in DOMAIN closet : closet[n].id \in NewItems
    /\ openItem # None => openItem \in InCloset

\* The ids of the outfits count them, and the one recorded last comes first.
LogOK ==
    /\ \A n \in DOMAIN outfits : outfits[n].id \in 1..Len(outfits)
    /\ recorded # None => Len(outfits) > 0 /\ outfits[1] = recorded

\* A slot holds the id of an item of the closet of its category, or for the top
\* of an outer garment.
SlotsHold ==
    \A s \in Cats : build[s] # None =>
        \E c \in IF s = "TOP" THEN {s, Outer} ELSE {s} : build[s] \in OfCat(c)

PrototypeInv == PrototypeTypeOK /\ ClosetOK /\ LogOK /\ SlotsHold /\ RecordedIsFound

LEMMA Prepend ==
    ASSUME NEW S, NEW q \in Seq(S), NEW e \in S
    PROVE  LET r == <<e>> \o q IN
           /\ r \in Seq(S) /\ Len(r) = Len(q) + 1 /\ DOMAIN r = 1..Len(q) + 1
           /\ r[1] = e /\ \A n \in 1..Len(q) : r[n + 1] = q[n]
           /\ \A n \in 1..Len(q) + 1 : n = 1 \/ (n - 1 \in 1..Len(q) /\ r[n] = q[n - 1])
  <1> DEFINE r == <<e>> \o q
  <1>1. <<e>> \in Seq(S) /\ Len(<<e>>) = 1 /\ <<e>>[1] = e /\ Len(q) \in Nat
    BY LenProperties
  <1>2. /\ r \in Seq(S) /\ Len(r) = 1 + Len(q)
        /\ \A i \in 1..1 + Len(q) : r[i] = IF i <= 1 THEN <<e>>[i] ELSE q[i - 1]
    BY <1>1, ConcatProperties
  <1>3. DOMAIN r = 1..Len(r)
    BY <1>2, LenProperties
  <1> HIDE DEF r
  <1>4. r[1] = e
    BY <1>1, <1>2
  <1>5. \A n \in 1..Len(q) : r[n + 1] = q[n]
    BY <1>1, <1>2
  <1>6. \A n \in 1..Len(q) + 1 : n = 1 \/ (n - 1 \in 1..Len(q) /\ r[n] = q[n - 1])
    BY <1>1, <1>2
  <1>7. Len(r) = Len(q) + 1 /\ DOMAIN r = 1..Len(q) + 1
    BY <1>1, <1>2, <1>3
  <1>. QED
    BY <1>2, <1>4, <1>5, <1>6, <1>7 DEF r

\* A nonempty set of natural numbers has a least one.
LEMMA LeastNat ==
    ASSUME NEW T \in SUBSET Nat, T # {}
    PROVE  \E n \in T : \A m \in T : n <= m
  <1>1. PICK n \in T : \A m \in T : ~(<<m, n>> \in OpToRel(<, Nat))
    BY NatLessThanWellFounded, WFMin
  <1>2. \A m \in T : ~(m < n)
    BY <1>1 DEF OpToRel
  <1>3. \A m \in T : n <= m
    BY <1>2
  <1>. QED
    BY <1>3

\* An item of the closet has the category of its first entry, which is the only
\* one unless two items have drawn its id.
LEMMA CategoryOfItem ==
    ASSUME PrototypeTypeOK, ClosetOK
    PROVE  /\ \A i \in DOMAIN CLOSET : CatOf(i) = CLOSET[i]
           /\ \A i \in InCloset : i \in Items /\ CatOf(i) \in Cats /\ i \in OfCat(CatOf(i))
           /\ \A c : \A i \in OfCat(c) : i \in InCloset /\ (i \notin DrawnTwice => CatOf(i) = c)
  <1>1. \A n \in DOMAIN closet : n \in Nat /\ closet[n] \in Closets
    BY LenProperties, ElementOfSeq DEF PrototypeTypeOK
  <1>2. ASSUME NEW i \in DOMAIN CLOSET PROVE CatOf(i) = CLOSET[i]
    <2>1. {n \in DOMAIN closet : closet[n].id = i} = {}
      BY PrototypeAssumption DEF ClosetOK
    <2>. QED
      BY <2>1 DEF CatOf
  <1>3. ASSUME NEW i, NEW k \in DOMAIN closet, closet[k].id = i
        PROVE  \E n \in DOMAIN closet : closet[n].id = i /\ CatOf(i) = closet[n].cat
    <2> DEFINE added == {n \in DOMAIN closet : closet[n].id = i}
    <2>1. added \in SUBSET Nat /\ added # {}
      BY <1>1, <1>3
    <2>2. \E n \in added : \A m \in added : n <= m
      BY <2>1, LeastNat
    <2>3. (CHOOSE n \in added : \A m \in added : n <= m) \in added
      BY <2>2
    <2>4. CatOf(i) = closet[CHOOSE n \in added : \A m \in added : n <= m].cat
      BY <2>1 DEF CatOf
    <2>. QED
      BY <2>3, <2>4
  <1>4. ASSUME NEW i \in InCloset
        PROVE  i \in Items /\ CatOf(i) \in Cats /\ i \in OfCat(CatOf(i))
    <2>1. CASE i \in DOMAIN CLOSET
      BY <1>2, <2>1, PrototypeAssumption DEF Items, OfCat
    <2>2. CASE \E n \in DOMAIN closet : closet[n].id = i
      <3>1. PICK n \in DOMAIN closet : closet[n].id = i /\ CatOf(i) = closet[n].cat
        BY <1>3, <2>2
      <3>. QED
        BY <1>1, <3>1 DEF Closets, OfCat
    <2>. QED
      BY <1>4, <2>1, <2>2 DEF InCloset
  <1>5. ASSUME NEW c, NEW i \in OfCat(c)
        PROVE  i \in InCloset /\ (i \notin DrawnTwice => CatOf(i) = c)
    <2>1. CASE i \in DOMAIN CLOSET /\ CLOSET[i] = c
      BY <1>2, <2>1 DEF InCloset
    <2>2. CASE \E k \in DOMAIN closet : closet[k].id = i /\ closet[k].cat = c
      <3>1. PICK k \in DOMAIN closet : closet[k].id = i /\ closet[k].cat = c
        BY <2>2
      <3>2. PICK n \in DOMAIN closet : closet[n].id = i /\ CatOf(i) = closet[n].cat
        BY <1>3, <3>1
      <3>3. i \notin DrawnTwice => n = k
        BY <3>1, <3>2 DEF DrawnTwice, ClosetOK
      <3>. QED
        BY <3>1, <3>2, <3>3 DEF InCloset
    <2>. QED
      BY <1>5, <2>1, <2>2 DEF OfCat
  <1>. QED
    BY <1>2, <1>4, <1>5

LEMMA PrototypeInitial ==
    ASSUME PrototypeInit
    PROVE  PrototypeInv
  <1>1. <<>> \in Seq(Closets) /\ DOMAIN <<>> = {} /\ Len(OUTFITS) \in Nat
        /\ DOMAIN OUTFITS = 1..Len(OUTFITS)
    BY EmptySeq, LenProperties, PrototypeAssumption
  <1>2. PrototypeTypeOK
    <2>1. build \in [Cats -> Items \cup {None}]
      BY PrototypeAssumption DEF PrototypeInit, Items
    <2>2. pin \in 0..6 /\ entering \in 0..MaxTimers /\ saves \in 0..MaxSaves /\ today \in Days
      BY PrototypeAssumption DEF PrototypeInit
    <2>3. closet \in Seq(Closets) /\ outfits \in Seq(Outfits)
      BY <1>1, PrototypeAssumption DEF PrototypeInit
    <2>4. /\ openItem \in Items \cup {None} /\ openOutfit \in Outfits \cup {None}
          /\ openAdd \in [step: {"photo", "details"}, photoTaken: BOOLEAN] \cup {None}
          /\ pickerCat \in Slots \cup {None} /\ recorded \in Outfits \cup {None}
          /\ cat \in Cats \cup {AnyCat}
      BY DEF PrototypeInit
    <2>5. loggedIn \in BOOLEAN /\ tab \in {"home", "closet", "build", "log", "me"}
      BY DEF PrototypeInit
    <2>. QED
      BY <2>1, <2>2, <2>3, <2>4, <2>5 DEF PrototypeTypeOK
  <1>3. ClosetOK
    BY <1>1 DEF PrototypeInit, ClosetOK
  <1>4. LogOK
    BY PrototypeAssumption DEF PrototypeInit, LogOK
  <1>5. RecordedIsFound
    BY PrototypeAssumption DEF PrototypeInit, RecordedIsFound
  <1>6. SlotsHold
    <2>1. ASSUME NEW s \in Cats, build[s] # None PROVE build[s] \in OfCat(s)
      BY <2>1, PrototypeAssumption DEF PrototypeInit, OfCat
    <2>. QED
      BY <2>1 DEF SlotsHold
  <1>. QED
    BY <1>2, <1>3, <1>4, <1>5, <1>6 DEF PrototypeInv

\* What stores nothing and leaves the slots alone keeps all but the types.
LEMMA RestKeeps ==
    ASSUME PrototypeInv, PrototypeTypeOK', UNCHANGED <<closet, build, outfits, recorded>>,
           openItem' # None => openItem' \in InCloset
    PROVE  PrototypeInv'
  <1>1. \A c : OfCat(c)' = OfCat(c)
    BY DEF OfCat
  <1>2. InCloset' = InCloset
    BY DEF InCloset
  <1>3. ClosetOK' /\ LogOK'
    BY <1>2 DEF PrototypeInv, ClosetOK, LogOK
  <1>4. SlotsHold'
    BY <1>1 DEF PrototypeInv, SlotsHold
  <1>5. RecordedIsFound'
    BY DEF PrototypeInv, RecordedIsFound, OnDay
  <1>. QED
    BY <1>3, <1>4, <1>5 DEF PrototypeInv

\* Logging in and out, the tabs, and what opens and closes.
OpenStep ==
    \/ Digit \/ DeleteDigit \/ Bio \/ Enter("timer") \/ Enter("signup") \/ Logout
    \/ \E t \in {"home", "closet", "log", "me"} : Tab(t)
    \/ \E c \in Cats \cup {AnyCat} : Category(c) \/ OpenPicker(c)
    \/ \E i \in Items : OpenItem(i)
    \/ \E n \in DOMAIN outfits : OpenOutfit(outfits[n])
    \/ OpenAdd \/ Close \/ AddStep \/ Midnight

LEMMA OpenStepKeeps ==
    ASSUME PrototypeInv, OpenStep
    PROVE  PrototypeInv'
  <1>1. UNCHANGED <<closet, build, outfits, recorded, saves>>
    BY DEF OpenStep, Digit, DeleteDigit, Bio, Enter, Logout, Tab, Category, OpenPicker, OpenItem,
       OpenOutfit, OpenAdd, Close, AddStep, Midnight, logVars
  <1>2. openItem' # None => openItem' \in InCloset
    <2>1. \/ openItem' = openItem \/ openItem' = None
          \/ \E i \in Items : OpenItem(i)
      BY DEF OpenStep, Digit, DeleteDigit, Bio, Enter, Logout, Tab, Category, OpenPicker,
         OpenOutfit, OpenAdd, Close, CloseAll, AddStep, Midnight, openVars
    <2>2. ASSUME NEW i \in Items, OpenItem(i) PROVE openItem' \in InCloset
      BY <2>2, CategoryOfItem DEF OpenItem, PrototypeInv
    <2>. QED
      BY <2>1, <2>2 DEF PrototypeInv, ClosetOK
  <1>3. PrototypeTypeOK'
    <2>1. /\ loggedIn' \in BOOLEAN
          /\ tab' \in {"home", "closet", "build", "log", "me"}
          /\ cat' \in Cats \cup {AnyCat}
      <3>1. loggedIn \in BOOLEAN /\ tab \in {"home", "closet", "build", "log", "me"}
            /\ cat \in Cats \cup {AnyCat}
        BY DEF PrototypeInv, PrototypeTypeOK
      <3>2. loggedIn' \in {loggedIn, TRUE, FALSE}
        BY DEF OpenStep, Digit, DeleteDigit, Bio, Enter, Logout, Tab, Category, OpenPicker,
           OpenItem, OpenOutfit, OpenAdd, Close, AddStep, Midnight, loginVars
      <3>3. \/ UNCHANGED <<tab, cat>>
            \/ \E t \in {"home", "closet", "log", "me"} : tab' = t /\ cat' = cat
            \/ \E c \in Cats \cup {AnyCat} : tab' = "closet" /\ cat' = c
        BY DEF OpenStep, Digit, DeleteDigit, Bio, Enter, Logout, Tab, Category, OpenPicker,
           OpenItem, OpenOutfit, OpenAdd, Close, AddStep, Midnight, tabVars
      <3>4. loggedIn' \in BOOLEAN
        BY <3>1, <3>2
      <3>. QED
        BY <3>1, <3>3, <3>4
    <2>2. pin' \in 0..6 /\ entering' \in 0..MaxTimers
      <3>1. pin \in 0..6 /\ entering \in 0..MaxTimers /\ MaxTimers \in Nat
        BY PrototypeAssumption DEF PrototypeInv, PrototypeTypeOK
      <3>2. \/ UNCHANGED <<pin, entering>>
            \/ Digit \/ DeleteDigit \/ Bio \/ Enter("timer") \/ Enter("signup")
        BY DEF OpenStep, Logout, Tab, Category, OpenPicker, OpenItem, OpenOutfit, OpenAdd, Close,
           AddStep, Midnight, loginVars
      <3>3. CASE Digit
        BY <3>1, <3>3 DEF Digit
      <3>4. CASE DeleteDigit
        BY <3>1, <3>4 DEF DeleteDigit
      <3>5. CASE Bio
        BY <3>1, <3>5 DEF Bio
      <3>6. CASE Enter("timer") \/ Enter("signup")
        <4>1. pin' = 0 /\ (entering' = entering \/ (entering' = entering - 1 /\ entering > 0))
          BY <3>6 DEF Enter
        <4>. QED
          BY <3>1, <4>1
      <3>. QED
        BY <3>1, <3>2, <3>3, <3>4, <3>5, <3>6
    <2>3. openItem' \in Items \cup {None}
      BY <1>2, CategoryOfItem DEF PrototypeInv
    <2>4. openOutfit' \in Outfits \cup {None}
      <3>1. \/ openOutfit' = openOutfit \/ openOutfit' = None
            \/ \E n \in DOMAIN outfits : openOutfit' = outfits[n]
        BY DEF OpenStep, Digit, DeleteDigit, Bio, Enter, Logout, Tab, Category, OpenPicker,
           OpenItem, OpenOutfit, OpenAdd, Close, CloseAll, AddStep, Midnight, openVars
      <3>2. \A n \in DOMAIN outfits : outfits[n] \in Outfits
        BY LenProperties, ElementOfSeq DEF PrototypeInv, PrototypeTypeOK
      <3>. QED
        BY <3>1, <3>2 DEF PrototypeInv, PrototypeTypeOK
    <2>5. openAdd' \in [step: {"photo", "details"}, photoTaken: BOOLEAN] \cup {None}
      <3> DEFINE Forms == [step: {"photo", "details"}, photoTaken: BOOLEAN]
      <3>1. openAdd' = openAdd \/ openAdd' = None \/ OpenAdd \/ AddStep
        BY DEF OpenStep, Digit, DeleteDigit, Bio, Enter, Logout, Tab, Category, OpenPicker,
           OpenItem, OpenOutfit, Close, CloseAll, Midnight, openVars
      <3>2. CASE OpenAdd
        BY <3>2 DEF OpenAdd
      <3>3. CASE AddStep
        <4>1. openAdd \in Forms
          BY <3>3 DEF AddStep, PrototypeInv, PrototypeTypeOK
        <4>2. /\ [openAdd EXCEPT !.photoTaken = ~openAdd.photoTaken] \in Forms
              /\ [openAdd EXCEPT !.photoTaken = TRUE] \in Forms
              /\ [openAdd EXCEPT !.step = "details"] \in Forms
          BY <4>1
        <4>3. openAdd' \in {[openAdd EXCEPT !.photoTaken = ~openAdd.photoTaken],
                            [openAdd EXCEPT !.photoTaken = TRUE],
                            [openAdd EXCEPT !.step = "details"]}
          BY <3>3, Zenon DEF AddStep
        <4>. QED
          BY <4>2, <4>3, Zenon
      <3>. QED
        BY <3>1, <3>2, <3>3 DEF PrototypeInv, PrototypeTypeOK
    <2>6. pickerCat' \in Slots \cup {None}
      <3>1. pickerCat' \in {pickerCat, None} \cup Slots
        BY DEF OpenStep, Digit, DeleteDigit, Bio, Enter, Logout, Tab, Category, OpenPicker,
           OpenItem, OpenOutfit, OpenAdd, Close, CloseAll, AddStep, Midnight, openVars
      <3>. QED
        BY <3>1 DEF PrototypeInv, PrototypeTypeOK
    <2>7. today' \in Days
      BY DEF OpenStep, Digit, DeleteDigit, Bio, Enter, Logout, Tab, Category, OpenPicker, OpenItem,
         OpenOutfit, OpenAdd, Close, AddStep, Midnight, PrototypeInv, PrototypeTypeOK
    <2>. QED
      BY <1>1, <2>1, <2>2, <2>3, <2>4, <2>5, <2>6, <2>7 DEF PrototypeInv, PrototypeTypeOK
  <1>. QED
    BY <1>1, <1>2, <1>3, RestKeeps

\* Slots of the outfit being built get an item of their category.
LEMMA BuildKeeps ==
    ASSUME PrototypeInv, PrototypeTypeOK', UNCHANGED <<closet, outfits, recorded>>,
           openItem' # None => openItem' \in InCloset,
           \A s \in Cats : build'[s] # None =>
               build'[s] \in OfCat(s) \/ (s = "TOP" /\ build'[s] \in OfCat(Outer))
    PROVE  PrototypeInv'
  <1>1. \A c : OfCat(c)' = OfCat(c)
    BY DEF OfCat
  <1>2. InCloset' = InCloset
    BY DEF InCloset
  <1>3. ClosetOK' /\ LogOK'
    BY <1>2 DEF PrototypeInv, ClosetOK, LogOK
  <1>4. SlotsHold'
    BY <1>1 DEF SlotsHold
  <1>5. RecordedIsFound'
    BY DEF PrototypeInv, RecordedIsFound, OnDay
  <1>. QED
    BY <1>3, <1>4, <1>5 DEF PrototypeInv

LEMMA WearKeeps ==
    ASSUME PrototypeInv, NEW items \in Picks, Wear(items)
    PROVE  PrototypeInv'
  <1> DEFINE of(s) == {i \in items : CatOf(i) = s}
             new(c) == IF c = Outer THEN None
                       ELSE IF of(c) # {} THEN CHOOSE i \in of(c) : TRUE
                       ELSE IF c = "TOP" /\ of(Outer) # {} THEN CHOOSE i \in of(Outer) : TRUE
                       ELSE None
  <1>1. /\ tab' = "build" /\ build' = [c \in Cats |-> new(c)]
        /\ UNCHANGED <<loginVars, cat, openVars, logVars, closet, today, saves>>
    BY DEF Wear
  <1>2. \A i \in items : i \in InCloset /\ i \in Items /\ i \in OfCat(CatOf(i))
    BY PrototypeAssumption, CategoryOfItem DEF InCloset, PrototypeInv
  <1>3. ASSUME NEW c \in Cats, new(c) # None
        PROVE  /\ new(c) \in items
               /\ CatOf(new(c)) = c \/ (c = "TOP" /\ CatOf(new(c)) = Outer)
    <2>1. CASE of(c) # {}
      <3>1. new(c) \in of(c)
        BY <1>3, <2>1
      <3>. QED
        BY <3>1
    <2>2. CASE of(c) = {}
      <3>1. c = "TOP" /\ new(c) \in of(Outer)
        BY <1>3, <2>2
      <3>. QED
        BY <3>1
    <2>. QED
      BY <2>1, <2>2
  <1> HIDE DEF new
  <1>4. build' \in [Cats -> Items \cup {None}]
    BY <1>1, <1>2, <1>3
  <1>5. PrototypeTypeOK'
    BY <1>1, <1>4 DEF PrototypeInv, PrototypeTypeOK, loginVars, openVars, logVars
  <1>6. openItem' # None => openItem' \in InCloset
    BY <1>1 DEF PrototypeInv, ClosetOK, openVars
  <1>7. \A s \in Cats : build'[s] # None =>
            build'[s] \in OfCat(s) \/ (s = "TOP" /\ build'[s] \in OfCat(Outer))
    <2>1. ASSUME NEW s \in Cats PROVE build'[s] = new(s)
      BY <1>1
    <2>. QED
      BY <1>2, <1>3, <2>1
  <1>. QED
    BY <1>1, <1>5, <1>6, <1>7, BuildKeeps DEF logVars

LEMMA SlotFilledKeeps ==
    ASSUME PrototypeInv, Make \/ (\E i \in Items : Pick(i)) \/ Pick(None)
    PROVE  PrototypeInv'
  <1>1. PICK s \in Cats, i \in InCloset \cup {None} :
          /\ build' = [build EXCEPT ![s] = i]
          /\ i # None => i \in OfCat(s)
    <2>1. CASE Make
      <3>1. /\ openItem \in InCloset /\ CatOf(openItem) \in Cats
            /\ openItem \in OfCat(CatOf(openItem))
        BY <2>1, CategoryOfItem DEF Make, PrototypeInv, ClosetOK
      <3>. QED
        BY <2>1, <3>1 DEF Make, SlotFor
    <2>2. ASSUME NEW i \in Items \cup {None}, Pick(i)
          PROVE  /\ pickerCat \in Cats /\ i \in InCloset \cup {None}
                 /\ build' = [build EXCEPT ![pickerCat] = i]
                 /\ i # None => i \in OfCat(pickerCat)
      <3>1. pickerCat \in Cats
        BY <2>2, PrototypeAssumption DEF Pick, PrototypeInv, PrototypeTypeOK
      <3>2. i # None => i \in OfCat(pickerCat)
        BY <2>2 DEF Pick
      <3>. QED
        BY <2>2, <3>1, <3>2, CategoryOfItem DEF Pick, PrototypeInv
    <2>. QED
      BY <2>1, <2>2
  <1>2. /\ CloseAll /\ tab' \in {tab, "build"}
        /\ UNCHANGED <<loggedIn, pin, entering, cat, outfits, recorded, closet, today, saves>>
    BY DEF Make, Pick, loginVars, tabVars, logVars
  <1>3. i \in Items \cup {None}
    BY CategoryOfItem DEF PrototypeInv
  <1>4. PrototypeTypeOK'
    <2>1. build' \in [Cats -> Items \cup {None}]
      BY <1>1, <1>3 DEF PrototypeInv, PrototypeTypeOK
    <2>2. /\ openItem' \in Items \cup {None} /\ openOutfit' \in Outfits \cup {None}
          /\ openAdd' \in [step: {"photo", "details"}, photoTaken: BOOLEAN] \cup {None}
          /\ pickerCat' \in Slots \cup {None}
      BY <1>2 DEF CloseAll
    <2>3. tab' \in {"home", "closet", "build", "log", "me"}
      BY <1>2 DEF PrototypeInv, PrototypeTypeOK
    <2>. QED
      BY <1>2, <2>1, <2>2, <2>3 DEF PrototypeInv, PrototypeTypeOK
  <1>5. \A c \in Cats : build'[c] # None =>
            build'[c] \in OfCat(c) \/ (c = "TOP" /\ build'[c] \in OfCat(Outer))
    <2>1. \A c \in Cats : build'[c] = IF c = s THEN i ELSE build[c]
      BY <1>1 DEF PrototypeInv, PrototypeTypeOK
    <2>2. ASSUME NEW c \in Cats, build'[c] # None, c = s
          PROVE  build'[c] \in OfCat(c)
      BY <1>1, <2>1, <2>2
    <2>3. ASSUME NEW c \in Cats, build'[c] # None, c # s
          PROVE  build'[c] \in OfCat(c) \/ (c = "TOP" /\ build'[c] \in OfCat(Outer))
      BY <2>1, <2>3 DEF PrototypeInv, SlotsHold
    <2>. QED
      BY <2>2, <2>3
  <1>. QED
    BY <1>2, <1>4, <1>5, BuildKeeps DEF CloseAll

\* An outfit is recorded: it comes first and its id is new.
LEMMA RecordKeeps ==
    ASSUME PrototypeInv, SaveBuild \/ WearAgain
    PROVE  PrototypeInv'
  <1>1. Len(outfits) \in Nat /\ DOMAIN outfits = 1..Len(outfits) /\ outfits \in Seq(Outfits)
    BY LenProperties DEF PrototypeInv, PrototypeTypeOK
  <1>2. PICK items \in SUBSET Items : Record(items)
    <2>1. CASE SaveBuild
      <3> DEFINE items == {build[s] : s \in Slots} \ {None}
      <3>1. Record(items)
        BY <2>1 DEF SaveBuild
      <3>2. items \in SUBSET Items
        BY PrototypeAssumption DEF PrototypeInv, PrototypeTypeOK
      <3>. QED
        BY <3>1, <3>2
    <2>2. CASE WearAgain
      <3>1. openOutfit \in Outfits
        BY <2>2 DEF WearAgain, PrototypeInv, PrototypeTypeOK
      <3>. QED
        BY <2>2, <3>1 DEF WearAgain, Outfits
    <2>. QED
      BY <2>1, <2>2
  <1> DEFINE o == [id |-> Len(outfits) + 1, day |-> today, items |-> items]
  <1>3. outfits' = <<o>> \o outfits /\ recorded' = o
    BY <1>2 DEF Record
  <1>4. o \in Outfits /\ o.id = Len(outfits) + 1
    BY <1>1 DEF Outfits, PrototypeInv, PrototypeTypeOK
  <1> HIDE DEF o
  <1>5. /\ outfits' \in Seq(Outfits) /\ Len(outfits') = Len(outfits) + 1
        /\ DOMAIN outfits' = 1..Len(outfits) + 1 /\ outfits'[1] = o
        /\ \A n \in 1..Len(outfits) + 1 :
              n = 1 \/ (n - 1 \in 1..Len(outfits) /\ outfits'[n] = outfits[n - 1])
    BY <1>1, <1>3, <1>4, Prepend
  <1>6. /\ UNCHANGED <<loggedIn, pin, entering, cat, closet, build, today>>
        /\ saves < MaxSaves /\ saves' = saves + 1
        /\ \/ UNCHANGED openVars
           \/ CloseAll
        /\ tab' \in {tab, "log"}
    BY DEF SaveBuild, WearAgain, Counted, loginVars, tabVars
  <1>7. PrototypeTypeOK'
    <2>1. saves' \in 0..MaxSaves
      BY <1>6, PrototypeAssumption DEF PrototypeInv, PrototypeTypeOK
    <2>2. /\ openItem' \in Items \cup {None} /\ openOutfit' \in Outfits \cup {None}
          /\ openAdd' \in [step: {"photo", "details"}, photoTaken: BOOLEAN] \cup {None}
          /\ pickerCat' \in Slots \cup {None}
      BY <1>6 DEF CloseAll, openVars, PrototypeInv, PrototypeTypeOK
    <2>3. tab' \in {"home", "closet", "build", "log", "me"}
      BY <1>6 DEF PrototypeInv, PrototypeTypeOK
    <2>. QED
      BY <1>3, <1>4, <1>5, <1>6, <2>1, <2>2, <2>3 DEF PrototypeInv, PrototypeTypeOK
  <1>8. ClosetOK'
    BY <1>6 DEF ClosetOK, CloseAll, openVars, InCloset, PrototypeInv
  <1>9. SlotsHold'
    <2>1. \A c : OfCat(c)' = OfCat(c)
      BY <1>6 DEF OfCat
    <2>. QED
      BY <1>6, <2>1 DEF PrototypeInv, SlotsHold
  <1>10. LogOK'
    <2>1. \A n \in 1..Len(outfits) : outfits[n].id \in 1..Len(outfits)
      BY <1>1 DEF PrototypeInv, LogOK
    <2>2. \A n \in DOMAIN outfits' : outfits'[n].id \in 1..Len(outfits')
      BY <1>1, <1>4, <1>5, <2>1
    <2>. QED
      BY <1>1, <1>3, <1>5, <2>2 DEF LogOK
  <1>11. RecordedIsFound'
    <2>1. ASSUME NEW m \in DOMAIN outfits', NEW n \in DOMAIN outfits',
                 outfits'[m].id = outfits'[n].id
          PROVE  m = n
      <3>1. \A k \in 1..Len(outfits) : outfits[k].id \in 1..Len(outfits)
        BY <1>1 DEF PrototypeInv, LogOK
      <3>2. \A j, k \in 1..Len(outfits) : outfits[j].id = outfits[k].id => j = k
        BY <1>1 DEF PrototypeInv, RecordedIsFound
      <3>. QED
        BY <1>1, <1>4, <1>5, <2>1, <3>1, <3>2
    <2>2. OnDay(recorded.day)' = recorded'
      <3> DEFINE at == {n \in DOMAIN outfits' : outfits'[n].day = o.day}
      <3>1. 1 \in at /\ \A n \in at : n \in Nat /\ 1 <= n
        BY <1>1, <1>5
      <3>2. (CHOOSE n \in at : \A m \in at : n <= m) = 1
        BY <3>1
      <3>3. OnDay(recorded.day)' =
              IF at = {} THEN None ELSE outfits'[CHOOSE n \in at : \A m \in at : n <= m]
        BY <1>3 DEF OnDay
      <3>. QED
        BY <1>3, <1>5, <3>1, <3>2, <3>3
    <2>. QED
      BY <2>1, <2>2 DEF RecordedIsFound
  <1>. QED
    BY <1>7, <1>8, <1>9, <1>10, <1>11 DEF PrototypeInv

\* An item is added: it comes first, and what the closet listed under a category
\* it still lists there.
LEMMA AddItemKeeps ==
    ASSUME PrototypeInv, NEW i \in Items, NEW c \in Cats, AddItem(i, c)
    PROVE  PrototypeInv'
  <1> DEFINE it == [id |-> i, cat |-> c]
  <1>1. Len(closet) \in Nat /\ DOMAIN closet = 1..Len(closet) /\ closet \in Seq(Closets)
    BY LenProperties DEF PrototypeInv, PrototypeTypeOK
  <1>2. it \in Closets /\ it.id = i /\ it.cat = c
    BY DEF Closets
  <1>3. /\ i \in NewItems /\ closet' = <<it>> \o closet /\ CloseAll
        /\ saves < MaxSaves /\ saves' = saves + 1
        /\ UNCHANGED <<loggedIn, pin, entering, tab, cat, outfits, recorded, build, today>>
    BY DEF AddItem, Counted, loginVars, tabVars, logVars
  <1> HIDE DEF it
  <1>4. /\ closet' \in Seq(Closets)
        /\ DOMAIN closet' = 1..Len(closet) + 1 /\ closet'[1] = it
        /\ \A n \in 1..Len(closet) : closet'[n + 1] = closet[n]
        /\ \A n \in 1..Len(closet) + 1 :
              n = 1 \/ (n - 1 \in 1..Len(closet) /\ closet'[n] = closet[n - 1])
    BY <1>1, <1>2, <1>3, Prepend
  <1>6. PrototypeTypeOK'
    <2>1. saves' \in 0..MaxSaves
      BY <1>3, PrototypeAssumption DEF PrototypeInv, PrototypeTypeOK
    <2>. QED
      BY <1>3, <1>4, <2>1 DEF CloseAll, PrototypeInv, PrototypeTypeOK
  <1>7. ClosetOK'
    <2>1. \A n \in 1..Len(closet) : closet[n].id \in NewItems
      BY <1>1 DEF PrototypeInv, ClosetOK
    <2>2. \A n \in DOMAIN closet' : closet'[n].id \in NewItems
      BY <1>2, <1>3, <1>4, <2>1
    <2>3. openItem' = None
      BY <1>3 DEF CloseAll
    <2>. QED
      BY <2>2, <2>3 DEF ClosetOK
  <1>8. ASSUME NEW d, NEW k \in OfCat(d) PROVE k \in OfCat(d)'
    <2>1. CASE k \in DOMAIN CLOSET /\ CLOSET[k] = d
      BY <2>1 DEF OfCat
    <2>2. CASE \E n \in DOMAIN closet : closet[n].id = k /\ closet[n].cat = d
      <3>1. PICK n \in 1..Len(closet) : closet[n].id = k /\ closet[n].cat = d
        BY <1>1, <2>2
      <3>2. n + 1 \in DOMAIN closet' /\ closet'[n + 1].id = k /\ closet'[n + 1].cat = d
        BY <1>1, <1>4, <3>1
      <3>. QED
        BY <3>2 DEF OfCat
    <2>. QED
      BY <1>8, <2>1, <2>2 DEF OfCat
  <1>9. SlotsHold'
    BY <1>3, <1>8 DEF PrototypeInv, SlotsHold
  <1>10. LogOK' /\ RecordedIsFound'
    BY <1>3 DEF PrototypeInv, LogOK, RecordedIsFound, OnDay
  <1>. QED
    BY <1>6, <1>7, <1>9, <1>10 DEF PrototypeInv

LEMMA PrototypeStep ==
    ASSUME PrototypeInv, [PageNext]_pageVars
    PROVE  PrototypeInv'
  <1>1. CASE UNCHANGED prototypeVars
    <2>1. UNCHANGED <<loggedIn, pin, entering, tab, cat, openItem, openOutfit, openAdd, pickerCat,
                      outfits, recorded, closet, build, today, saves>>
      BY <1>1 DEF prototypeVars, loginVars, tabVars, openVars, logVars
    <2>2. PrototypeTypeOK'
      BY <2>1 DEF PrototypeInv, PrototypeTypeOK
    <2>3. openItem' # None => openItem' \in InCloset
      BY <2>1 DEF PrototypeInv, ClosetOK
    <2>. QED
      BY <2>1, <2>2, <2>3, RestKeeps
  <1>2. CASE PrototypeNext
    <2>1. CASE OpenStep
      BY <2>1, OpenStepKeeps
    <2>2. CASE \E items \in Picks : Wear(items)
      BY <2>2, WearKeeps
    <2>3. CASE Make \/ (\E i \in Items : Pick(i)) \/ Pick(None)
      BY <2>3, SlotFilledKeeps
    <2>4. CASE SaveBuild \/ WearAgain
      BY <2>4, RecordKeeps
    <2>5. CASE \E i \in Items : \E c \in Cats : AddItem(i, c)
      BY <2>5, AddItemKeeps
    <2>. QED
      BY <1>2, <2>1, <2>2, <2>3, <2>4, <2>5 DEF PrototypeNext, OpenStep
  <1>. QED
    BY <1>1, <1>2, StepOfParts

\* What the proofs rest on: the inductive invariant of the prototype.
THEOREM PrototypeInvariant == PageSpec => []PrototypeInv
  <1>1. PageInit => PrototypeInv
    BY PrototypeInitial DEF PageInit
  <1>2. PrototypeInv /\ [PageNext]_pageVars => PrototypeInv'
    BY PrototypeStep
  <1>. QED
    BY <1>1, <1>2, PTL DEF PageSpec

\* A slot of the outfit being built holds the id of an item of its category, or
\* of an outer garment for the top, and shows that item, however the closet has
\* grown since: wearOutfit, onMake and the picker put each item under its own
\* category.  What byIdInCloset shows for an id that two items have drawn is
\* excepted; it can be the item of the other category.
THEOREM SlotsFitCorrect == PageSpec => []SlotsFit
  <1>1. PrototypeInv => SlotsFit
    BY CategoryOfItem DEF PrototypeInv, SlotsHold, SlotsFit
  <1>. QED
    BY <1>1, PrototypeInvariant, PTL

\* The outfit recorded last is the one its day shows in the calendar, and no
\* other has its id: it is put first, under an id that counts the outfits.
THEOREM RecordedFoundCorrect == PageSpec => []RecordedIsFound
  BY PrototypeInvariant, PTL DEF PrototypeInv

----------------------------------------------------------------------------
(* Canvas: the inductive invariant of its writes                           *)

\* Each write has a number, and none under way that of the one in the file.
WritesNumbered ==
    /\ issued \in Nat /\ landed \in Nat /\ landed <= issued
    /\ \A w \in flying : w.n \in Nat /\ w.n <= issued /\ w.n # landed
    /\ \A v, w \in flying : v.n = w.n => v = w

\* Before the read, and until the render of what it brought consumes the flag
\* that skips a write, nothing is written.
NothingIssued == ~due /\ flying = {} /\ issued = 0 /\ landed = 0
UnreadCanvas ==
    /\ ~didRead => NothingIssued /\ hydrating = {} /\ ~skipNextWrite /\ ~hydrated
    /\ skipNextWrite => NothingIssued /\ didRead /\ hydrating # {}
    /\ skipNextWrite /\ ~early => hydrating = {file}

\* When no write is due, the last one issued has what the canvas shows.
LastWriteOfAll ==
    bridge /\ didRead /\ hydrating = {} /\ ~due /\ ~early =>
        /\ \A w \in flying : w.n = issued => w.sections = sections
        /\ landed = issued /\ (issued > 0 \/ hydrated) => file = sections

CanvasInv == WritesNumbered /\ UnreadCanvas /\ LastWriteOfAll

writingVars == <<file, sections, hydrating, didRead, skipNextWrite, due, flying, hydrated,
                 early, issued, landed>>

LEMMA CanvasInitial ==
    ASSUME CanvasInit
    PROVE  CanvasInv
  BY DEF CanvasInit, CanvasInv, WritesNumbered, UnreadCanvas, NothingIssued, LastWriteOfAll

LEMMA WritingSame ==
    ASSUME CanvasInv, UNCHANGED bridge, UNCHANGED writingVars
    PROVE  CanvasInv'
  BY DEF writingVars, CanvasInv, WritesNumbered, UnreadCanvas, NothingIssued, LastWriteOfAll

\* An edit that is rendered makes a write due, unless it came too early.
LEMMA EditKeeps ==
    ASSUME CanvasInv, Effect, hydrating = {} <=> hydrating' = {},
           early' <=> ~didRead \/ hydrating # {},
           UNCHANGED <<bridge, didRead, hydrated, file, flying, issued, landed>>
    PROVE  CanvasInv'
  <1>1. WritesNumbered'
    BY DEF CanvasInv, WritesNumbered
  <1>2. CASE ~didRead
    <2>1. UNCHANGED <<skipNextWrite, due>> /\ early'
      BY <1>2, Zenon DEF Effect
    <2>. QED
      BY <1>1, <1>2, <2>1 DEF CanvasInv, UnreadCanvas, NothingIssued, LastWriteOfAll
  <1>3. CASE didRead /\ skipNextWrite
    <2>1. ~skipNextWrite' /\ ~due' /\ hydrating # {} /\ early'
      BY <1>3, Zenon DEF Effect, CanvasInv, UnreadCanvas
    <2>. QED
      BY <1>1, <1>3, <2>1 DEF CanvasInv, UnreadCanvas, NothingIssued, LastWriteOfAll
  <1>4. CASE didRead /\ ~skipNextWrite
    <2>1. ~skipNextWrite' /\ due'
      BY <1>4, Zenon DEF Effect
    <2>. QED
      BY <1>1, <1>4, <2>1 DEF CanvasInv, UnreadCanvas, LastWriteOfAll
  <1>. QED
    BY <1>2, <1>3, <1>4

\* One that is not waits with what the read brought.
LEMMA EditWaitsKeeps ==
    ASSUME CanvasInv, hydrating # {}, hydrating' # {}, early',
           UNCHANGED <<bridge, didRead, skipNextWrite, due, hydrated, file, flying, issued, landed>>
    PROVE  CanvasInv'
  BY DEF CanvasInv, WritesNumbered, UnreadCanvas, NothingIssued, LastWriteOfAll

LEMMA EditsKeep ==
    ASSUME CanvasInv, UNCHANGED bridge,
           Delete \/ Settled \/ (\E s \in Section, name \in Names : Rename(s, name))
    PROVE  CanvasInv'
  <1>1. UNCHANGED <<didRead, hydrated, file, flying, issued, landed>>
    BY DEF Delete, Settled, Rename, readVars, fileVars
  <1>2. CASE UNCHANGED writingVars
    BY <1>2, WritingSame
  <1>3. ASSUME NEW s, NEW name, Rename(s, name) PROVE CanvasInv'
    <2>1. /\ hydrating' = {Renamed(h, s, name) : h \in hydrating}
          /\ early' = (~didRead \/ hydrating # {}) /\ Effect
      BY <1>3, Zenon DEF Rename, Patch
    <2>2. (hydrating = {} <=> hydrating' = {}) /\ (early' <=> ~didRead \/ hydrating # {})
      BY <2>1, Zenon
    <2>. QED
      BY <1>1, <2>1, <2>2, EditKeeps
  <1>4. CASE Delete /\ menuOpen \in confirming
    <2>1. /\ hydrating' = {Deleted(h, menuOpen) : h \in hydrating}
          /\ early' = (~didRead \/ hydrating # {}) /\ Effect
      BY <1>4, Zenon DEF Delete, Patch
    <2>2. (hydrating = {} <=> hydrating' = {}) /\ (early' <=> ~didRead \/ hydrating # {})
      BY <2>1, Zenon
    <2>. QED
      BY <1>1, <2>1, <2>2, EditKeeps
  <1>5. CASE Delete /\ menuOpen \notin confirming
    <2>1. UNCHANGED editVars
      BY <1>5, Zenon DEF Delete
    <2>. QED
      BY <1>1, <1>2, <2>1 DEF editVars, writingVars
  <1>6. CASE Settled
    <2> DEFINE d == Head(settling)
    <2>1. CASE d.live = d.drag.order
      <3>1. UNCHANGED <<sections, hydrating, skipNextWrite, due, early>>
        BY <1>6, <2>1, Zenon DEF Settled
      <3>. QED
        BY <1>1, <1>2, <3>1 DEF writingVars
    <2>2. CASE d.live # d.drag.order /\ hydrating = {}
      <3>1. early' = (~didRead \/ hydrating # {}) /\ Effect /\ hydrating' = hydrating
        BY <1>6, <2>2, Zenon DEF Settled, PatchLater
      <3>2. early' <=> ~didRead \/ hydrating # {}
        BY <3>1, Zenon
      <3>. QED
        BY <1>1, <3>1, <3>2, EditKeeps
    <2>3. CASE d.live # d.drag.order /\ hydrating # {}
      <3>1. /\ early' = (~didRead \/ hydrating # {})
            /\ hydrating' = {Reordered(h, d) : h \in hydrating}
            /\ UNCHANGED <<sections, skipNextWrite, due>>
        BY <1>6, <2>3, Zenon DEF Settled, PatchLater
      <3>2. early' /\ hydrating' # {}
        BY <2>3, <3>1, Zenon
      <3>. QED
        BY <1>1, <2>3, <3>1, <3>2, EditWaitsKeeps
    <2>. QED
      BY <2>1, <2>2, <2>3
  <1>. QED
    BY <1>3, <1>4, <1>5, <1>6

LEMMA ReadAnsweredKeeps ==
    ASSUME CanvasInv, UNCHANGED bridge, NEW answer \in BOOLEAN, ReadAnswered(answer)
    PROVE  CanvasInv'
  <1>1. /\ ~didRead /\ didRead' /\ (hydrated' <=> answer)
        /\ UNCHANGED <<sections, due, early, file, flying, issued, landed>>
    BY DEF ReadAnswered, fileVars
  <1>2. NothingIssued /\ hydrating = {} /\ ~skipNextWrite
    BY <1>1 DEF CanvasInv, UnreadCanvas
  <1>3. WritesNumbered'
    BY <1>1 DEF CanvasInv, WritesNumbered
  <1>4. CASE answer
    <2>1. hydrating' = {file}
      BY <1>4, Zenon DEF ReadAnswered
    <2>. QED
      BY <1>1, <1>2, <1>3, <2>1 DEF CanvasInv, UnreadCanvas, NothingIssued, LastWriteOfAll
  <1>5. CASE ~answer
    <2>1. UNCHANGED <<hydrating, skipNextWrite>>
      BY <1>5, Zenon DEF ReadAnswered
    <2>. QED
      BY <1>1, <1>2, <1>3, <1>5, <2>1
      DEF CanvasInv, UnreadCanvas, NothingIssued, LastWriteOfAll
  <1>. QED
    BY <1>4, <1>5

LEMMA RenderKeeps ==
    ASSUME CanvasInv, UNCHANGED bridge, RenderHydration
    PROVE  CanvasInv'
  <1>1. /\ sections' \in hydrating /\ hydrating' = {} /\ Effect
        /\ UNCHANGED <<didRead, hydrated, early, file, flying, issued, landed>>
    BY DEF RenderHydration, fileVars
  <1>2. WritesNumbered' /\ didRead
    BY <1>1 DEF CanvasInv, WritesNumbered, UnreadCanvas
  <1>3. CASE skipNextWrite
    <2>1. ~skipNextWrite' /\ ~due'
      BY <1>1, <1>2, <1>3, Zenon DEF Effect
    <2>2. NothingIssued /\ (~early => sections' = file)
      BY <1>1, <1>3 DEF CanvasInv, UnreadCanvas
    <2>. QED
      BY <1>1, <1>2, <2>1, <2>2 DEF CanvasInv, UnreadCanvas, NothingIssued, LastWriteOfAll
  <1>4. CASE ~skipNextWrite
    <2>1. ~skipNextWrite' /\ due'
      BY <1>1, <1>2, <1>4, Zenon DEF Effect
    <2>. QED
      BY <1>1, <1>2, <2>1 DEF CanvasInv, UnreadCanvas, LastWriteOfAll
  <1>. QED
    BY <1>3, <1>4

LEMMA WriteDueKeeps ==
    ASSUME CanvasInv, UNCHANGED bridge, WriteDue
    PROVE  CanvasInv'
  <1>1. /\ due /\ ~due'
        /\ UNCHANGED <<sections, hydrating, skipNextWrite, early, didRead, hydrated, file, landed>>
    BY DEF WriteDue, readVars
  <1>2. didRead /\ ~skipNextWrite
    BY <1>1 DEF CanvasInv, UnreadCanvas, NothingIssued
  <1>3. CASE ~bridge
    <2>1. UNCHANGED <<issued, flying>>
      BY <1>3, Zenon DEF WriteDue
    <2>. QED
      BY <1>1, <1>2, <1>3, <2>1 DEF CanvasInv, WritesNumbered, UnreadCanvas, LastWriteOfAll
  <1>4. CASE bridge
    <2>1. /\ issued' = issued + 1
          /\ flying' = flying \cup {[n |-> issued + 1, sections |-> sections]}
      BY <1>4, Zenon DEF WriteDue
    <2>2. WritesNumbered'
      BY <1>1, <2>1 DEF CanvasInv, WritesNumbered
    <2>3. UnreadCanvas'
      BY <1>1, <1>2, <2>1 DEF UnreadCanvas
    <2>4. LastWriteOfAll'
      <3>1. \A w \in flying' : w.n = issued' => w.sections = sections
        BY <2>1 DEF CanvasInv, WritesNumbered
      <3>2. landed # issued'
        BY <2>1 DEF CanvasInv, WritesNumbered
      <3>. QED
        BY <1>1, <3>1, <3>2 DEF LastWriteOfAll
    <2>. QED
      BY <2>2, <2>3, <2>4 DEF CanvasInv
  <1>. QED
    BY <1>3, <1>4

LEMMA WriteLandsKeeps ==
    ASSUME CanvasInv, UNCHANGED bridge, NEW w \in flying, NEW ok \in BOOLEAN, WriteLands(w, ok)
    PROVE  CanvasInv'
  <1>1. /\ flying' = flying \ {w}
        /\ UNCHANGED <<sections, hydrating, skipNextWrite, due, early, didRead, hydrated, issued>>
    BY DEF WriteLands, editVars, readVars
  <1>2. \/ file' = w.sections /\ landed' = w.n
        \/ file' = file /\ landed' = landed
    BY DEF WriteLands
  <1>3. WritesNumbered'
    BY <1>1, <1>2 DEF CanvasInv, WritesNumbered
  <1>4. UnreadCanvas'
    BY <1>1 DEF CanvasInv, UnreadCanvas, NothingIssued
  <1>5. LastWriteOfAll'
    BY <1>1, <1>2 DEF CanvasInv, WritesNumbered, LastWriteOfAll
  <1>. QED
    BY <1>3, <1>4, <1>5 DEF CanvasInv

LEMMA CanvasStep ==
    ASSUME CanvasInv, [PageNext]_pageVars
    PROVE  CanvasInv'
  <1>1. UNCHANGED bridge
    BY StepOfParts DEF hostVars
  <1>2. CASE UNCHANGED writingVars
    BY <1>1, <1>2, WritingSame
  <1>3. CASE UNCHANGED canvasVars
    BY <1>2, <1>3 DEF canvasVars, editVars, readVars, fileVars, writingVars
  <1>4. CASE CanvasNext
    <2>1. ASSUME NEW answer \in BOOLEAN, ReadAnswered(answer) PROVE CanvasInv'
      BY <1>1, <2>1, ReadAnsweredKeeps
    <2>2. CASE RenderHydration
      BY <1>1, <2>2, RenderKeeps
    <2>3. CASE WriteDue
      BY <1>1, <2>3, WriteDueKeeps
    <2>4. ASSUME NEW w \in flying, NEW ok \in BOOLEAN, WriteLands(w, ok) PROVE CanvasInv'
      BY <1>1, <2>4, WriteLandsKeeps
    <2>5. CASE Delete \/ Settled \/ (\E s \in Section, name \in Names : Rename(s, name))
      BY <1>1, <2>5, EditsKeep
    <2>6. CASE ReadyTimeout
      BY <1>2, <2>6 DEF ReadyTimeout, editVars, fileVars, writingVars
    <2>7. CASE Dismiss \/ Go \/ Jump \/ Exit \/ \E k \in Board : Kebab(k) \/ GripDown(k) \/ Focus(k)
      BY <1>2, <2>7 DEF Dismiss, Go, Jump, Exit, Kebab, GripDown, Focus, Look, editVars, readVars,
         fileVars, writingVars
    <2>8. ASSUME NEW i, GripUp(i) PROVE CanvasInv'
      BY <1>2, <2>8 DEF GripUp, readVars, fileVars, writingVars
    <2>. QED
      BY <1>4, <2>1, <2>2, <2>3, <2>4, <2>5, <2>6, <2>7, <2>8 DEF CanvasNext
  <1>. QED
    BY <1>3, <1>4, StepOfParts

\* What the proofs rest on: the inductive invariant of the canvas's writes.
THEOREM CanvasInvariant == PageSpec => []CanvasInv
  <1>1. PageInit => CanvasInv
    BY CanvasInitial DEF PageInit
  <1>2. CanvasInv /\ [PageNext]_pageVars => CanvasInv'
    BY CanvasStep
  <1>. QED
    BY <1>1, <1>2, PTL DEF PageSpec

\* When no timer is on and the last write has landed, the file holds what the
\* canvas shows: the effect of a change restarts the timer of the write and
\* skips only the render of what was read.
THEOREM CanvasSavedCorrect == PageSpec => []CanvasSaved
  <1>1. CanvasInv => CanvasSaved
    BY DEF CanvasInv, LastWriteOfAll, CanvasSaved
  <1>. QED
    BY <1>1, CanvasInvariant, PTL

----------------------------------------------------------------------------
(* Canvas: what its edits do to the artboards                              *)

\* What is kept of each section is a record of four fields.
IsKept(p) == p = [order |-> p.order, hidden |-> p.hidden, key |-> p.key, name |-> p.name]
KeptState(x) == x = [s \in Section |-> x[s]] /\ \A s \in Section : IsKept(x[s])

KeptOK ==
    /\ KeptState(sections)
    /\ \A h \in hydrating : KeptState(h)
    /\ file # None => KeptState(file)
    /\ \A w \in flying : KeptState(w.sections)

\* Only the open menu asks again, after one click.
MenuOK ==
    /\ menuOpen \in Board \cup {None}
    /\ confirming \subseteq {menuOpen} /\ None \notin confirming
    /\ clicks = IF confirming = {} THEN 0 ELSE 1

EditInv == KeptOK /\ MenuOK

\* The three edits of a record.
LEMMA FieldEdits ==
    ASSUME NEW p, IsKept(p), NEW v
    PROVE  /\ IsKept([p EXCEPT !.name = v]) /\ Hidden([p EXCEPT !.name = v]) = Hidden(p)
           /\ IsKept([p EXCEPT !.order = v]) /\ Hidden([p EXCEPT !.order = v]) = Hidden(p)
           /\ IsKept(Without(p, v)) /\ Hidden(Without(p, v)) = Hidden(p) \cup {v}
  <1> DEFINE o == p.order
             h == p.hidden
             k == p.key
             n == p.name
             g == Hidden(p) \cup {v}
  <1>1. p = [order |-> o, hidden |-> h, key |-> k, name |-> n]
    BY DEF IsKept
  <1> HIDE DEF o, h, k, n, g
  <1>2. [p EXCEPT !.name = v] = [order |-> o, hidden |-> h, key |-> k, name |-> v]
    BY <1>1
  <1>3. [p EXCEPT !.order = v] = [order |-> v, hidden |-> h, key |-> k, name |-> n]
    BY <1>1
  <1>4. p.hidden = h /\ p.key = k
    BY <1>1
  <1>5. Without(p, v) = [order |-> o, hidden |-> g, key |-> "this", name |-> n]
    <2>1. Without(p, v) = [p EXCEPT !.hidden = g, !.key = "this"]
      BY DEF Without, g
    <2>. QED
      BY <1>1, <2>1
  <1>6. /\ IsKept([p EXCEPT !.name = v]) /\ Hidden([p EXCEPT !.name = v]) = Hidden(p)
    BY <1>2, <1>4 DEF IsKept, Hidden
  <1>7. /\ IsKept([p EXCEPT !.order = v]) /\ Hidden([p EXCEPT !.order = v]) = Hidden(p)
    BY <1>3, <1>4 DEF IsKept, Hidden
  <1>8. Without(p, v).hidden = Hidden(p) \cup {v} /\ Without(p, v).key = "this"
    BY <1>5 DEF g
  <1>9. /\ IsKept(Without(p, v)) /\ Hidden(Without(p, v)) = Hidden(p) \cup {v}
    <2>1. IsKept(Without(p, v))
      BY <1>5 DEF IsKept
    <2>2. Hidden(Without(p, v)) = Without(p, v).hidden
      BY <1>8 DEF Hidden
    <2>. QED
      BY <1>8, <2>1, <2>2
  <1>. QED
    BY <1>6, <1>7, <1>9

LEMMA EditInitial ==
    ASSUME CanvasInit
    PROVE  EditInv
  <1>1. Unpatched.order = <<>> /\ IsKept(Unpatched)
    BY DEF Unpatched, IsKept
  <1>2. KeptState(sections)
    BY <1>1 DEF CanvasInit, KeptState
  <1>3. \A x \in [Section -> Patched] : KeptState(x)
    BY DEF KeptState, IsKept, Patched
  <1>4. KeptOK
    BY <1>2, <1>3, CanvasAssumption DEF CanvasInit, KeptOK
  <1>5. MenuOK
    BY DEF CanvasInit, MenuOK
  <1>. QED
    BY <1>4, <1>5 DEF EditInv

\* What an edit does: a section is renamed or reordered, or the artboard whose
\* menu asked again is hidden.
Edited(x, y) ==
    \E s, v, d : \/ y = Renamed(x, s, v)
                 \/ y = Reordered(x, d)
                 \/ menuOpen \in confirming /\ y = Deleted(x, menuOpen)

\* Each puts something in the place of one section.
Put(x, s, p) == [x EXCEPT ![s] = p]
Named(p, v) == [p EXCEPT !.name = v]
Ordered(p, v) == [p EXCEPT !.order = v]

LEMMA PutEffect ==
    ASSUME NEW x, KeptState(x), NEW s, NEW p, s \in Section => IsKept(p)
    PROVE  /\ KeptState(Put(x, s, p))
           /\ \A t \in Section : Put(x, s, p)[t] = IF t = s THEN p ELSE x[t]
  <1> DEFINE y == Put(x, s, p)
  <1>1. x = [t \in Section |-> x[t]] /\ \A t \in Section : IsKept(x[t])
    BY DEF KeptState
  <1>2. DOMAIN x = Section
    BY <1>1
  <1>3. y = [t \in Section |-> IF t = s THEN p ELSE x[t]]
    BY <1>2 DEF Put
  <1> HIDE DEF y
  <1>4. \A t \in Section : y[t] = IF t = s THEN p ELSE x[t]
    BY <1>3
  <1>5. y = [t \in Section |-> y[t]]
    BY <1>3
  <1>6. \A t \in Section : IsKept(y[t])
    BY <1>1, <1>4
  <1>. QED
    BY <1>4, <1>5, <1>6 DEF KeptState, y

\* A section keeps what it hides, or hides the artboard whose menu asked again.
SameOrHidden(p, q) ==
    \/ Hidden(q) = Hidden(p)
    \/ menuOpen \in confirming /\ Hidden(q) = Hidden(p) \cup {menuOpen}

LEMMA EditedEffect ==
    ASSUME NEW x, KeptState(x), NEW y, Edited(x, y)
    PROVE  KeptState(y) /\ \A t \in Section : SameOrHidden(x[t], y[t])
  <1>1. PICK s, v, d :
          \/ y = Renamed(x, s, v)
          \/ y = Reordered(x, d)
          \/ menuOpen \in confirming /\ y = Deleted(x, menuOpen)
    BY DEF Edited
  <1>2. PICK r, w, p :
          /\ y = Put(x, r, p)
          /\ \/ p = Named(x[r], w) \/ p = Ordered(x[r], w)
             \/ menuOpen \in confirming /\ p = Without(x[r], menuOpen)
    <2>1. CASE y = Renamed(x, s, v)
      <3>1. y = Put(x, s, Named(x[s], v))
        BY <2>1, Zenon DEF Renamed, Put, Named
      <3>. QED
        BY <3>1, Zenon
    <2>2. CASE y = Reordered(x, d)
      <3>1. y = Put(x, SectionOf(d.drag.id), Ordered(x[SectionOf(d.drag.id)], d.live))
        BY <2>2, Zenon DEF Reordered, Put, Ordered
      <3>. QED
        BY <3>1, Zenon
    <2>3. CASE menuOpen \in confirming /\ y = Deleted(x, menuOpen)
      <3>1. y = Put(x, SectionOf(menuOpen), Without(x[SectionOf(menuOpen)], menuOpen))
        BY <2>3, Zenon DEF Deleted, Put
      <3>. QED
        BY <2>3, <3>1, Zenon
    <2>. QED
      BY <1>1, <2>1, <2>2, <2>3
  <1>3. r \in Section => IsKept(x[r])
    BY DEF KeptState
  <1>4. r \in Section => IsKept(p) /\ SameOrHidden(x[r], p)
    <2>1. CASE p = Named(x[r], w)
      BY <1>3, <2>1, FieldEdits DEF Named, SameOrHidden
    <2>2. CASE p = Ordered(x[r], w)
      BY <1>3, <2>2, FieldEdits DEF Ordered, SameOrHidden
    <2>3. CASE menuOpen \in confirming /\ p = Without(x[r], menuOpen)
      BY <1>3, <2>3, FieldEdits DEF SameOrHidden
    <2>. QED
      BY <1>2, <2>1, <2>2, <2>3
  <1>5. KeptState(y) /\ \A t \in Section : y[t] = IF t = r THEN p ELSE x[t]
    BY <1>2, <1>4, PutEffect
  <1>6. ASSUME NEW t \in Section PROVE SameOrHidden(x[t], y[t])
    <2>1. CASE t = r
      BY <1>4, <1>5, <2>1
    <2>2. CASE t # r
      BY <1>5, <2>2 DEF SameOrHidden
    <2>. QED
      BY <2>1, <2>2
  <1>. QED
    BY <1>5, <1>6

LEMMA EditForms ==
    ASSUME NEW x, NEW s, NEW v
    PROVE  /\ Edited(x, Renamed(x, s, v)) /\ Edited(x, Reordered(x, v))
           /\ menuOpen \in confirming => Edited(x, Deleted(x, menuOpen))
  BY Zenon DEF Edited

\* Every step that changes the sections as rendered edits them, or renders what
\* was read; what was read is only edited until then.
LEMMA SectionsStep ==
    ASSUME CanvasNext
    PROVE  /\ \/ sections' = sections
              \/ Edited(sections, sections')
              \/ RenderHydration
           /\ \/ hydrating' = hydrating \/ hydrating' = {}
              \/ file # None /\ hydrating' = {file}
              \/ \A y \in hydrating' : \E x \in hydrating : Edited(x, y)
  <1> DEFINE Goal == /\ \/ sections' = sections
                        \/ Edited(sections, sections')
                        \/ RenderHydration
                     /\ \/ hydrating' = hydrating \/ hydrating' = {}
                        \/ file # None /\ hydrating' = {file}
                        \/ \A y \in hydrating' : \E x \in hydrating : Edited(x, y)
  <1>1. ASSUME NEW s, NEW name, Rename(s, name) PROVE Goal
    <2>1. /\ sections' = Renamed(sections, s, name)
          /\ hydrating' = {Renamed(h, s, name) : h \in hydrating}
      BY <1>1, Zenon DEF Rename, Patch
    <2>2. /\ Edited(sections, Renamed(sections, s, name))
          /\ \A h \in hydrating : Edited(h, Renamed(h, s, name))
      BY EditForms
    <2>. QED
      BY <2>1, <2>2
  <1>2. CASE Delete /\ menuOpen \in confirming
    <2>1. /\ sections' = Deleted(sections, menuOpen)
          /\ hydrating' = {Deleted(h, menuOpen) : h \in hydrating}
      BY <1>2, Zenon DEF Delete, Patch
    <2>2. /\ Edited(sections, Deleted(sections, menuOpen))
          /\ \A h \in hydrating : Edited(h, Deleted(h, menuOpen))
      BY <1>2, EditForms
    <2>. QED
      BY <2>1, <2>2
  <1>3. CASE Delete /\ menuOpen \notin confirming
    BY <1>3, Zenon DEF Delete, editVars
  <1>4. CASE Settled
    <2> DEFINE d == Head(settling)
    <2>1. CASE d.live = d.drag.order
      BY <1>4, <2>1, Zenon DEF Settled
    <2>2. CASE d.live # d.drag.order /\ hydrating = {}
      <3>1. sections' = Reordered(sections, d) /\ hydrating' = hydrating
        BY <1>4, <2>2, Zenon DEF Settled, PatchLater
      <3> HIDE DEF d
      <3>. QED
        BY <3>1, EditForms
    <2>3. CASE d.live # d.drag.order /\ hydrating # {}
      <3>1. /\ sections' = sections
            /\ hydrating' = {Reordered(h, d) : h \in hydrating}
        BY <1>4, <2>3, Zenon DEF Settled, PatchLater
      <3> HIDE DEF d
      <3>. QED
        BY <3>1, EditForms
    <2>. QED
      BY <2>1, <2>2, <2>3
  <1>5. ASSUME NEW answer \in BOOLEAN, ReadAnswered(answer) PROVE Goal
    <2>1. sections' = sections
      BY <1>5 DEF ReadAnswered
    <2>2. hydrating' = hydrating \/ (file # None /\ hydrating' = {file})
      BY <1>5, Zenon DEF ReadAnswered
    <2>. QED
      BY <2>1, <2>2
  <1>6. CASE RenderHydration
    BY <1>6 DEF RenderHydration
  <1>7. CASE \/ ReadyTimeout \/ WriteDue \/ Dismiss \/ Go \/ Jump \/ Exit
             \/ \E w \in flying, ok \in BOOLEAN : WriteLands(w, ok)
             \/ \E k \in Board : Kebab(k) \/ GripDown(k) \/ Focus(k)
             \/ \E i \in 1..Cardinality(Board) : GripUp(i)
    <2>1. sections' = sections /\ hydrating' = hydrating
      BY <1>7 DEF ReadyTimeout, WriteDue, Dismiss, Go, Jump, Exit, Look, WriteLands, Kebab, GripDown,
         Focus, GripUp, editVars
    <2>. QED
      BY <2>1
  <1>. QED
    BY <1>1, <1>2, <1>3, <1>4, <1>5, <1>6, <1>7 DEF CanvasNext

LEMMA KeptStep ==
    ASSUME KeptOK, [PageNext]_pageVars
    PROVE  KeptOK'
  <1>1. CASE UNCHANGED canvasVars
    BY <1>1 DEF canvasVars, editVars, fileVars, KeptOK
  <1>2. CASE CanvasNext
    <2>1. \A h \in hydrating' : KeptState(h)
      <3>1. CASE \A y \in hydrating' : \E x \in hydrating : Edited(x, y)
        BY <3>1, EditedEffect DEF KeptOK
      <3>2. CASE hydrating' = hydrating \/ hydrating' = {} \/ (file # None /\ hydrating' = {file})
        BY <3>2 DEF KeptOK
      <3>. QED
        BY <1>2, <3>1, <3>2, SectionsStep
    <2>2. KeptState(sections')
      <3>1. CASE Edited(sections, sections')
        BY <3>1, EditedEffect DEF KeptOK
      <3>2. CASE RenderHydration
        BY <3>2 DEF RenderHydration, KeptOK
      <3>3. CASE sections' = sections
        BY <3>3 DEF KeptOK
      <3>. QED
        BY <1>2, <3>1, <3>2, <3>3, SectionsStep
    <2>3. (file' # None => KeptState(file')) /\ \A w \in flying' : KeptState(w.sections)
      <3>1. CASE WriteDue
        BY <3>1 DEF WriteDue, KeptOK
      <3>2. ASSUME NEW w \in flying, NEW ok \in BOOLEAN, WriteLands(w, ok)
            PROVE  (file' # None => KeptState(file')) /\ \A v \in flying' : KeptState(v.sections)
        BY <3>2 DEF WriteLands, KeptOK
      <3>3. CASE UNCHANGED fileVars
        BY <3>3 DEF fileVars, KeptOK
      <3>4. \/ UNCHANGED fileVars \/ WriteDue
            \/ \E w \in flying, ok \in BOOLEAN : WriteLands(w, ok)
        BY <1>2 DEF CanvasNext, ReadAnswered, RenderHydration, ReadyTimeout, Rename, Dismiss, Delete,
           Settled, Go, Jump, Exit, Look, Kebab, GripDown, Focus, GripUp
      <3>. QED
        BY <3>1, <3>2, <3>3, <3>4
    <2>. QED
      BY <2>1, <2>2, <2>3 DEF KeptOK
  <1>. QED
    BY <1>1, <1>2, StepOfParts

LEMMA MenuStep ==
    ASSUME MenuOK, [PageNext]_pageVars
    PROVE  MenuOK'
  <1> USE DEF MenuOK
  <1>0. None \notin Board
    BY CanvasAssumption
  <1>1. CASE UNCHANGED menuVars
    BY <1>1 DEF menuVars
  <1>2. CASE CloseMenu
    BY <1>0, <1>2 DEF CloseMenu
  <1>3. ASSUME NEW k \in Board, Kebab(k) PROVE MenuOK'
    <2>1. CASE CloseMenu
      BY <1>2, <2>1
    <2>2. CASE menuOpen # k /\ menuOpen' = k /\ confirming' = confirming \ {menuOpen} /\ clicks' = 0
      BY <1>0, <2>2
    <2>. QED
      BY <1>3, <2>1, <2>2 DEF Kebab
  <1>4. CASE Delete
    <2>1. CASE menuOpen \notin confirming
      BY <1>4, <2>1 DEF Delete
    <2>2. CASE menuOpen \in confirming
      BY <1>2, <1>4, <2>2 DEF Delete
    <2>. QED
      BY <2>1, <2>2
  <1>5. CASE RenderHydration
    <2>1. CASE menuOpen # None /\ menuOpen \in Shown'
      BY <1>5, <2>1 DEF RenderHydration
    <2>2. CASE ~(menuOpen # None /\ menuOpen \in Shown')
      BY <1>5, <2>2 DEF RenderHydration
    <2>. QED
      BY <2>1, <2>2
  <1>6. CASE CanvasNext
    <2>1. \/ UNCHANGED menuVars \/ CloseMenu \/ Delete \/ RenderHydration
          \/ \E k \in Board : Kebab(k)
      BY <1>6 DEF CanvasNext, ReadAnswered, ReadyTimeout, WriteDue, WriteLands, Rename, Dismiss, Settled,
         Go, Jump, Exit, GripDown, GripUp, Focus
    <2>. QED
      BY <1>1, <1>2, <1>3, <1>4, <1>5, <2>1
  <1>. QED
    BY <1>1, <1>6, StepOfParts DEF canvasVars

LEMMA EditInvariant == PageSpec => []EditInv
  <1>1. PageInit => EditInv
    BY EditInitial DEF PageInit
  <1>2. EditInv /\ [PageNext]_pageVars => EditInv'
    BY KeptStep, MenuStep DEF EditInv
  <1>. QED
    BY <1>1, <1>2, PTL DEF PageSpec

\* Hiding more in a section takes its artboards off the canvas.
LEMMA ShownAfter ==
    ASSUME \A t \in Section : SameOrHidden(sections[t], sections'[t]), MenuOK
    PROVE  /\ Shown' \subseteq Shown
           /\ Shown \ Shown' \subseteq {menuOpen}
           /\ Shown' # Shown => clicks = 1
  <1> DEFINE Now(t)  == Hidden(sections[t])
             Then(t) == Hidden(sections'[t])
  <1>1. Shown = UNION {BoardsOf(t) \ Now(t) : t \in Section}
    BY DEF Shown
  <1>2. Shown' = UNION {BoardsOf(t) \ Then(t) : t \in Section}
    BY DEF Shown, Hidden
  <1>3. \A t \in Section : \/ Then(t) = Now(t)
                           \/ menuOpen \in confirming /\ Then(t) = Now(t) \cup {menuOpen}
    BY DEF SameOrHidden
  <1>4. menuOpen \in confirming => clicks = 1
    BY DEF MenuOK
  <1> HIDE DEF Now, Then
  <1>5. Shown' \subseteq Shown /\ Shown \ Shown' \subseteq {menuOpen}
    BY <1>1, <1>2, <1>3
  <1>6. CASE menuOpen \notin confirming
    BY <1>1, <1>2, <1>3, <1>6
  <1>. QED
    BY <1>4, <1>5, <1>6

\* Once the file is rendered, an artboard disappears only by the second click
\* on its Delete since the menu was opened, and none comes back
\* (patchSection, the artboard's menu and its Delete).
THEOREM ArtboardsKeptCorrect == PageSpec => ArtboardsKept
  <1> DEFINE Kept == /\ Shown' \subseteq Shown
                     /\ Shown \ Shown' \subseteq {menuOpen}
                     /\ Shown' # Shown => clicks = 1
  <1>1. ASSUME EditInv, [PageNext]_pageVars
        PROVE  [hydrating = {} /\ sections' # sections => Kept]_canvasVars
    <2>1. CASE UNCHANGED canvasVars
      BY <2>1
    <2>2. CASE CanvasNext
      <3> SUFFICES ASSUME hydrating = {}, sections' # sections PROVE Kept
        OBVIOUS
      <3>1. Edited(sections, sections')
        BY <2>2, SectionsStep DEF RenderHydration
      <3>2. \A t \in Section : SameOrHidden(sections[t], sections'[t])
        BY <1>1, <3>1, EditedEffect DEF EditInv, KeptOK
      <3>. QED
        BY <1>1, <3>2, ShownAfter DEF EditInv
    <2>. QED
      BY <1>1, <2>1, <2>2, StepOfParts
  <1>. QED
    BY <1>1, EditInvariant, PTL DEF PageSpec, ArtboardsKept

----------------------------------------------------------------------------
(* Canvas: filters, and the orders they make                               *)

\* Induction, over a set: the prover's own rule takes an operator.
LEMMA InductionOverSet ==
    ASSUME NEW T, 0 \in T, \A n \in Nat : n \in T => n + 1 \in T
    PROVE  Nat \subseteq T
  <1> SUFFICES ASSUME Nat \ T # {} PROVE FALSE
    OBVIOUS
  <1>1. PICK n \in Nat \ T : \A m \in Nat \ T : n <= m
    BY LeastNat
  <1>2. n # 0
    OBVIOUS
  <1>3. n - 1 \in Nat /\ n - 1 \in T
    BY <1>1, <1>2
  <1>. QED
    BY <1>1, <1>3

\* The recursive function of filter.
Chosen(q, T, m, of) ==
    of = [n \in 0..m |->
            IF n = 0 THEN <<>> ELSE IF q[n] \in T THEN Append(of[n - 1], q[n]) ELSE of[n - 1]]

LEMMA ChosenExists ==
    ASSUME NEW q, NEW T
    PROVE  \A m \in Nat : \E of : Chosen(q, T, m, of)
  <1> DEFINE M == {m \in Nat : \E of : Chosen(q, T, m, of)}
  <1>1. 0 \in M
    <2>1. Chosen(q, T, 0, [n \in 0..0 |-> <<>>])
      BY DEF Chosen
    <2>. QED
      BY <2>1
  <1>2. ASSUME NEW m \in Nat, m \in M PROVE m + 1 \in M
    <2>1. PICK f : Chosen(q, T, m, f)
      BY <1>2
    <2>2. f = [n \in 0..m |->
                IF n = 0 THEN <<>> ELSE IF q[n] \in T THEN Append(f[n - 1], q[n]) ELSE f[n - 1]]
      BY <2>1, Zenon DEF Chosen
    <2>3. f[0] = <<>>
      BY <2>2
    <2>4. ASSUME NEW n \in 1..m
          PROVE  f[n] = IF q[n] \in T THEN Append(f[n - 1], q[n]) ELSE f[n - 1]
      <3>1. n \in 0..m /\ n # 0
        OBVIOUS
      <3>. QED
        BY <2>2, <3>1, Zenon
    <2> DEFINE last == IF q[m + 1] \in T THEN Append(f[m], q[m + 1]) ELSE f[m]
               g == [n \in 0..(m + 1) |-> IF n = m + 1 THEN last ELSE f[n]]
    <2>5. g[0] = <<>> /\ g[m + 1] = last /\ \A n \in 0..m : g[n] = f[n]
      BY <2>3
    <2>6. DOMAIN g = 0..(m + 1) /\ g = [n \in 0..(m + 1) |-> g[n]]
      OBVIOUS
    <2> HIDE DEF g
    <2>7. \A n \in 1..(m + 1) : g[n] = IF q[n] \in T THEN Append(g[n - 1], q[n]) ELSE g[n - 1]
      BY <2>4, <2>5
    <2>8. \A n \in 0..(m + 1) : g[n] =
            IF n = 0 THEN <<>> ELSE IF q[n] \in T THEN Append(g[n - 1], q[n]) ELSE g[n - 1]
      BY <2>5, <2>7
    <2>9. Chosen(q, T, m + 1, g)
      BY <2>6, <2>8 DEF Chosen
    <2>. QED
      BY <2>9
  <1>3. Nat \subseteq M
    BY <1>1, <1>2, InductionOverSet
  <1>. QED
    BY <1>3

LEMMA OnlySteps ==
    ASSUME NEW q, Len(q) \in Nat, NEW T
    PROVE  \E of : /\ Only(q, T) = of[Len(q)] /\ of[0] = <<>>
                   /\ \A n \in 1..Len(q) :
                         of[n] = IF q[n] \in T THEN Append(of[n - 1], q[n]) ELSE of[n - 1]
  <1> DEFINE f == CHOOSE of : of = [n \in 0..Len(q) |->
                    IF n = 0 THEN <<>> ELSE IF q[n] \in T THEN Append(of[n - 1], q[n]) ELSE of[n - 1]]
  <1>1. Only(q, T) = f[Len(q)]
    BY DEF Only
  <1>2. \E of : of = [n \in 0..Len(q) |->
              IF n = 0 THEN <<>> ELSE IF q[n] \in T THEN Append(of[n - 1], q[n]) ELSE of[n - 1]]
    <2>1. \E of : Chosen(q, T, Len(q), of)
      BY ChosenExists
    <2>. QED
      BY <2>1, Zenon DEF Chosen
  <1>3. f = [n \in 0..Len(q) |->
              IF n = 0 THEN <<>> ELSE IF q[n] \in T THEN Append(f[n - 1], q[n]) ELSE f[n - 1]]
    BY <1>2, Zenon
  <1> HIDE DEF f
  <1>4. f[0] = <<>>
    BY <1>3
  <1>5. ASSUME NEW n \in 1..Len(q)
        PROVE  f[n] = IF q[n] \in T THEN Append(f[n - 1], q[n]) ELSE f[n - 1]
    <2>1. n \in 0..Len(q) /\ n # 0
      OBVIOUS
    <2>. QED
      BY <1>3, <2>1, Zenon
  <1>. QED
    BY <1>1, <1>4, <1>5

LEMMA ToSetOfAppend ==
    ASSUME NEW S, NEW q \in Seq(S), NEW e \in S
    PROVE  /\ Append(q, e) \in Seq(S)
           /\ ToSet(Append(q, e)) = ToSet(q) \cup {e}
           /\ IsInjective(q) /\ e \notin ToSet(q) => IsInjective(Append(q, e))
  <1>1. /\ Append(q, e) \in Seq(S) /\ DOMAIN Append(q, e) = DOMAIN q \cup {Len(q) + 1}
        /\ Append(q, e)[Len(q) + 1] = e /\ \A i \in DOMAIN q : Append(q, e)[i] = q[i]
    OBVIOUS
  <1>2. ToSet(Append(q, e)) = ToSet(q) \cup {e}
    BY <1>1 DEF ToSet
  <1>3. ASSUME IsInjective(q), e \notin ToSet(q) PROVE IsInjective(Append(q, e))
    BY <1>3 DEF ToSet, IsInjective
  <1>. QED
    BY <1>1, <1>2, <1>3

LEMMA ToSetOfConcat ==
    ASSUME NEW S, NEW p \in Seq(S), NEW q \in Seq(S)
    PROVE  /\ p \o q \in Seq(S)
           /\ ToSet(p \o q) = ToSet(p) \cup ToSet(q)
           /\ IsInjective(p) /\ IsInjective(q) /\ ToSet(p) \cap ToSet(q) = {} => IsInjective(p \o q)
  <1> DEFINE r == p \o q
  <1>1. r \in Seq(S) /\ DOMAIN r = 1..(Len(p) + Len(q))
    OBVIOUS
  <1>2. /\ \A i \in DOMAIN p : i \in DOMAIN r /\ r[i] = p[i]
        /\ \A i \in DOMAIN q : i + Len(p) \in DOMAIN r /\ r[i + Len(p)] = q[i]
    OBVIOUS
  <1>3. \A i \in DOMAIN r : i \in DOMAIN p \/ (i - Len(p) \in DOMAIN q /\ r[i] = q[i - Len(p)])
    OBVIOUS
  <1> HIDE DEF r
  <1>4. ToSet(r) = ToSet(p) \cup ToSet(q)
    <2>1. \A x \in ToSet(r) : x \in ToSet(p) \cup ToSet(q)
      BY <1>2, <1>3 DEF ToSet
    <2>2. \A x \in ToSet(p) \cup ToSet(q) : x \in ToSet(r)
      BY <1>2 DEF ToSet
    <2>. QED
      BY <2>1, <2>2
  <1>5. ASSUME IsInjective(p), IsInjective(q), ToSet(p) \cap ToSet(q) = {} PROVE IsInjective(r)
    <2>1. \A i \in DOMAIN r : i \in DOMAIN p => r[i] = p[i] /\ r[i] \in ToSet(p)
      BY <1>2 DEF ToSet
    <2>2. \A i \in DOMAIN r : i \notin DOMAIN p =>
            /\ i \in Int /\ i - Len(p) \in DOMAIN q
            /\ r[i] = q[i - Len(p)] /\ r[i] \in ToSet(q)
      BY <1>1, <1>3 DEF ToSet
    <2>3. \A i, j \in DOMAIN p : p[i] = p[j] => i = j
      BY <1>5 DEF IsInjective
    <2>4. \A i, j \in DOMAIN q : q[i] = q[j] => i = j
      BY <1>5 DEF IsInjective
    <2>5. ASSUME NEW i \in DOMAIN r, NEW j \in DOMAIN r, r[i] = r[j] PROVE i = j
      <3>1. CASE i \in DOMAIN p /\ j \in DOMAIN p
        BY <2>1, <2>3, <2>5, <3>1
      <3>2. CASE i \notin DOMAIN p /\ j \notin DOMAIN p
        <4>1. i - Len(p) = j - Len(p)
          BY <2>2, <2>4, <2>5, <3>2
        <4>. QED
          BY <2>2, <3>2, <4>1
      <3>3. CASE (i \in DOMAIN p) # (j \in DOMAIN p)
        BY <1>5, <2>1, <2>2, <2>5, <3>3
      <3>. QED
        BY <3>1, <3>2, <3>3
    <2>. QED
      BY <2>5 DEF IsInjective
  <1>. QED
    BY <1>1, <1>4, <1>5 DEF r

LEMMA OnlyFilters ==
    ASSUME NEW S, NEW q \in Seq(S), NEW T
    PROVE  /\ Only(q, T) \in Seq(S)
           /\ ToSet(Only(q, T)) = ToSet(q) \cap T
           /\ IsInjective(q) => IsInjective(Only(q, T))
           /\ \A j \in DOMAIN q :
                 (\A m \in DOMAIN q \ {j} : q[m] \in T) => Len(Only(q, T)) >= Len(q) - 1
  <1>1. Len(q) \in Nat /\ DOMAIN q = 1..Len(q) /\ \A n \in DOMAIN q : q[n] \in S
    OBVIOUS
  <1>2. PICK of : /\ Only(q, T) = of[Len(q)] /\ of[0] = <<>>
                  /\ \A n \in 1..Len(q) :
                        of[n] = IF q[n] \in T THEN Append(of[n - 1], q[n]) ELSE of[n - 1]
    BY <1>1, OnlySteps
  <1> DEFINE Holds(r, n) ==
               /\ r \in Seq(S)
               /\ ToSet(r) = {q[m] : m \in 1..n} \cap T
               /\ IsInjective(q) => IsInjective(r)
               /\ \A j \in DOMAIN q : (\A m \in 1..n \ {j} : q[m] \in T) =>
                                          Len(r) >= IF j <= n THEN n - 1 ELSE n
             N == {n \in Nat : n <= Len(q) => Holds(of[n], n)}
  <1>3. 0 \in N
    <2>1. <<>> \in Seq(S) /\ ToSet(<<>>) = {} /\ IsInjective(<<>>) /\ Len(<<>>) = 0
      BY DEF ToSet, IsInjective
    <2>2. Holds(<<>>, 0)
      BY <1>1, <2>1
    <2>. QED
      BY <1>2, <2>2
  <1>4. ASSUME NEW n \in Nat, n \in N PROVE n + 1 \in N
    <2> SUFFICES ASSUME n + 1 <= Len(q) PROVE Holds(of[n + 1], n + 1)
      OBVIOUS
    <2> DEFINE r == of[n]
               e == q[n + 1]
               t == of[n + 1]
    <2>1. Holds(r, n) /\ n + 1 \in DOMAIN q /\ e \in S
      BY <1>1, <1>4
    <2>2. t = IF e \in T THEN Append(r, e) ELSE r
      <3>1. n + 1 \in 1..Len(q) /\ (n + 1) - 1 = n
        BY <1>1
      <3>. QED
        BY <1>2, <3>1
    <2>3. {q[m] : m \in 1..(n + 1)} = {q[m] : m \in 1..n} \cup {e}
      <3>1. 1..(n + 1) = 1..n \cup {n + 1}
        OBVIOUS
      <3>. QED
        BY <3>1
    <2> HIDE DEF r, t
    <2>4. t \in Seq(S)
      BY <2>1, <2>2
    <2>5. ToSet(t) = {q[m] : m \in 1..(n + 1)} \cap T
      <3>1. CASE e \in T
        <4>1. ToSet(t) = ToSet(r) \cup {e}
          BY <2>1, <2>2, <3>1, ToSetOfAppend
        <4>. QED
          BY <2>1, <2>3, <3>1, <4>1
      <3>2. CASE e \notin T
        BY <2>1, <2>2, <2>3, <3>2
      <3>. QED
        BY <3>1, <3>2
    <2>6. ASSUME IsInjective(q) PROVE IsInjective(t)
      <3>1. e \notin {q[m] : m \in 1..n}
        BY <1>1, <2>1, <2>6 DEF IsInjective
      <3>2. e \notin ToSet(r) /\ IsInjective(r)
        BY <2>1, <2>6, <3>1
      <3>. QED
        BY <2>1, <2>2, <3>2, ToSetOfAppend
    <2>7. ASSUME NEW j \in DOMAIN q, \A m \in 1..(n + 1) \ {j} : q[m] \in T
          PROVE  Len(t) >= IF j <= n + 1 THEN (n + 1) - 1 ELSE n + 1
      <3>1. Len(r) >= IF j <= n THEN n - 1 ELSE n
        BY <1>1, <2>1, <2>7
      <3>2. Len(r) \in Nat /\ Len(Append(r, e)) = Len(r) + 1
        BY <2>1
      <3>3. CASE j = n + 1
        BY <1>1, <2>2, <3>1, <3>2, <3>3
      <3>4. CASE j # n + 1
        <4>1. e \in T
          BY <2>7, <3>4
        <4>. QED
          BY <1>1, <2>2, <3>1, <3>2, <3>4, <4>1
      <3>. QED
        BY <3>3, <3>4
    <2>. QED
      BY <2>4, <2>5, <2>6, <2>7 DEF t
  <1>5. Nat \subseteq N
    <2> HIDE DEF N
    <2>. QED
      BY <1>3, <1>4, InductionOverSet
  <1>6. Holds(Only(q, T), Len(q))
    <2>1. Len(q) \in N
      BY <1>1, <1>5
    <2> HIDE DEF Holds
    <2>. QED
      BY <1>1, <1>2, <2>1
  <1>7. \A j \in DOMAIN q : j <= Len(q)
    BY <1>1
  <1>8. ToSet(q) = {q[m] : m \in 1..Len(q)}
    BY <1>1 DEF ToSet
  <1>. QED
    BY <1>1, <1>6, <1>7, <1>8

\* An order of artboards, each there once.
Line == {q \in Seq(Board) : IsInjective(q)}

LEMMA RowsAreLines ==
    ASSUME NEW s \in Section
    PROVE  Rows[s] \in Line /\ ToSet(Rows[s]) = BoardsOf(s) /\ BoardsOf(s) \subseteq Board
  <1>1. Rows[s] \in Seq(Board)
    BY CanvasAssumption DEF Section
  <1>2. IsInjective(Rows[s])
    BY CanvasAssumption DEF IsInjective
  <1>. QED
    BY <1>1, <1>2 DEF Line, BoardsOf, Board

\* The artboards of a section are shown each once, in whatever order is kept.
LEMMA ArrangedFits ==
    ASSUME NEW s \in Section, NEW p \in Patched, IsInjective(p.order)
    PROVE  Arranged(s, p) \in Line /\ ToSet(Arranged(s, p)) = BoardsOf(s) \ Hidden(p)
  <1> DEFINE src  == Only(Rows[s], BoardsOf(s) \ Hidden(p))
             kept == Only(p.order, ToSet(src))
             rest == Only(src, ToSet(src) \ ToSet(kept))
  <1>1. Arranged(s, p) = kept \o rest
    BY DEF Arranged
  <1>2. src \in Line /\ ToSet(src) = BoardsOf(s) \ Hidden(p)
    BY RowsAreLines, OnlyFilters DEF Line
  <1>3. p.order \in Seq(Board \cup {Gone})
    BY DEF Patched
  <1> HIDE DEF src
  <1>4. /\ kept \in Seq(Board \cup {Gone}) /\ ToSet(kept) = ToSet(p.order) \cap ToSet(src)
        /\ IsInjective(kept)
    BY <1>3, OnlyFilters
  <1>5. rest \in Line /\ ToSet(rest) = ToSet(src) \ ToSet(kept)
    <2>1. src \in Seq(Board) /\ IsInjective(src)
      BY <1>2 DEF Line
    <2> HIDE DEF kept
    <2>2. /\ rest \in Seq(Board) /\ IsInjective(rest)
          /\ ToSet(rest) = ToSet(src) \cap (ToSet(src) \ ToSet(kept))
      BY <2>1, OnlyFilters
    <2>. QED
      BY <2>2 DEF Line
  <1> HIDE DEF kept, rest
  <1>6. ToSet(src) \subseteq Board
    BY <1>2, RowsAreLines
  <1>7. kept \in Seq(Board)
    <2>1. \A i \in DOMAIN kept : kept[i] \in Board
      BY <1>4, <1>6 DEF ToSet
    <2>. QED
      BY <1>4, <2>1
  <1>8. kept \o rest \in Line /\ ToSet(kept \o rest) = ToSet(kept) \cup ToSet(rest)
    BY <1>4, <1>5, <1>7, ToSetOfConcat DEF Line
  <1>. QED
    BY <1>1, <1>2, <1>4, <1>5, <1>8

\* A dragged artboard is put where it is let go, and the others keep their order.
LEMMA MovedToFits ==
    ASSUME NEW q \in Line, NEW k \in Board, NEW i \in DOMAIN q
    PROVE  MovedTo(q, k, i) \in Line
  <1> DEFINE rest == Only(q, ToSet(q) \ {k})
             front == SubSeq(rest, 1, i - 1)
             back == SubSeq(rest, i, Len(rest))
             one == <<k>>
  <1>1. MovedTo(q, k, i) = (front \o one) \o back
    BY DEF MovedTo, InsertAt
  <1>2. rest \in Line /\ k \notin ToSet(rest)
    BY OnlyFilters DEF Line
  <1>3. Len(rest) >= Len(q) - 1
    <2>1. PICK j \in DOMAIN q : k \in ToSet(q) => q[j] = k
      BY DEF ToSet
    <2>2. \A m \in DOMAIN q \ {j} : q[m] \in ToSet(q) \ {k}
      BY <2>1 DEF ToSet, Line, IsInjective
    <2>. QED
      BY <2>2, OnlyFilters DEF Line
  <1>4. i \in Nat /\ 1 <= i /\ i <= Len(rest) + 1 /\ Len(rest) \in Nat
    BY <1>2, <1>3 DEF Line
  <1> HIDE DEF rest
  <1>5. front \in Line /\ \A m \in DOMAIN front : m < i /\ m \in DOMAIN rest /\ front[m] = rest[m]
    <2>1. /\ front \in Seq(Board) /\ DOMAIN front = 1..(i - 1)
          /\ \A m \in 1..(i - 1) : m \in DOMAIN rest /\ front[m] = rest[m]
      BY <1>2, <1>4, SubSeqProperties DEF Line
    <2> HIDE DEF front
    <2>. QED
      BY <1>2, <1>4, <2>1 DEF Line, IsInjective
  <1>6. /\ back \in Line
        /\ \A m \in DOMAIN back : m + i - 1 \in DOMAIN rest /\ m + i - 1 >= i /\ back[m] = rest[m + i - 1]
    <2>1. /\ back \in Seq(Board) /\ DOMAIN back = 1..(Len(rest) - i + 1)
          /\ \A m \in 1..(Len(rest) - i + 1) : m + i - 1 \in DOMAIN rest /\ back[m] = rest[m + i - 1]
      BY <1>2, <1>4, SubSeqProperties DEF Line
    <2> HIDE DEF back
    <2>2. \A m \in DOMAIN back : m \in Nat /\ m + i - 1 \in DOMAIN rest /\ m + i - 1 >= i
                                  /\ back[m] = rest[m + i - 1]
      BY <1>4, <2>1
    <2>3. \A m, n \in DOMAIN rest : rest[m] = rest[n] => m = n
      BY <1>2 DEF Line, IsInjective
    <2>4. ASSUME NEW m \in DOMAIN back, NEW n \in DOMAIN back, back[m] = back[n] PROVE m = n
      <3>1. m + i - 1 = n + i - 1
        BY <2>2, <2>3, <2>4
      <3>. QED
        BY <1>4, <2>2, <3>1
    <2>5. IsInjective(back)
      BY <2>4 DEF IsInjective
    <2>. QED
      BY <2>1, <2>2, <2>5 DEF Line
  <1> HIDE DEF front, back
  <1>7. ToSet(front) \cap ToSet(back) = {} /\ k \notin ToSet(front) /\ k \notin ToSet(back)
    BY <1>2, <1>4, <1>5, <1>6 DEF ToSet, Line, IsInjective
  <1>8. one \in Line /\ ToSet(one) = {k}
    BY DEF Line, ToSet, IsInjective
  <1> HIDE DEF one
  <1>9. /\ front \o one \in Seq(Board) /\ IsInjective(front \o one)
        /\ ToSet(front \o one) = ToSet(front) \cup {k}
    <2>1. /\ front \in Seq(Board) /\ IsInjective(front) /\ one \in Seq(Board) /\ IsInjective(one)
          /\ ToSet(front) \cap ToSet(one) = {}
      BY <1>5, <1>7, <1>8 DEF Line
    <2>. QED
      BY <1>8, <2>1, ToSetOfConcat
  <1>10. (front \o one) \o back \in Line
    <2>1. back \in Seq(Board) /\ IsInjective(back) /\ ToSet(front \o one) \cap ToSet(back) = {}
      BY <1>6, <1>7, <1>9 DEF Line
    <2>. QED
      BY <1>9, <2>1, ToSetOfConcat DEF Line
  <1>. QED
    BY <1>1, <1>10

----------------------------------------------------------------------------
(* Canvas: the types of its variables                                      *)

\* What is kept of the sections, no artboard twice in an order.
Fits(x) == x \in [Section -> Patched] /\ \A s \in Section : IsInjective(x[s].order)

StatesFit ==
    /\ file \in Files \cup [Section -> Patched]
    /\ file # None => Fits(file)
    /\ Fits(sections)
    /\ \A h \in hydrating : Fits(h)
    /\ \A w \in flying : w \in [n: Nat, sections: [Section -> Patched]] /\ Fits(w.sections)

DragsOfLines == [id: Board, order: Line]
Drops == [drag: DragsOfLines, live: Line]
DragFits ==
    /\ drag \in DragsOfLines \cup {None}
    /\ settling \in Seq(Drops)

FlagsFit ==
    /\ ready \in BOOLEAN /\ didRead \in BOOLEAN /\ skipNextWrite \in BOOLEAN
    /\ due \in BOOLEAN /\ hydrated \in BOOLEAN /\ early \in BOOLEAN
RestFits == FlagsFit /\ focus \in Board \cup {None}

\* Each write is paid by an edit: so is the one that is due, the one of each drop
\* not committed yet, and the one that the render of what was read will make due
\* because the flag that would have skipped it is spent.
One(b) == IF b THEN 1 ELSE 0
WritesPaid ==
    /\ edits \in 0..MaxEdits
    /\ issued + One(due) + Len(settling) + One(hydrating # {} /\ ~skipNextWrite) <= edits

CanvasTypes == StatesFit /\ DragFits /\ RestFits /\ WritesPaid

LEMMA PatchesFit ==
    ASSUME NEW p \in Patched
    PROVE  /\ \A v \in Names : Named(p, v) \in Patched /\ Named(p, v).order = p.order
           /\ \A v \in Seq(Board \cup {Gone}) : Ordered(p, v) \in Patched /\ Ordered(p, v).order = v
           /\ \A k \in Board : Without(p, k) \in Patched /\ Without(p, k).order = p.order
  <1> DEFINE o == p.order
             h == p.hidden
             k == p.key
             n == p.name
  <1>1. /\ o \in Seq(Board \cup {Gone}) /\ h \in SUBSET (Board \cup {Gone})
        /\ k \in {None, "this", "old"} /\ n \in Names \cup {None}
        /\ p = [order |-> o, hidden |-> h, key |-> k, name |-> n]
    BY DEF Patched
  <1> HIDE DEF o, h, k, n
  <1>2. ASSUME NEW v \in Names
        PROVE  Named(p, v) \in Patched /\ Named(p, v).order = o
    <2>1. Named(p, v) = [order |-> o, hidden |-> h, key |-> k, name |-> v]
      BY <1>1 DEF Named
    <2>. QED
      BY <1>1, <2>1 DEF Patched
  <1>3. ASSUME NEW v \in Seq(Board \cup {Gone})
        PROVE  Ordered(p, v) \in Patched /\ Ordered(p, v).order = v
    <2>1. Ordered(p, v) = [order |-> v, hidden |-> h, key |-> k, name |-> n]
      BY <1>1 DEF Ordered
    <2>. QED
      BY <1>1, <2>1 DEF Patched
  <1>4. ASSUME NEW b \in Board
        PROVE  Without(p, b) \in Patched /\ Without(p, b).order = o
    <2> DEFINE g == Hidden(p) \cup {b}
    <2>1. g \in SUBSET (Board \cup {Gone})
      BY <1>1 DEF Hidden, h
    <2>2. Without(p, b) = [p EXCEPT !.hidden = g, !.key = "this"]
      BY DEF Without
    <2> HIDE DEF g
    <2>3. Without(p, b) = [order |-> o, hidden |-> g, key |-> "this", name |-> n]
      BY <1>1, <2>2
    <2>. QED
      BY <1>1, <2>1, <2>3 DEF Patched
  <1>. QED
    BY <1>2, <1>3, <1>4 DEF o

LEMMA PutFits ==
    ASSUME NEW x, Fits(x), NEW s \in Section, NEW p \in Patched, IsInjective(p.order)
    PROVE  Fits(Put(x, s, p))
  <1> DEFINE y == Put(x, s, p)
  <1>1. /\ y \in [Section -> Patched]
        /\ \A t \in Section : y[t] = IF t = s THEN p ELSE x[t]
    BY DEF Put, Fits
  <1> HIDE DEF y
  <1>2. Fits(y)
    BY <1>1 DEF Fits
  <1>. QED
    BY <1>2 DEF y

LEMMA SectionOfBoard ==
    ASSUME NEW k \in Board
    PROVE  SectionOf(k) \in Section /\ k \in BoardsOf(SectionOf(k))
  <1>1. \E s \in Section : k \in BoardsOf(s)
    BY DEF Board
  <1>. QED
    BY <1>1 DEF SectionOf

\* The edits keep what is kept of the sections well formed.
LEMMA EditsFit ==
    ASSUME NEW x, Fits(x)
    PROVE  /\ \A s \in Section, v \in Names : Fits(Renamed(x, s, v))
           /\ \A k \in Board : Fits(Deleted(x, k))
           /\ \A d \in Drops : Fits(Reordered(x, d))
  <1>1. \A s \in Section : x[s] \in Patched /\ IsInjective(x[s].order)
    BY DEF Fits
  <1>2. ASSUME NEW s \in Section, NEW v \in Names PROVE Fits(Renamed(x, s, v))
    <2>1. Renamed(x, s, v) = Put(x, s, Named(x[s], v))
      BY Zenon DEF Renamed, Put, Named
    <2>2. Named(x[s], v) \in Patched /\ Named(x[s], v).order = x[s].order
      BY <1>1, PatchesFit
    <2>. QED
      BY <1>1, <2>1, <2>2, PutFits
  <1>3. ASSUME NEW k \in Board PROVE Fits(Deleted(x, k))
    <2> DEFINE s == SectionOf(k)
    <2>1. Deleted(x, k) = Put(x, s, Without(x[s], k))
      BY Zenon DEF Deleted, Put
    <2>2. s \in Section
      BY SectionOfBoard
    <2> HIDE DEF s
    <2>3. Without(x[s], k) \in Patched /\ Without(x[s], k).order = x[s].order
      BY <1>1, <2>2, PatchesFit
    <2>. QED
      BY <1>1, <2>1, <2>2, <2>3, PutFits
  <1>4. ASSUME NEW d \in Drops PROVE Fits(Reordered(x, d))
    <2> DEFINE s == SectionOf(d.drag.id)
    <2>1. Reordered(x, d) = Put(x, s, Ordered(x[s], d.live))
      BY Zenon DEF Reordered, Put, Ordered
    <2>2. s \in Section
      BY SectionOfBoard DEF Drops, DragsOfLines
    <2>3. d.live \in Seq(Board \cup {Gone}) /\ IsInjective(d.live)
      BY DEF Drops, Line
    <2> HIDE DEF s
    <2>4. Ordered(x[s], d.live) \in Patched /\ Ordered(x[s], d.live).order = d.live
      BY <1>1, <2>2, <2>3, PatchesFit
    <2>. QED
      BY <2>1, <2>2, <2>3, <2>4, PutFits
  <1>. QED
    BY <1>2, <1>3, <1>4

\* Every artboard on show is in the order of its own section, and nothing else is.
LEMMA OrderFits ==
    ASSUME Fits(sections), NEW s \in Section
    PROVE  /\ Order(s) \in Line /\ ToSet(Order(s)) = BoardsOf(s) \ Hidden(sections[s])
           /\ ToSet(Order(s)) \subseteq Shown /\ ToSet(Order(s)) \subseteq Board
  <1>1. sections[s] \in Patched /\ IsInjective(sections[s].order)
    BY DEF Fits
  <1>2. Order(s) \in Line /\ ToSet(Order(s)) = BoardsOf(s) \ Hidden(sections[s])
    BY <1>1, ArrangedFits DEF Order
  <1>3. ToSet(Order(s)) \subseteq Shown
    BY <1>2 DEF Shown
  <1>4. ToSet(Order(s)) \subseteq Board
    BY <1>2, RowsAreLines
  <1>. QED
    BY <1>2, <1>3, <1>4

LEMMA OwnSection ==
    ASSUME NEW s \in Section, NEW k \in BoardsOf(s)
    PROVE  SectionOf(k) = s
  <1>1. k \in Board
    BY DEF Board
  <1>2. SectionOf(k) \in Section /\ k \in BoardsOf(SectionOf(k))
    BY <1>1, SectionOfBoard
  <1>. QED
    BY <1>2, CanvasAssumption DEF BoardsOf, ToSet

LEMMA ShownIsInOrder ==
    ASSUME Fits(sections), NEW k \in Shown
    PROVE  /\ SectionOf(k) \in Section /\ k \in ToSet(Order(SectionOf(k))) /\ k \in Board
  <1>1. PICK s \in Section : k \in BoardsOf(s) \ Hidden(sections[s])
    BY DEF Shown
  <1>2. SectionOf(k) = s
    BY <1>1, OwnSection
  <1>. QED
    BY <1>1, <1>2, OrderFits

\* Counting round a circle of n places, forwards and backwards.
LEMMA Around ==
    ASSUME NEW n \in Nat, NEW a \in 0..(n - 1), NEW b \in 0..n
    PROVE  /\ (a + b) % n = IF a + b < n THEN a + b ELSE a + b - n
           /\ (a - b) % n = IF a - b >= 0 THEN a - b ELSE a - b + n
  OBVIOUS

\* What an arrow does in terms of places, without the remainder.
Step(a, d, n) == IF a + d > n THEN a + d - n ELSE IF a + d < 1 THEN a + d + n ELSE a + d

LEMMA StepIsRemainder ==
    ASSUME NEW n \in Nat, NEW a \in 1..n, NEW i \in 0..n, NEW d \in {-1, 1}
    PROVE  /\ ((a - 1 + d * i) % n) + 1 = Step(a, d * i, n)
           /\ ((a - 1 + d) % n) + 1 = Step(a, d, n)
           /\ Step(a, d * i, n) \in 1..n /\ Step(a, d, n) \in 1..n
  <1>1. CASE d = 1
    <2>1. d * i = i /\ a - 1 \in 0..(n - 1) /\ 1 \in 0..n
      BY <1>1
    <2>2. /\ (a - 1 + i) % n = IF a - 1 + i < n THEN a - 1 + i ELSE a - 1 + i - n
          /\ (a - 1 + 1) % n = IF a - 1 + 1 < n THEN a - 1 + 1 ELSE a - 1 + 1 - n
      BY <2>1, Around
    <2>. QED
      BY <1>1, <2>1, <2>2 DEF Step
  <1>2. CASE d = -1
    <2>1. d * i = -i /\ a - 1 \in 0..(n - 1) /\ 1 \in 0..n
      BY <1>2
    <2>2. /\ (a - 1 - i) % n = IF a - 1 - i >= 0 THEN a - 1 - i ELSE a - 1 - i + n
          /\ (a - 1 - 1) % n = IF a - 1 - 1 >= 0 THEN a - 1 - 1 ELSE a - 1 - 1 + n
      BY <2>1, Around
    <2>3. a - 1 + d * i = a - 1 - i /\ a - 1 + d = a - 1 - 1
      BY <1>2, <2>1
    <2>. QED
      BY <1>2, <2>1, <2>2, <2>3 DEF Step
  <1>. QED
    BY <1>1, <1>2

\* Where the arrows lead.
Nth(k, d, i) == Step(SectionOf(k), d * i, Len(Rows))
FilledAt(k, d) == {i \in 1..(Len(Rows) - 1) : Order(Nth(k, d, i)) # <<>>}

LEMMA ArrowAcross ==
    ASSUME Fits(sections), NEW k \in Shown, NEW d \in {-1, 1}
    PROVE  \A i \in DOMAIN Order(SectionOf(k)) : Order(SectionOf(k))[i] = k =>
              Across(k, d) = Order(SectionOf(k))[Step(i, d, Len(Order(SectionOf(k))))]
  <1> DEFINE peers == Order(SectionOf(k))
             idx   == CHOOSE i \in DOMAIN peers : peers[i] = k
  <1> SUFFICES ASSUME NEW i \in DOMAIN peers, peers[i] = k
               PROVE  Across(k, d) = peers[Step(i, d, Len(peers))]
    OBVIOUS
  <1>1. Across(k, d) = peers[((idx - 1 + d) % Len(peers)) + 1]
    BY DEF Across
  <1>2. peers \in Line
    BY ShownIsInOrder, OrderFits
  <1>3. idx = i
    BY <1>2 DEF Line, IsInjective
  <1> HIDE DEF idx, peers
  <1>4. Len(peers) \in Nat /\ i \in 1..Len(peers)
    BY <1>2 DEF Line
  <1>5. ((i - 1 + d) % Len(peers)) + 1 = Step(i, d, Len(peers))
    <2>1. 0 \in 0..Len(peers)
      BY <1>4
    <2>. QED
      BY <1>4, <2>1, StepIsRemainder
  <1>. QED
    BY <1>1, <1>3, <1>5

LEMMA ArrowBeside ==
    ASSUME Fits(sections), NEW k \in Shown, NEW d \in {-1, 1}
    PROVE  /\ FilledAt(k, d) = {} => Beside(k, d) = k
           /\ \A i \in FilledAt(k, d) : (\A j \in FilledAt(k, d) : i <= j) =>
                 Beside(k, d) = Order(Nth(k, d, i))[1]
           /\ \A i \in 0..Len(Rows) : Nth(k, d, i) \in Section
  <1> DEFINE nth(i) == ((SectionOf(k) - 1 + d * i) % Len(Rows)) + 1
             steps  == {i \in 1..(Len(Rows) - 1) : Order(nth(i)) # <<>>}
             least  == CHOOSE i \in steps : \A j \in steps : i <= j
  <1>1. Beside(k, d) = IF steps = {} THEN k ELSE Order(nth(least))[1]
    BY DEF Beside, FirstOf
  <1>2. Len(Rows) \in Nat /\ SectionOf(k) \in 1..Len(Rows) /\ Section = 1..Len(Rows)
    BY ShownIsInOrder, CanvasAssumption DEF Section
  <1>3. \A i \in 0..Len(Rows) : nth(i) = Nth(k, d, i) /\ Nth(k, d, i) \in Section
    BY <1>2, StepIsRemainder DEF Nth
  <1>4. steps = FilledAt(k, d)
    <2>1. \A i \in 1..(Len(Rows) - 1) : i \in 0..Len(Rows)
      BY <1>2
    <2> HIDE DEF nth
    <2>2. \A i \in 1..(Len(Rows) - 1) : nth(i) = Nth(k, d, i)
      BY <1>3, <2>1
    <2>. QED
      BY <2>2, Zenon DEF FilledAt
  <1>5. ASSUME NEW i \in FilledAt(k, d), \A j \in FilledAt(k, d) : i <= j
        PROVE  least = i /\ nth(i) = Nth(k, d, i)
    <2>1. \A j \in FilledAt(k, d) : j \in Nat
      BY <1>2 DEF FilledAt
    <2>2. least = i
      BY <1>4, <1>5, <2>1
    <2>. QED
      BY <1>2, <1>3, <2>2 DEF FilledAt
  <1> HIDE DEF least, steps, nth
  <1>. QED
    BY <1>1, <1>3, <1>4, <1>5

\* No arrow leads to a deleted artboard.
LEMMA ArrowsAreShown ==
    ASSUME Fits(sections), NEW k \in Shown, NEW d \in {-1, 1}
    PROVE  Arrows(k, d) \subseteq Shown
  <1>1. Across(k, d) \in Shown
    <2> DEFINE peers == Order(SectionOf(k))
    <2>1. peers \in Line /\ ToSet(peers) \subseteq Shown /\ k \in ToSet(peers)
      BY ShownIsInOrder, OrderFits
    <2>2. PICK i \in DOMAIN peers : peers[i] = k
      BY <2>1 DEF ToSet
    <2>3. Across(k, d) = peers[Step(i, d, Len(peers))]
      BY <2>2, ArrowAcross
    <2> HIDE DEF peers
    <2>4. Step(i, d, Len(peers)) \in DOMAIN peers
      BY <2>1, <2>2 DEF Line, Step
    <2>. QED
      BY <2>1, <2>3, <2>4 DEF ToSet
  <1>2. Beside(k, d) \in Shown
    <2>1. CASE FilledAt(k, d) = {}
      BY <2>1, ArrowBeside
    <2>2. CASE FilledAt(k, d) # {}
      <3>1. PICK i \in FilledAt(k, d) : \A j \in FilledAt(k, d) : i <= j
        <4>1. FilledAt(k, d) \subseteq Nat
          BY CanvasAssumption DEF FilledAt
        <4>. QED
          BY <2>2, <4>1, LeastNat
      <3>2. Beside(k, d) = Order(Nth(k, d, i))[1]
        BY <3>1, ArrowBeside
      <3>3. Nth(k, d, i) \in Section /\ Order(Nth(k, d, i)) # <<>>
        BY ArrowBeside, CanvasAssumption DEF FilledAt
      <3>4. Order(Nth(k, d, i)) \in Line /\ ToSet(Order(Nth(k, d, i))) \subseteq Shown
        BY <3>3, OrderFits
      <3>5. 1 \in DOMAIN Order(Nth(k, d, i))
        BY <3>3, <3>4 DEF Line
      <3>. QED
        BY <3>2, <3>4, <3>5 DEF ToSet
    <2>. QED
      BY <2>1, <2>2
  <1>. QED
    BY <1>1, <1>2 DEF Arrows

LEMMA StatesFitStep ==
    ASSUME StatesFit, DragFits, MenuOK, issued \in Nat, CanvasNext
    PROVE  StatesFit'
  <1> USE DEF StatesFit
  <1>1. ASSUME NEW s \in Section, NEW name \in Names, Rename(s, name) PROVE StatesFit'
    <2>1. /\ sections' = Renamed(sections, s, name)
          /\ hydrating' = {Renamed(h, s, name) : h \in hydrating}
          /\ UNCHANGED <<file, flying>>
      BY <1>1, Zenon DEF Rename, Patch, fileVars
    <2>2. Fits(sections') /\ \A h \in hydrating' : Fits(h)
      BY <2>1, EditsFit
    <2>. QED
      BY <2>1, <2>2 DEF Fits
  <1>2. CASE Delete /\ menuOpen \in confirming
    <2>1. /\ sections' = Deleted(sections, menuOpen)
          /\ hydrating' = {Deleted(h, menuOpen) : h \in hydrating}
          /\ UNCHANGED <<file, flying>>
      BY <1>2, Zenon DEF Delete, Patch, fileVars
    <2>2. menuOpen \in Board
      BY <1>2 DEF MenuOK
    <2>3. Fits(sections') /\ \A h \in hydrating' : Fits(h)
      BY <2>1, <2>2, EditsFit
    <2>. QED
      BY <2>1, <2>3 DEF Fits
  <1>3. CASE Settled
    <2> DEFINE d == Head(settling)
    <2>1. d \in Drops
      BY <1>3 DEF Settled, DragFits
    <2>2. UNCHANGED <<file, flying>>
      BY <1>3 DEF Settled, fileVars
    <2>3. \/ UNCHANGED <<sections, hydrating>>
          \/ sections' = Reordered(sections, d) /\ UNCHANGED hydrating
          \/ hydrating' = {Reordered(h, d) : h \in hydrating} /\ UNCHANGED sections
      BY <1>3, Zenon DEF Settled, PatchLater
    <2> HIDE DEF d
    <2>4. Fits(sections') /\ \A h \in hydrating' : Fits(h)
      <3>1. Fits(Reordered(sections, d)) /\ \A h \in hydrating : Fits(Reordered(h, d))
        BY <2>1, EditsFit
      <3>. QED
        BY <2>3, <3>1
    <2>. QED
      BY <2>2, <2>4 DEF Fits
  <1>4. ASSUME NEW answer \in BOOLEAN, ReadAnswered(answer) PROVE StatesFit'
    <2>1. UNCHANGED <<sections, file, flying>>
      BY <1>4 DEF ReadAnswered, fileVars
    <2>2. UNCHANGED hydrating \/ (file # None /\ hydrating' = {file})
      BY <1>4, Zenon DEF ReadAnswered
    <2>. QED
      BY <2>1, <2>2 DEF Fits
  <1>5. CASE RenderHydration
    <2>1. UNCHANGED <<file, flying>> /\ sections' \in hydrating /\ hydrating' = {}
      BY <1>5 DEF RenderHydration, fileVars
    <2>. QED
      BY <2>1 DEF Fits
  <1>6. CASE WriteDue
    <2>1. UNCHANGED <<file, sections, hydrating>>
      BY <1>6 DEF WriteDue
    <2>2. \/ UNCHANGED flying
          \/ flying' = flying \cup {[n |-> issued + 1, sections |-> sections]}
      BY <1>6 DEF WriteDue
    <2> DEFINE w == [n |-> issued + 1, sections |-> sections]
    <2>3. w \in [n: Nat, sections: [Section -> Patched]] /\ w.sections = sections
      BY DEF Fits
    <2> HIDE DEF w
    <2>4. \A v \in flying' : v \in [n: Nat, sections: [Section -> Patched]] /\ Fits(v.sections)
      BY <2>2, <2>3 DEF w
    <2>. QED
      BY <2>1, <2>4 DEF Fits
  <1>7. ASSUME NEW w \in flying, NEW ok \in BOOLEAN, WriteLands(w, ok) PROVE StatesFit'
    <2>1. UNCHANGED <<sections, hydrating>> /\ flying' \subseteq flying
      BY <1>7 DEF WriteLands, editVars
    <2>2. file' = file \/ file' = w.sections
      BY <1>7 DEF WriteLands
    <2>3. Fits(w.sections) /\ w.sections \in [Section -> Patched]
      BY DEF Fits
    <2>4. file' \in Files \cup [Section -> Patched] /\ (file' # None => Fits(file'))
      BY <2>2, <2>3
    <2>. QED
      BY <2>1, <2>4 DEF Fits
  <1>8. CASE UNCHANGED <<file, sections, hydrating, flying>>
    BY <1>8 DEF Fits
  <1>9. CASE \/ ReadyTimeout \/ Dismiss \/ Go \/ Jump \/ Exit
             \/ Delete /\ menuOpen \notin confirming
             \/ \E k \in Board : Kebab(k) \/ GripDown(k) \/ Focus(k)
             \/ \E i \in 1..Cardinality(Board) : GripUp(i)
    <2>1. UNCHANGED <<file, sections, hydrating, flying>>
      BY <1>9, Zenon DEF ReadyTimeout, Dismiss, Go, Jump, Exit, Look, Delete, Kebab, GripDown, Focus,
         GripUp, editVars, fileVars
    <2>. QED
      BY <1>8, <2>1
  <1>. QED
    BY <1>1, <1>2, <1>3, <1>4, <1>5, <1>6, <1>7, <1>9 DEF CanvasNext

LEMMA DragFitsStep ==
    ASSUME StatesFit, DragFits, CanvasNext
    PROVE  DragFits'
  <1> USE DEF DragFits
  <1>1. ASSUME NEW k \in Board, GripDown(k) PROVE DragFits'
    <2>1. drag' = [id |-> k, order |-> Order(SectionOf(k))] /\ UNCHANGED settling
      BY <1>1 DEF GripDown
    <2>2. Order(SectionOf(k)) \in Line
      BY SectionOfBoard, OrderFits DEF StatesFit
    <2>. QED
      BY <2>1, <2>2 DEF DragsOfLines
  <1>2. ASSUME NEW i, GripUp(i) PROVE DragFits'
    <2>1. drag \in DragsOfLines /\ i \in DOMAIN drag.order
      BY <1>2 DEF GripUp
    <2>2. MovedTo(drag.order, drag.id, i) \in Line
      BY <2>1, MovedToFits DEF DragsOfLines
    <2> DEFINE d == [drag |-> drag, live |-> MovedTo(drag.order, drag.id, i)]
    <2>3. d \in Drops
      BY <2>1, <2>2 DEF Drops
    <2>4. drag' = None /\ settling' = Append(settling, d)
      BY <1>2 DEF GripUp
    <2> HIDE DEF d
    <2>. QED
      BY <2>3, <2>4
  <1>3. CASE Settled
    <2>1. drag' = drag /\ settling # <<>> /\ settling' = Tail(settling)
      BY <1>3 DEF Settled
    <2>. QED
      BY <2>1
  <1>4. CASE UNCHANGED dragVars
    BY <1>4 DEF dragVars
  <1>5. \/ UNCHANGED dragVars \/ Settled
        \/ \E k \in Board : GripDown(k)
        \/ \E i \in 1..Cardinality(Board) : GripUp(i)
    BY DEF CanvasNext, ReadAnswered, RenderHydration, ReadyTimeout, WriteDue, WriteLands, Rename, Dismiss,
       Delete, Go, Jump, Exit, Look, Kebab, Focus
  <1>. QED
    BY <1>1, <1>2, <1>3, <1>4, <1>5

LEMMA RestFitsStep ==
    ASSUME RestFits, StatesFit, CanvasNext
    PROVE  RestFits'
  <1> USE DEF RestFits, FlagsFit
  <1>1. ASSUME Effect PROVE skipNextWrite' \in BOOLEAN /\ due' \in BOOLEAN
    BY <1>1 DEF Effect
  <1>2. ASSUME NEW x, NEW y, Patch(x, y) \/ PatchLater(x, y)
        PROVE  skipNextWrite' \in BOOLEAN /\ due' \in BOOLEAN /\ early' \in BOOLEAN
    BY <1>1, <1>2 DEF Patch, PatchLater
  <1>3. ASSUME NEW s, NEW name, Rename(s, name) PROVE FlagsFit'
    BY <1>2, <1>3 DEF Rename, readVars
  <1>4. ASSUME Delete PROVE FlagsFit'
    BY <1>2, <1>4 DEF Delete, readVars, editVars
  <1>5. ASSUME Settled PROVE FlagsFit'
    BY <1>2, <1>5 DEF Settled, readVars
  <1>6. ASSUME NEW answer \in BOOLEAN, ReadAnswered(answer) PROVE FlagsFit'
    BY <1>6 DEF ReadAnswered
  <1>7. ASSUME RenderHydration PROVE FlagsFit'
    BY <1>1, <1>7 DEF RenderHydration
  <1>8. ASSUME \/ ReadyTimeout \/ WriteDue \/ Dismiss \/ Go \/ Jump \/ Exit
               \/ \E w \in flying, ok \in BOOLEAN : WriteLands(w, ok)
               \/ \E k \in Board : Kebab(k) \/ GripDown(k) \/ Focus(k)
               \/ \E i \in 1..Cardinality(Board) : GripUp(i)
        PROVE  FlagsFit'
    BY <1>8 DEF ReadyTimeout, WriteDue, Dismiss, Go, Jump, Exit, Look, WriteLands, Kebab, GripDown,
       Focus, GripUp, editVars, readVars
  <1>9. FlagsFit'
    BY <1>3, <1>4, <1>5, <1>6, <1>7, <1>8 DEF CanvasNext
  <1> HIDE DEF FlagsFit
  <1>10. focus' \in Board \cup {None}
    <2>1. CASE Go
      <3>1. PICK d \in {-1, 1} : focus' \in Arrows(focus, d)
        BY <2>1 DEF Go, Look
      <3>2. focus \in Shown
        BY <2>1 DEF Go, Overlay
      <3>3. focus' \in Shown
        BY <3>1, <3>2, ArrowsAreShown DEF StatesFit
      <3>. QED
        BY <3>3 DEF Shown, Board
    <2>2. CASE Jump
      <3>1. focus \in Shown
        BY <2>2 DEF Jump, Overlay
      <3>2. SectionOf(focus) \in Section
        BY <3>1, ShownIsInOrder DEF StatesFit
      <3>3. \/ focus' \in ToSet(Order(SectionOf(focus)))
            \/ \E s \in Section : Order(s) # <<>> /\ focus' = Order(s)[1]
        BY <2>2 DEF Jump, Look, FirstOf
      <3>4. ASSUME NEW s \in Section, Order(s) # <<>>, focus' = Order(s)[1] PROVE focus' \in Board
        <4>1. Order(s) \in Line
          BY OrderFits DEF StatesFit
        <4>. QED
          BY <3>4, <4>1 DEF Line
      <3>5. ToSet(Order(SectionOf(focus))) \subseteq Board
        BY <3>2, OrderFits DEF StatesFit
      <3>. QED
        BY <3>3, <3>4, <3>5
    <2>3. CASE Exit \/ \E k \in Board : Focus(k)
      BY <2>3 DEF Exit, Focus, Look
    <2>4. CASE UNCHANGED focus
      BY <2>4
    <2>5. \/ UNCHANGED focus \/ Go \/ Jump \/ Exit \/ \E k \in Board : Focus(k)
      BY DEF CanvasNext, ReadAnswered, RenderHydration, ReadyTimeout, WriteDue, WriteLands, Rename,
         Dismiss, Delete, Settled, Kebab, GripDown, GripUp
    <2>. QED
      BY <2>1, <2>2, <2>3, <2>4, <2>5
  <1>. QED
    BY <1>9, <1>10

LEMMA WritesPaidStep ==
    ASSUME WritesPaid, FlagsFit, DragFits, CanvasInv, CanvasNext
    PROVE  WritesPaid'
  <1> DEFINE waits == One(hydrating # {} /\ ~skipNextWrite)
             waitsNext == One(hydrating' # {} /\ ~skipNextWrite')
             n == Len(settling)
             nNext == Len(settling')
  <1>1. /\ issued \in Nat /\ n \in Nat /\ edits \in 0..MaxEdits /\ MaxEdits \in Nat
        /\ issued + One(due) + n + waits <= edits
    BY CanvasAssumption DEF WritesPaid, CanvasInv, WritesNumbered, DragFits
  <1>2. /\ waits \in 0..1 /\ One(due) \in 0..1 /\ waitsNext \in 0..1 /\ One(due') \in 0..1
    BY DEF One
  <1> SUFFICES /\ edits' \in 0..MaxEdits
               /\ issued' + One(due') + nNext + waitsNext <= edits'
    BY DEF WritesPaid, One
  <1>3. CASE UNCHANGED <<edits, issued, due, settling, hydrating, skipNextWrite>>
    BY <1>1, <1>3
  \* The effect makes at most one write due, and only if it leaves the flag alone.
  <1>4. ASSUME Effect, hydrating' = {} <=> hydrating = {}
        PROVE  One(due') + waitsNext <= One(due) + waits + 1
    <2>1. CASE ~didRead
      BY <1>2, <1>4, <2>1 DEF Effect, One
    <2>2. CASE didRead /\ skipNextWrite
      BY <1>2, <1>4, <2>2 DEF Effect, One
    <2>3. CASE didRead /\ ~skipNextWrite
      BY <1>2, <1>4, <2>3 DEF Effect, One
    <2>. QED
      BY <2>1, <2>2, <2>3
  <1>5. ASSUME NEW x, NEW y, Patch(x, y), y = {} <=> hydrating = {}, UNCHANGED <<issued, settling>>
        PROVE  /\ edits' \in 0..MaxEdits
               /\ issued' + One(due') + nNext + waitsNext <= edits'
    <2>1. edits < MaxEdits /\ edits' = edits + 1 /\ Effect /\ (hydrating' = {} <=> hydrating = {})
      BY <1>5 DEF Patch
    <2>2. One(due') + waitsNext <= One(due) + waits + 1
      BY <1>4, <2>1
    <2>3. issued' = issued /\ nNext = n
      BY <1>5
    <2> HIDE DEF waits, waitsNext, n, nNext
    <2>. QED
      BY <1>1, <1>2, <2>1, <2>2, <2>3
  <1>6. ASSUME NEW s, NEW name, Rename(s, name)
        PROVE  /\ edits' \in 0..MaxEdits
               /\ issued' + One(due') + nNext + waitsNext <= edits'
    <2>1. Patch(Renamed(sections, s, name), {Renamed(h, s, name) : h \in hydrating})
      BY <1>6, Zenon DEF Rename
    <2>2. {Renamed(h, s, name) : h \in hydrating} = {} <=> hydrating = {}
      OBVIOUS
    <2>3. UNCHANGED <<issued, settling>>
      BY <1>6 DEF Rename, fileVars, dragVars
    <2>. QED
      BY <1>5, <2>1, <2>2, <2>3
  <1>7. ASSUME Delete, menuOpen \in confirming
        PROVE  /\ edits' \in 0..MaxEdits
               /\ issued' + One(due') + nNext + waitsNext <= edits'
    <2>1. Patch(Deleted(sections, menuOpen), {Deleted(h, menuOpen) : h \in hydrating})
      BY <1>7, Zenon DEF Delete
    <2>2. {Deleted(h, menuOpen) : h \in hydrating} = {} <=> hydrating = {}
      OBVIOUS
    <2>3. UNCHANGED <<issued, settling>>
      BY <1>7 DEF Delete, fileVars, dragVars
    <2>. QED
      BY <1>5, <2>1, <2>2, <2>3
  <1>8. ASSUME NEW i, GripUp(i)
        PROVE  /\ edits' \in 0..MaxEdits
               /\ issued' + One(due') + nNext + waitsNext <= edits'
    <2>1. /\ edits < MaxEdits /\ edits' = edits + 1 /\ UNCHANGED <<due, hydrating, skipNextWrite, issued>>
          /\ \E d : settling' = Append(settling, d)
      BY <1>8 DEF GripUp, fileVars
    <2>2. nNext = n + 1
      BY <2>1 DEF DragFits
    <2>. QED
      BY <1>1, <1>2, <2>1, <2>2
  <1>9. ASSUME Settled
        PROVE  /\ edits' \in 0..MaxEdits
               /\ issued' + One(due') + nNext + waitsNext <= edits'
    <2>1. settling # <<>> /\ settling' = Tail(settling) /\ UNCHANGED <<edits, issued>>
      BY <1>9 DEF Settled, fileVars
    <2>2. nNext = n - 1
      BY <2>1 DEF DragFits
    <2>3. \/ UNCHANGED <<hydrating, skipNextWrite, due>>
          \/ Effect /\ UNCHANGED hydrating
          \/ /\ UNCHANGED <<skipNextWrite, due>>
             /\ hydrating' = {Reordered(h, Head(settling)) : h \in hydrating}
      BY <1>9, Zenon DEF Settled, PatchLater
    <2>4. hydrating' = {} <=> hydrating = {}
      BY <2>3
    <2>5. CASE Effect
      <3>1. One(due') + waitsNext <= One(due) + waits + 1
        BY <1>4, <2>4, <2>5
      <3> HIDE DEF waits, waitsNext, n, nNext
      <3>2. edits' = edits /\ issued' = issued
        BY <2>1
      <3>. QED
        BY <1>1, <1>2, <2>2, <3>1, <3>2
    <2>6. CASE UNCHANGED <<skipNextWrite, due>>
      <3>1. waitsNext = waits /\ One(due') = One(due)
        BY <2>4, <2>6 DEF One
      <3> HIDE DEF waits, waitsNext, n, nNext
      <3>. QED
        BY <1>1, <1>2, <2>1, <2>2, <3>1
    <2>. QED
      BY <2>3, <2>5, <2>6
  <1>10. ASSUME NEW answer \in BOOLEAN, ReadAnswered(answer)
         PROVE  /\ edits' \in 0..MaxEdits
                /\ issued' + One(due') + nNext + waitsNext <= edits'
    <2>1. UNCHANGED <<edits, issued, due, settling>> /\ hydrating = {}
      BY <1>10 DEF ReadAnswered, fileVars, dragVars, CanvasInv, UnreadCanvas
    <2>2. skipNextWrite' \/ hydrating' = {}
      BY <1>10, <2>1 DEF ReadAnswered
    <2>3. waitsNext = 0
      BY <2>2 DEF One
    <2>. QED
      BY <1>1, <1>2, <2>1, <2>3
  <1>11. ASSUME RenderHydration
         PROVE  /\ edits' \in 0..MaxEdits
                /\ issued' + One(due') + nNext + waitsNext <= edits'
    <2>1. /\ UNCHANGED <<edits, issued, settling>> /\ Effect /\ hydrating # {} /\ hydrating' = {}
      BY <1>11 DEF RenderHydration, fileVars, dragVars
    <2>2. waitsNext = 0
      BY <2>1 DEF One
    <2>3. One(due') <= One(due) + waits
      <3>1. CASE ~didRead
        BY <2>1, <3>1 DEF Effect, One
      <3>2. CASE didRead /\ skipNextWrite
        BY <2>1, <3>2 DEF Effect, One
      <3>3. CASE didRead /\ ~skipNextWrite
        BY <2>1, <3>3 DEF Effect, One
      <3>. QED
        BY <3>1, <3>2, <3>3
    <2> HIDE DEF waits, waitsNext, n, nNext
    <2>4. n = nNext
      BY <2>1 DEF n, nNext
    <2>. QED
      BY <1>1, <1>2, <2>1, <2>2, <2>3, <2>4
  <1>12. ASSUME WriteDue
         PROVE  /\ edits' \in 0..MaxEdits
                /\ issued' + One(due') + nNext + waitsNext <= edits'
    <2>1. /\ due /\ ~due' /\ UNCHANGED <<edits, settling, hydrating, skipNextWrite>>
          /\ issued' = issued + 1 \/ issued' = issued
      BY <1>12 DEF WriteDue, dragVars
    <2>2. One(due) = 1 /\ One(due') = 0 /\ waitsNext = waits
      BY <2>1 DEF One
    <2>3. nNext = n /\ edits' = edits /\ (issued' = issued \/ issued' = issued + 1)
      BY <2>1
    <2> DEFINE dueNow == One(due)
               dueNext == One(due')
    <2>4. /\ dueNow = 1 /\ dueNext = 0 /\ waitsNext = waits /\ waits \in 0..1
          /\ issued + dueNow + n + waits <= edits
      BY <1>1, <1>2, <2>2
    <2> HIDE DEF waits, waitsNext, n, nNext, dueNow, dueNext
    <2>5. issued' + dueNext + nNext + waitsNext <= edits
      BY <1>1, <2>3, <2>4
    <2>. QED
      BY <1>1, <2>3, <2>5 DEF dueNext
  <1>13. ASSUME \/ ReadyTimeout \/ Dismiss \/ Go \/ Jump \/ Exit
                \/ Delete /\ menuOpen \notin confirming
                \/ \E w \in flying, ok \in BOOLEAN : WriteLands(w, ok)
                \/ \E k \in Board : Kebab(k) \/ GripDown(k) \/ Focus(k)
         PROVE  UNCHANGED <<edits, issued, due, settling, hydrating, skipNextWrite>>
    BY <1>13, Zenon DEF ReadyTimeout, Dismiss, Go, Jump, Exit, Look, Delete, WriteLands, Kebab, GripDown,
       Focus, editVars, fileVars, dragVars
  <1>. QED
    BY <1>3, <1>6, <1>7, <1>8, <1>9, <1>10, <1>11, <1>12, <1>13 DEF CanvasNext

LEMMA CanvasTypesInitial ==
    ASSUME CanvasInit
    PROVE  CanvasTypes
  <1> USE DEF CanvasInit
  <1>1. Unpatched \in Patched /\ IsInjective(Unpatched.order)
    BY DEF Unpatched, Patched, IsInjective
  <1>2. Fits(sections)
    BY <1>1 DEF Fits
  <1>3. file # None => Fits(file)
    BY CanvasAssumption DEF Fits
  <1>4. StatesFit
    BY <1>2, <1>3 DEF StatesFit
  <1>5. DragFits /\ RestFits
    <2>1. DragFits
      BY DEF DragFits
    <2>2. FlagsFit
      BY DEF FlagsFit
    <2>. QED
      BY <2>1, <2>2 DEF RestFits
  <1>6. WritesPaid
    BY CanvasAssumption DEF WritesPaid, One
  <1>. QED
    BY <1>4, <1>5, <1>6 DEF CanvasTypes

LEMMA CanvasTypesInvariant == PageSpec => []CanvasTypes
  <1>1. PageInit => CanvasTypes
    BY CanvasTypesInitial DEF PageInit
  <1>2. ASSUME CanvasTypes, CanvasInv, EditInv, [PageNext]_pageVars
        PROVE  CanvasTypes'
    <2>1. CASE CanvasNext
      <3>1. MenuOK /\ issued \in Nat
        BY <1>2 DEF EditInv, CanvasInv, WritesNumbered
      <3>. QED
        BY <1>2, <2>1, <3>1, StatesFitStep, DragFitsStep, RestFitsStep, WritesPaidStep
        DEF CanvasTypes, RestFits
    <2>2. CASE UNCHANGED canvasVars
      BY <1>2, <2>2 DEF CanvasTypes, StatesFit, Fits, DragFits, RestFits, FlagsFit, WritesPaid, One,
         canvasVars, editVars, readVars, fileVars, dragVars
    <2>. QED
      BY <1>2, <2>1, <2>2, StepOfParts
  <1>. QED
    BY <1>1, <1>2, CanvasInvariant, EditInvariant, PTL DEF PageSpec

LEMMA CanvasTypesAreTypes ==
    ASSUME CanvasTypes, CanvasInv, EditInv
    PROVE  CanvasTypeOK
  <1>1. /\ file \in Files \cup [Section -> Patched] /\ sections \in [Section -> Patched]
        /\ hydrating \subseteq [Section -> Patched]
        /\ flying \subseteq [n: Nat, sections: [Section -> Patched]]
    BY DEF CanvasTypes, StatesFit, Fits
  <1>2. {ready, didRead, skipNextWrite, due, hydrated, early} \subseteq BOOLEAN
    BY DEF CanvasTypes, RestFits, FlagsFit
  <1>3. menuOpen \in Board \cup {None} /\ focus \in Board \cup {None} /\ confirming \subseteq Board
    BY DEF CanvasTypes, RestFits, EditInv, MenuOK
  <1>4. drag \in Drags \cup {None} /\ settling \in Seq([drag: Drags, live: Seq(Board)])
    <2>1. Line \subseteq Seq(Board)
      BY DEF Line
    <2>2. DragsOfLines \subseteq Drags
      BY <2>1 DEF DragsOfLines, Drags
    <2>3. Drops \subseteq [drag: Drags, live: Seq(Board)]
      BY <2>1, <2>2 DEF Drops
    <2> DEFINE D == [drag: Drags, live: Seq(Board)]
    <2>4. Drops \subseteq D
      BY <2>3
    <2> HIDE DEF D
    <2>5. settling \in Seq(D)
      BY <2>4 DEF CanvasTypes, DragFits
    <2>. QED
      BY <2>2, <2>5 DEF CanvasTypes, DragFits, D
  <1>5. {edits, issued, landed, clicks} \subseteq 0..MaxEdits + 1
    <2>1. /\ MaxEdits \in Nat /\ edits \in 0..MaxEdits /\ issued \in Nat /\ Len(settling) \in Nat
          /\ landed \in Nat /\ landed <= issued
          /\ issued + One(due) + Len(settling) + One(hydrating # {} /\ ~skipNextWrite) <= edits
      BY CanvasAssumption DEF CanvasTypes, WritesPaid, DragFits, CanvasInv, WritesNumbered
    <2>2. One(due) \in Nat /\ One(hydrating # {} /\ ~skipNextWrite) \in Nat
      BY DEF One
    <2>3. issued <= MaxEdits
      BY <2>1, <2>2
    <2>4. clicks \in 0..1
      BY DEF EditInv, MenuOK
    <2>. QED
      BY <2>1, <2>3, <2>4
  <1>. QED
    BY <1>1, <1>2, <1>3, <1>4, <1>5 DEF CanvasTypeOK

\* Each part of the page keeps its variables within their types: in the canvas an
\* order has no artboard twice, so that moving one is well defined, and no more
\* writes are issued than there were edits.
THEOREM PageTypesCorrect == PageSpec => []PageTypeOK
  <1>1. SlotInv => SlotTypeOK
    BY SlotTypesAreTypes DEF SlotInv
  <1>2. ViewportInv => ViewportTypeOK
    BY ViewportTypesAreTypes DEF ViewportInv
  <1>3. PrototypeInv => PrototypeTypeOK
    BY DEF PrototypeInv
  <1>4. SlotInv /\ ViewportInv /\ PrototypeInv /\ CanvasTypes /\ CanvasInv /\ EditInv => PageTypeOK
    BY <1>1, <1>2, <1>3, CanvasTypesAreTypes DEF PageTypeOK
  <1>. QED
    BY <1>4, SlotsInvariant, ViewportInvariant, PrototypeInvariant, CanvasTypesInvariant,
       CanvasInvariant, EditInvariant, PTL

----------------------------------------------------------------------------
(* Canvas: the arrows of the overlay                                       *)

\* Going round a circle in one direction leads to every place.
LEMMA CircleReached ==
    ASSUME NEW n \in Nat, NEW d \in {-1, 1}, NEW I \in SUBSET (1..n), I # {},
           \A i \in I : Step(i, d, n) \in I
    PROVE  I = 1..n
  <1>1. PICK a \in I : a \in 1..n
    OBVIOUS
  <1>2. ASSUME d = 1, NEW b \in I PROVE \A m \in b..n : m \in I
    <2> DEFINE M == {m \in Nat : b + m <= n => b + m \in I}
    <2>1. 0 \in M
      BY <1>2
    <2>2. ASSUME NEW m \in Nat, m \in M PROVE m + 1 \in M
      BY <1>2, <2>2 DEF Step
    <2> HIDE DEF M
    <2>3. Nat \subseteq M
      BY <2>1, <2>2, InductionOverSet
    <2>4. ASSUME NEW m \in b..n PROVE m \in I
      <3>1. m - b \in M /\ b + (m - b) = m
        BY <1>2, <2>3
      <3>. QED
        BY <3>1 DEF M
    <2>. QED
      BY <2>4
  <1>3. ASSUME d = -1, NEW b \in I PROVE \A m \in 1..b : m \in I
    <2> DEFINE M == {m \in Nat : b - m >= 1 => b - m \in I}
    <2>1. 0 \in M
      BY <1>3
    <2>2. ASSUME NEW m \in Nat, m \in M PROVE m + 1 \in M
      BY <1>3, <2>2 DEF Step
    <2> HIDE DEF M
    <2>3. Nat \subseteq M
      BY <2>1, <2>2, InductionOverSet
    <2>4. ASSUME NEW m \in 1..b PROVE m \in I
      <3>1. b - m \in M /\ b - (b - m) = m
        BY <1>3, <2>3
      <3>. QED
        BY <3>1 DEF M
    <2>. QED
      BY <2>4
  <1>4. CASE d = 1
    <2>1. n \in I
      BY <1>1, <1>2, <1>4
    <2>2. 1 \in I
      BY <1>4, <2>1 DEF Step
    <2>. QED
      BY <1>2, <1>4, <2>2
  <1>5. CASE d = -1
    <2>1. 1 \in I
      BY <1>1, <1>3, <1>5
    <2>2. n \in I
      BY <1>5, <2>1 DEF Step
    <2>. QED
      BY <1>3, <1>5, <2>2
  <1>. QED
    BY <1>4, <1>5

\* From one artboard the arrows across lead to all of its section.
LEMMA AcrossReaches ==
    ASSUME Fits(sections), NEW T \in SUBSET Shown, NEW d \in {-1, 1},
           \A k \in T : Across(k, d) \in T,
           NEW s \in Section, ToSet(Order(s)) \cap T # {}
    PROVE  ToSet(Order(s)) \subseteq T
  <1> DEFINE peers == Order(s)
             I == {i \in DOMAIN peers : peers[i] \in T}
  <1>1. peers \in Line /\ ToSet(peers) = BoardsOf(s) \ Hidden(sections[s])
    BY OrderFits
  <1>2. ASSUME NEW i \in I PROVE Step(i, d, Len(peers)) \in I
    <2>1. peers[i] \in T /\ i \in DOMAIN peers
      OBVIOUS
    <2>2. SectionOf(peers[i]) = s
      BY <1>1, <2>1, OwnSection DEF ToSet
    <2>3. Across(peers[i], d) = peers[Step(i, d, Len(peers))]
      BY <2>1, <2>2, ArrowAcross
    <2> HIDE DEF peers
    <2>4. Step(i, d, Len(peers)) \in DOMAIN peers
      BY <1>1, <2>1 DEF Line, Step
    <2>. QED
      BY <2>1, <2>3, <2>4
  <1>3. I \in SUBSET (1..Len(peers)) /\ Len(peers) \in Nat /\ DOMAIN peers = 1..Len(peers)
    BY <1>1 DEF Line
  <1>4. I # {}
    BY DEF ToSet
  <1> HIDE DEF I
  <1>5. I = 1..Len(peers)
    BY <1>2, <1>3, <1>4, CircleReached
  <1>. QED
    BY <1>3, <1>5 DEF I, ToSet

\* The place after i steps from the place after j steps.
LEMMA StepOfStep ==
    ASSUME NEW n \in Nat, NEW a \in 1..n, NEW d \in {-1, 1}, NEW j \in Nat, NEW m \in Nat, j + m <= n
    PROVE  Step(Step(a, d * j, n), d * m, n) = Step(a, d * (j + m), n)
  <1>1. CASE d = 1
    <2>1. d * j = j /\ d * m = m /\ d * (j + m) = j + m
      BY <1>1
    <2>. QED
      BY <2>1 DEF Step
  <1>2. CASE d = -1
    <2>1. d * j = -j /\ d * m = -m /\ d * (j + m) = -(j + m)
      BY <1>2
    <2>. QED
      BY <2>1 DEF Step
  <1>. QED
    BY <1>1, <1>2

\* Every place is some number of steps away.
LEMMA NthReaches ==
    ASSUME NEW k, NEW d \in {-1, 1}, Len(Rows) \in Nat, SectionOf(k) \in 1..Len(Rows),
           NEW b \in 1..Len(Rows)
    PROVE  /\ Nth(k, d, 0) = SectionOf(k)
           /\ \E i \in 0..(Len(Rows) - 1) : Nth(k, d, i) = b
  <1> DEFINE n == Len(Rows)
             a == SectionOf(k)
  <1>1. n \in Nat /\ a \in 1..n /\ b \in 1..n
    OBVIOUS
  <1>2. \A i : Nth(k, d, i) = Step(a, d * i, n)
    BY DEF Nth
  <1>3. d * 0 = 0 /\ \A i \in Nat : d * i = IF d = 1 THEN i ELSE -i
    OBVIOUS
  <1> HIDE DEF n, a
  <1>4. Nth(k, d, 0) = a
    <2>1. Step(a, 0, n) = a
      BY <1>1 DEF Step
    <2>. QED
      BY <1>2, <1>3, <2>1, Zenon
  <1>5. PICK i \in 0..(n - 1) : Nth(k, d, i) = b
    <2>1. CASE d = 1
      <3> DEFINE i == IF b >= a THEN b - a ELSE b - a + n
      <3>1. i \in 0..(n - 1) /\ i \in Nat /\ Step(a, i, n) = b
        BY <1>1 DEF Step
      <3> HIDE DEF i
      <3>2. d * i = i
        BY <1>3, <2>1, <3>1
      <3>3. Nth(k, d, i) = b
        BY <1>2, <3>1, <3>2, Zenon
      <3>. QED
        BY <3>1, <3>3, Zenon
    <2>2. CASE d = -1
      <3> DEFINE i == IF a >= b THEN a - b ELSE a - b + n
      <3>1. i \in 0..(n - 1) /\ i \in Nat /\ Step(a, -i, n) = b
        BY <1>1 DEF Step
      <3> HIDE DEF i
      <3>2. d * i = -i
        BY <1>3, <2>2, <3>1
      <3>3. Nth(k, d, i) = b
        BY <1>2, <3>1, <3>2, Zenon
      <3>. QED
        BY <3>1, <3>3, Zenon
    <2>. QED
      BY <2>1, <2>2
  <1>. QED
    BY <1>4, <1>5, Zenon DEF n, a

\* From one artboard the arrows of one direction lead to every other one: the
\* first section that they missed would be the next with artboards after one
\* that they did not miss.
LEMMA ArrowsReach ==
    ASSUME Fits(sections), NEW T \in SUBSET Shown, NEW d \in {-1, 1}, NEW k \in T,
           \A x \in T : Arrows(x, d) \subseteq T
    PROVE  Shown \subseteq T
  <1> DEFINE L == Len(Rows)
             Met(i) == ToSet(Order(Nth(k, d, i))) \subseteq T
             Missed == {i \in 0..(L - 1) : ~Met(i)}
  <1>1. \A x \in T : Across(x, d) \in T /\ Beside(x, d) \in T
    BY DEF Arrows
  <1>2. /\ L \in Nat /\ Section = 1..L /\ SectionOf(k) \in 1..L
        /\ k \in ToSet(Order(SectionOf(k)))
    BY ShownIsInOrder, CanvasAssumption DEF Section
  <1>3. \A i \in 0..L : Nth(k, d, i) \in Section
    BY ArrowBeside
  <1>4. ASSUME NEW i \in Missed PROVE \E j \in Missed : j < i
    <2>1. i \in 0..(L - 1) /\ i \in Nat /\ ~Met(i)
      BY <1>2
    <2> SUFFICES ASSUME \A j \in Missed : ~(j < i) PROVE FALSE
      OBVIOUS
    <2> DEFINE Before == {j \in 0..(i - 1) : Order(Nth(k, d, j)) # <<>>}
    <2>2. Met(0) /\ 0 \in Before
      <3>1. Nth(k, d, 0) = SectionOf(k)
        BY <1>2, NthReaches
      <3>2. ToSet(Order(SectionOf(k))) \subseteq T
        BY <1>1, <1>2, AcrossReaches
      <3>3. Order(SectionOf(k)) # <<>>
        BY <1>2 DEF ToSet
      <3>4. i # 0
        BY <2>1, <3>1, <3>2
      <3>. QED
        BY <2>1, <3>1, <3>2, <3>3, <3>4
    <2>3. PICK j \in Before : \A m \in Before : m <= j
      <3> DEFINE Back == {i - m : m \in Before}
      <3>1. Back \in SUBSET Nat /\ Back # {}
        BY <2>1, <2>2
      <3> HIDE DEF Back
      <3>2. PICK b \in Back : \A c \in Back : b <= c
        BY <3>1, LeastNat
      <3>3. PICK j \in Before : b = i - j
        BY DEF Back
      <3>4. \A m \in Before : i - j <= i - m
        BY <3>2, <3>3 DEF Back
      <3>5. \A m \in Before : m <= j
        BY <2>1, <3>4
      <3>. QED
        BY <3>5
    <2>4. j \in 0..(i - 1) /\ j \in 0..(L - 1) /\ Order(Nth(k, d, j)) # <<>> /\ Met(j)
      BY <1>2, <2>1
    <2> DEFINE s == Nth(k, d, j)
               x == Order(s)[1]
    <2>5. /\ s \in Section /\ Order(s) \in Line
          /\ ToSet(Order(s)) = BoardsOf(s) \ Hidden(sections[s])
      <3>1. s \in Section
        <4>1. j \in 0..L
          BY <1>2, <2>4
        <4>. QED
          BY <1>3, <4>1
      <3>. QED
        BY <3>1, OrderFits
    <2>6. x \in ToSet(Order(s))
      BY <2>4, <2>5 DEF Line, ToSet
    <2>7. x \in T /\ SectionOf(x) = s
      BY <2>4, <2>5, <2>6, OwnSection
    <2> HIDE DEF x
    <2>8. \A m \in 0..(L - 1 - j) : Nth(x, d, m) = Nth(k, d, j + m)
      <3>1. ASSUME NEW m \in 0..(L - 1 - j) PROVE Nth(x, d, m) = Nth(k, d, j + m)
        <4>1. j \in Nat /\ m \in Nat /\ j + m <= L
          BY <1>2, <2>4
        <4> DEFINE a == SectionOf(k)
        <4>2. L \in Nat /\ a \in 1..L
          BY <1>2
        <4> HIDE DEF a, L
        <4>3. Step(Step(a, d * j, L), d * m, L) = Step(a, d * (j + m), L)
          BY <4>1, <4>2, StepOfStep
        <4>. QED
          BY <2>7, <4>3 DEF Nth, a, L
      <3>. QED
        BY <3>1
    <2> DEFINE n == i - j
    <2>9. n \in 1..(L - 1) /\ n \in 0..(L - 1 - j) /\ j + n = i
      BY <1>2, <2>1, <2>4
    <2>10. Order(Nth(k, d, i)) # <<>>
      BY <2>1 DEF ToSet
    <2>11. n \in FilledAt(x, d)
      BY <2>8, <2>9, <2>10 DEF FilledAt
    <2>12. \A m \in FilledAt(x, d) : n <= m
      <3>1. ASSUME NEW m \in FilledAt(x, d), m < n PROVE FALSE
        <4>1. m \in 1..(L - 1) /\ m \in 0..(L - 1 - j) /\ Order(Nth(x, d, m)) # <<>>
          BY <1>2, <2>9, <3>1 DEF FilledAt
        <4>2. Order(Nth(k, d, j + m)) # <<>> /\ j + m \in 0..(i - 1)
          BY <2>1, <2>4, <2>8, <3>1, <4>1
        <4>3. j + m <= j
          BY <2>3, <4>2
        <4>. QED
          BY <2>4, <4>1, <4>3
      <3>2. \A m \in FilledAt(x, d) : m \in Int
        BY DEF FilledAt
      <3>. QED
        BY <2>9, <3>1, <3>2
    <2>13. Order(Nth(k, d, i))[1] \in T
      <3>1. Beside(x, d) = Order(Nth(x, d, n))[1]
        BY <2>7, <2>11, <2>12, ArrowBeside
      <3>2. Nth(x, d, n) = Nth(k, d, i)
        BY <2>8, <2>9
      <3>. QED
        BY <1>1, <2>7, <3>1, <3>2
    <2>14. Nth(k, d, i) \in Section /\ Order(Nth(k, d, i)) \in Line
      <3>1. i \in 0..L
        BY <1>2, <2>1
      <3>. QED
        BY <1>3, <3>1, OrderFits
    <2>15. Order(Nth(k, d, i))[1] \in ToSet(Order(Nth(k, d, i)))
      BY <2>10, <2>14 DEF Line, ToSet
    <2>16. Met(i)
      BY <1>1, <2>13, <2>14, <2>15, AcrossReaches
    <2>. QED
      BY <2>1, <2>16
  <1>5. Missed = {}
    <2>1. Missed \in SUBSET Nat
      BY <1>2
    <2> HIDE DEF Missed
    <2> SUFFICES ASSUME Missed # {} PROVE FALSE
      OBVIOUS
    <2>2. PICK i \in Missed : \A j \in Missed : i <= j
      BY <2>1, LeastNat
    <2>3. PICK j \in Missed : j < i
      BY <1>4
    <2>. QED
      BY <2>1, <2>2, <2>3
  <1>6. ASSUME NEW x \in Shown PROVE x \in T
    <2>1. SectionOf(x) \in 1..L /\ x \in ToSet(Order(SectionOf(x)))
      BY <1>2, ShownIsInOrder
    <2>2. PICK i \in 0..(L - 1) : Nth(k, d, i) = SectionOf(x)
      BY <1>2, <2>1, NthReaches
    <2>3. Met(i)
      BY <1>5
    <2>. QED
      BY <2>1, <2>2, <2>3
  <1>. QED
    BY <1>6

\* In the overlay the right and the down arrow alone lead, step by step, to every
\* artboard on show, as do the left and the up arrow, and none to a deleted one:
\* an order has each artboard on show once, and a section without any is stepped
\* past (go and goSection).
THEOREM ArrowsLeadCorrect == PageSpec => []ArrowsLeadEverywhere
  <1>1. ASSUME CanvasTypes PROVE ArrowsLeadEverywhere
    <2>1. Fits(sections)
      BY <1>1 DEF CanvasTypes, StatesFit
    <2> DEFINE arrows == [e \in {-1, 1} |-> [x \in Shown |-> Arrows(x, e)]]
               Within(T, e) == \A x \in T : arrows[e][x] \subseteq T
    <2> SUFFICES ASSUME Overlay, NEW d \in {-1, 1}
                 PROVE  {T \in SUBSET Shown : T # {} /\ Within(T, d)} = {Shown} \ {{}}
      BY Zenon DEF ArrowsLeadEverywhere
    <2>2. \A k \in Shown : arrows[d][k] = Arrows(k, d)
      OBVIOUS
    <2> HIDE DEF arrows
    <2>3. Shown # {}
      BY DEF Overlay
    <2>4. \A k \in Shown : Arrows(k, d) \subseteq Shown
      BY <2>1, ArrowsAreShown
    <2>5. ASSUME NEW T \in SUBSET Shown, T # {}, Within(T, d)
          PROVE  T = Shown
      <3>1. \A k \in T : Arrows(k, d) \subseteq T
        BY <2>2, <2>5
      <3>. QED
        BY <2>1, <2>5, <3>1, ArrowsReach
    <2>6. Within(Shown, d)
      BY <2>2, <2>4
    <2> HIDE DEF Within
    <2>. QED
      BY <2>3, <2>5, <2>6
  <1>. QED
    BY <1>1, CanvasTypesInvariant, PTL

============================================================================

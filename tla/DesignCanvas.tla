---------------------------- MODULE DesignCanvas ----------------------------
(***************************************************************************)
(* The canvas of artboards (docs/design/design-canvas.jsx): sections of     *)
(* artboards that can be renamed, dragged into another order, deleted from  *)
(* a menu and looked at one by one in an overlay.  What was edited is kept  *)
(* per section in a sidecar file, read once and written 250 ms after the    *)
(* last edit.  The read, the writes, the timers of dropped artboards and    *)
(* the renders of React 18 end in any order.                                *)
(*                                                                         *)
(* Not represented: pixels, the contents of an artboard, its export, which  *)
(* changes nothing, and elements without an id, which cannot be edited.     *)
(***************************************************************************)
EXTENDS DesignHost, SequencesExt

CONSTANTS
    Rows,       \* the source: a sequence of sections, each of its artboards
    Names,      \* texts typed over a title or a label
    Gone,       \* an artboard of an earlier source
    Files,      \* what the file may hold at the start, None if there is none
    MaxEdits    \* bound: the renames, drops and deletions

Section == DOMAIN Rows
BoardsOf(s) == ToSet(Rows[s])
Board == UNION {BoardsOf(s) : s \in Section}
SectionOf(k) == CHOOSE s \in Section : k \in BoardsOf(s)

\* What is kept of a section.  The name stands for its title and the labels of
\* its artboards; the key says of which source its artboards were hidden.
Patched == [order: Seq(Board \cup {Gone}), hidden: SUBSET (Board \cup {Gone}),
            key: {None, "this", "old"}, name: Names \cup {None}]
Unpatched == [order |-> <<>>, hidden |-> {}, key |-> None, name |-> None]

ASSUME CanvasAssumption ==
    /\ MaxEdits \in Nat /\ None \notin Names \cup Board /\ Gone \notin Board
    /\ Files \subseteq [Section -> Patched] \cup {None}
    /\ \A f \in Files \ {None}, s \in Section : IsInjective(f[s].order)
    \* An artboard is known by its section and its id, which no two share.
    /\ Rows \in Seq(Seq(Board))
    /\ \A s, t \in Section : \A i \in DOMAIN Rows[s], j \in DOMAIN Rows[t] :
          Rows[s][i] = Rows[t][j] => s = t /\ i = j

VARIABLES
    file,                           \* the sidecar file
    sections,                       \* state.sections, as rendered
    hydrating,                      \* the state set by the read and not yet rendered, if any
    ready, didRead, skipNextWrite,
    due,                            \* the timer of the next write is on
    flying,                         \* writes under way
    menuOpen,                       \* the artboard whose menu is open
    confirming,                     \* those whose menu says "Click again to delete"
    drag, settling,                 \* the grip held, and the drops not committed yet
    focus, edits

\* History, read by no step.
VARIABLES
    hydrated,                       \* the read gave something
    early,                          \* the last edit came before that was rendered
    issued, landed,                 \* numbers of the last write and of the one in the file
    clicks                          \* clicks on Delete since the menu was opened

editVars   == <<sections, hydrating, skipNextWrite, due, edits, early>>
readVars   == <<ready, didRead, hydrated>>
fileVars   == <<file, flying, issued, landed>>
menuVars   == <<menuOpen, confirming, clicks>>
dragVars   == <<drag, settling>>
canvasVars == <<editVars, readVars, fileVars, menuVars, dragVars, focus>>

CanvasInit ==
    /\ file \in Files /\ sections = [s \in Section |-> Unpatched] /\ hydrating = {}
    /\ ready = FALSE /\ didRead = FALSE /\ skipNextWrite = FALSE
    /\ due = FALSE /\ flying = {}
    /\ menuOpen = None /\ confirming = {} /\ drag = None /\ settling = <<>>
    /\ focus = None /\ edits = 0
    /\ hydrated = FALSE /\ early = FALSE /\ issued = 0 /\ landed = 0 /\ clicks = 0

\* The artboards of section s in the order they are shown.
Hidden(p) == IF p.key = "this" THEN p.hidden ELSE {}
\* filter: the elements of q that are in T, in their order.
Only(q, T) ==
    LET of[n \in 0..Len(q)] ==
            IF n = 0 THEN <<>> ELSE IF q[n] \in T THEN Append(of[n - 1], q[n]) ELSE of[n - 1]
    IN  of[Len(q)]
Arranged(s, p) ==
    LET src  == Only(Rows[s], BoardsOf(s) \ Hidden(p))
        kept == Only(p.order, ToSet(src))
    IN  kept \o Only(src, ToSet(src) \ ToSet(kept))

Order(s) == Arranged(s, sections[s])
Shown == UNION {BoardsOf(s) \ Hidden(sections[s]) : s \in Section}
Overlay == focus # None /\ focus \in Shown
\* The canvas can be pressed on.
Free == ready /\ ~Overlay /\ drag = None

----------------------------------------------------------------------------
(* The state and the file                                                  *)

EffectSkippingOn ==                 \* mutant: the flag stays up
    IF ~didRead THEN UNCHANGED <<skipNextWrite, due>>
    ELSE IF skipNextWrite THEN due' = FALSE /\ UNCHANGED skipNextWrite
    ELSE due' = TRUE /\ UNCHANGED skipNextWrite

Effect ==                           \* useEffect(..., [state.sections])
    IF ~didRead THEN UNCHANGED <<skipNextWrite, due>>
    ELSE IF skipNextWrite THEN skipNextWrite' = FALSE /\ due' = FALSE
    ELSE due' = TRUE /\ UNCHANGED skipNextWrite

\* patchSection from a click or a blur: what is shown is rendered at once, and
\* once more over the state that the read brings.
Patch(shown, read) ==
    /\ edits < MaxEdits /\ edits' = edits + 1
    /\ sections' = shown /\ hydrating' = read
    /\ early' = (~didRead \/ hydrating # {})
    /\ Effect

\* patchSection from a timer: rendered together with the state the read brings.
PatchLater(shown, read) ==
    /\ early' = (~didRead \/ hydrating # {})
    /\ IF hydrating = {} THEN sections' = shown /\ Effect /\ UNCHANGED hydrating
       ELSE hydrating' = read /\ UNCHANGED <<sections, skipNextWrite, due>>

\* The read ends, with a file or without one.
ReadAnswered(found) ==
    /\ ~didRead /\ didRead' = TRUE
    /\ IF found THEN /\ file # None /\ hydrating' = {file} /\ skipNextWrite' = TRUE
                     /\ UNCHANGED ready
                ELSE /\ ready' = TRUE
                     /\ UNCHANGED <<hydrating, skipNextWrite>>
    /\ hydrated' = found
    /\ UNCHANGED <<sections, due, edits, early, fileVars, menuVars, dragVars, focus>>

\* A menu goes with its artboard.
RenderHydration ==
    /\ sections' \in hydrating /\ hydrating' = {} /\ ready' = TRUE
    /\ Effect
    /\ LET there == menuOpen # None /\ menuOpen \in Shown' IN
       /\ menuOpen' = IF there THEN menuOpen ELSE None
       /\ confirming' = confirming \cap Shown'
       /\ clicks' = IF there THEN clicks ELSE 0
    /\ UNCHANGED <<didRead, hydrated, edits, early, fileVars, dragVars, focus>>

\* 150 ms after the start.
ReadyTimeout ==
    /\ ~ready /\ ready' = TRUE
    /\ UNCHANGED <<editVars, didRead, hydrated, fileVars, menuVars, dragVars, focus>>

WriteDue ==
    /\ due /\ due' = FALSE
    /\ IF bridge THEN /\ issued' = issued + 1
                      /\ flying' = flying \cup {[n |-> issued + 1, sections |-> sections]}
       ELSE UNCHANGED <<issued, flying>>
    /\ UNCHANGED <<sections, hydrating, skipNextWrite, edits, early, readVars,
                   file, landed, menuVars, dragVars, focus>>

WriteLands(w, ok) ==
    /\ w \in flying /\ flying' = flying \ {w}
    /\ IF ok THEN file' = w.sections /\ landed' = w.n ELSE UNCHANGED <<file, landed>>
    /\ UNCHANGED <<editVars, readVars, issued, menuVars, dragVars, focus>>

----------------------------------------------------------------------------
(* Titles, labels and the menu.  A press outside the menu closes it.        *)

CloseMenu == menuOpen' = None /\ confirming' = confirming \ {menuOpen} /\ clicks' = 0

\* A title or a label was typed over.
Renamed(x, s, name) == [x EXCEPT ![s].name = name]
Rename(s, name) ==
    /\ Free
    /\ Patch(Renamed(sections, s, name), {Renamed(h, s, name) : h \in hydrating})
    /\ CloseMenu
    /\ UNCHANGED <<readVars, fileVars, dragVars, focus>>

Kebab(k) ==
    /\ Free /\ k \in Shown
    /\ IF menuOpen = k THEN CloseMenu
       ELSE menuOpen' = k /\ confirming' = confirming \ {menuOpen} /\ clicks' = 0
    /\ UNCHANGED <<editVars, readVars, fileVars, dragVars, focus>>

\* A press elsewhere, or one of the two downloads.
Dismiss ==
    /\ Free /\ menuOpen # None
    /\ CloseMenu
    /\ UNCHANGED <<editVars, readVars, fileVars, dragVars, focus>>

WithoutAnyRevision(p, k) ==         \* mutant: what an old source hid stays hidden
    [p EXCEPT !.hidden = @ \cup {k}, !.key = "this"]
Without(p, k) == [p EXCEPT !.hidden = Hidden(p) \cup {k}, !.key = "this"]

Deleted(x, k) == [x EXCEPT ![SectionOf(k)] = Without(@, k)]
Delete ==
    /\ Free /\ menuOpen # None
    /\ IF menuOpen \notin confirming
         THEN /\ confirming' = confirming \cup {menuOpen} /\ clicks' = clicks + 1
              /\ UNCHANGED <<editVars, menuOpen>>
         ELSE /\ CloseMenu
              /\ Patch(Deleted(sections, menuOpen), {Deleted(h, menuOpen) : h \in hydrating})
    /\ UNCHANGED <<readVars, fileVars, dragVars, focus>>

----------------------------------------------------------------------------
(* Dragging by the grip.  The order is the one on show when it is pressed.  *)

MovedTo(order, k, i) == InsertAt(Only(order, ToSet(order) \ {k}), i, k)

GripDown(k) ==
    /\ Free /\ k \in Shown
    /\ drag' = [id |-> k, order |-> Order(SectionOf(k))]
    /\ CloseMenu
    /\ UNCHANGED <<editVars, readVars, fileVars, settling, focus>>

\* It is let go where place i is the nearest.
GripUp(i) ==
    /\ drag # None /\ i \in DOMAIN drag.order /\ drag' = None
    /\ edits < MaxEdits /\ edits' = edits + 1
    /\ settling' = Append(settling, [drag |-> drag, live |-> MovedTo(drag.order, drag.id, i)])
    /\ UNCHANGED <<sections, hydrating, skipNextWrite, due, early,
                   readVars, fileVars, menuVars, focus>>

\* 180 ms after the drop.
Reordered(x, d) == [x EXCEPT ![SectionOf(d.drag.id)].order = d.live]
Settled ==
    /\ settling # <<>> /\ settling' = Tail(settling)
    /\ LET d == Head(settling) IN
       IF d.live # d.drag.order
         THEN PatchLater(Reordered(sections, d), {Reordered(h, d) : h \in hydrating})
         ELSE UNCHANGED <<sections, hydrating, skipNextWrite, due, early>>
    /\ UNCHANGED <<edits, readVars, fileVars, menuVars, drag, focus>>

----------------------------------------------------------------------------
(* The overlay                                                             *)

FirstOf(s) == Order(s)[1]

\* The artboard that an arrow leads to: d is -1 for left and up.
Across(k, d) ==
    LET peers == Order(SectionOf(k))
        idx   == CHOOSE i \in DOMAIN peers : peers[i] = k
    IN  peers[((idx - 1 + d) % Len(peers)) + 1]

BesideOnly(k, d) ==                 \* mutant: an empty section is a dead end
    LET ns == ((SectionOf(k) - 1 + d) % Len(Rows)) + 1
    IN  IF Order(ns) = <<>> THEN k ELSE FirstOf(ns)
Beside(k, d) ==
    LET nth(i)  == ((SectionOf(k) - 1 + d * i) % Len(Rows)) + 1
        steps   == {i \in 1..(Len(Rows) - 1) : Order(nth(i)) # <<>>}
    IN  IF steps = {} THEN k
        ELSE FirstOf(nth(CHOOSE i \in steps : \A j \in steps : i <= j))

Arrows(k, d) == {Across(k, d), Beside(k, d)}

Look(k) ==
    /\ focus' = k
    /\ UNCHANGED <<editVars, readVars, fileVars, dragVars>>

\* A click on a label or on its button.
Focus(k) == Free /\ k \in Shown /\ Look(k) /\ CloseMenu
\* An arrow.
Go == Overlay /\ (\E d \in {-1, 1} : \E k \in Arrows(focus, d) : Look(k)) /\ UNCHANGED menuVars
\* A dot of this section, or a section of the list.
Jump ==
    /\ Overlay /\ UNCHANGED menuVars
    /\ \E k \in ToSet(Order(SectionOf(focus)))
               \cup {FirstOf(s) : s \in {t \in Section : Order(t) # <<>>}} : Look(k)
\* Escape, the cross or a click on the backdrop.
Exit == focus # None /\ Look(None) /\ UNCHANGED menuVars

CanvasNext ==
    \/ \E found \in BOOLEAN : ReadAnswered(found)
    \/ RenderHydration \/ ReadyTimeout \/ WriteDue
    \/ \E w \in flying, ok \in BOOLEAN : WriteLands(w, ok)
    \/ \E s \in Section, name \in Names : Rename(s, name)
    \/ Dismiss \/ Delete \/ Settled \/ Go \/ Jump \/ Exit
    \/ \E k \in Board : Kebab(k) \/ GripDown(k) \/ Focus(k)
    \/ \E i \in 1..Cardinality(Board) : GripUp(i)

----------------------------------------------------------------------------
(* Properties                                                              *)

Drags == [id: Board, order: Seq(Board)]

CanvasTypeOK ==
    /\ file \in Files \cup [Section -> Patched] /\ sections \in [Section -> Patched]
    /\ hydrating \subseteq [Section -> Patched]
    /\ {ready, didRead, skipNextWrite, due, hydrated, early} \subseteq BOOLEAN
    /\ flying \subseteq [n: Nat, sections: [Section -> Patched]]
    /\ menuOpen \in Board \cup {None} /\ focus \in Board \cup {None}
    /\ confirming \subseteq Board
    /\ drag \in Drags \cup {None} /\ settling \in Seq([drag: Drags, live: Seq(Board)])
    /\ {edits, issued, landed, clicks} \subseteq 0..MaxEdits + 1

\* When no timer is on and the last write has landed, the file holds what the
\* canvas shows.  Left out: an edit made before the read was rendered, which
\* no write follows until the next edit.
CanvasSaved ==
    /\ bridge /\ didRead /\ hydrating = {} /\ ~due /\ ~early
    /\ flying = {} /\ landed = issued /\ (issued > 0 \/ hydrated)
    => file = sections

\* Once the file is rendered, an artboard disappears only by the second click
\* on its Delete since the menu was opened, and none comes back.
ArtboardsKept ==
    [][hydrating = {} /\ sections' # sections =>
          /\ Shown' \subseteq Shown
          /\ Shown \ Shown' \subseteq {menuOpen}
          /\ Shown' # Shown => clicks = 1]_canvasVars

\* In the overlay the right and the down arrow alone lead, step by step, to
\* every artboard, as do the left and the up arrow, and none to a deleted one.
ArrowsLeadEverywhere ==
    LET shown   == Shown
        arrows  == [d \in {-1, 1} |-> [k \in shown |-> Arrows(k, d)]]
        Within(T, d) == \A k \in T : arrows[d][k] \subseteq T
    IN  Overlay => \A d \in {-1, 1} :
            {T \in SUBSET shown : T # {} /\ Within(T, d)} = {shown} \ {{}}
=============================================================================

----------------------------- MODULE DesignHost -----------------------------
(***************************************************************************)
(* The page of the design documents (docs/design/index.html) shows image   *)
(* slots, a canvas of artboards, its viewport and a prototype of the app.   *)
(* They share the page and the host tool's bridge, window.omelette, which   *)
(* writes files and is absent where the page is only served.  ImageSlot,    *)
(* DesignCanvas, CanvasViewport and Prototype model them.                   *)
(***************************************************************************)
EXTENDS Integers, FiniteSets, Sequences

CONSTANTS
    Parts,      \* bound: the parts that move in the behaviours to be checked
    None        \* null

ASSUME PartAssumption == Parts \subseteq {"slots", "canvas", "viewport", "prototype"}

VARIABLES
    part,       \* the part that moves in this behaviour: the others stand still,
                \* as no state is shared between them
    bridge      \* window.omelette.writeFile is there

hostVars == <<part, bridge>>

HostInit == part \in Parts /\ bridge \in BOOLEAN
=============================================================================

----------------------------- MODULE DesignPage -----------------------------
(***************************************************************************)
(* The parts of the design page together: they share the page and the       *)
(* bridge, and each keeps its own state.                                   *)
(***************************************************************************)
EXTENDS ImageSlot, DesignCanvas, CanvasViewport, Prototype

pageVars == <<hostVars, slotVars, canvasVars, viewportVars, prototypeVars>>

PageInit == HostInit /\ SlotInit /\ CanvasInit /\ ViewportInit /\ PrototypeInit

\* Only the part that is looked at moves.
PageNext ==
    \/ /\ part = "slots"
       /\ SlotNext
       /\ UNCHANGED <<hostVars, canvasVars, viewportVars, prototypeVars>>
    \/ /\ part = "canvas"
       /\ CanvasNext
       /\ UNCHANGED <<hostVars, slotVars, viewportVars, prototypeVars>>
    \/ /\ part = "viewport"
       /\ ViewportNext
       /\ UNCHANGED <<hostVars, slotVars, canvasVars, prototypeVars>>
    \/ /\ part = "prototype"
       /\ PrototypeNext
       /\ UNCHANGED <<hostVars, slotVars, canvasVars, viewportVars>>

PageSpec == PageInit /\ [][PageNext]_pageVars

\* The part that moves keeps its variables within their types, and the others
\* theirs as they started.
PageTypeOK ==
    /\ part = "slots" => SlotTypeOK
    /\ part = "canvas" => CanvasTypeOK
    /\ part = "viewport" => ViewportTypeOK
    /\ part = "prototype" => PrototypeTypeOK
=============================================================================

--------------------------- MODULE CanvasViewport ---------------------------
(***************************************************************************)
(* The viewport of the canvas (DCViewport in docs/design/design-canvas.jsx) *)
(* pans and zooms, keeps its view in localStorage over a reload, and tells  *)
(* the host tool its scale, which the host's toolbar shows and sets.  The   *)
(* messages between the two arrive in order, at any time.  The host itself   *)
(* is modelled from what the viewport says of it.                           *)
(*                                                                         *)
(* A scale is a level and a pan one of a few places; a zoom about a point   *)
(* may move the pan anywhere.  localStorage works.                          *)
(***************************************************************************)
EXTENDS DesignHost

CONSTANTS
    MinScale, MaxScale, Actual,     \* levels; Actual is 100%
    Factors,                        \* levels that can be asked for
    Places, Origin,                 \* pans
    Pointers,                       \* pointer ids
    MaxTurns                        \* bound: zooms, and reloads of the page

Scales == MinScale..MaxScale
View   == [at: Places, scale: Scales]

ASSUME ViewportAssumption ==
    /\ MinScale \in Int /\ MaxScale \in Int /\ Factors \subseteq Int
    /\ Actual \in Scales /\ Origin \in Places /\ MaxTurns \in Nat
    /\ None \notin View \cup Scales \cup Pointers

VARIABLES
    mounted,        \* the listeners are there
    tf,             \* the view
    saveT,          \* the 200 ms timer of the save is on
    stored,         \* localStorage
    lastPostedScale,
    isGesturing,    \* a Safari pinch
    panning,        \* the pointer that drags the background
    toHost, toPage, \* messages under way
    present, dcScale, hostLoads,    \* the host: a canvas is there, its scale, and
                                    \* the iframe's load event is to come
    turns

\* History, read by no step.
VARIABLE left       \* the view when the page was left, None if its save was lost

gestureVars  == <<isGesturing, panning>>
pageSide     == <<tf, saveT, lastPostedScale>>
hostSide     == <<present, dcScale, hostLoads>>
viewportVars == <<mounted, pageSide, stored, gestureVars, toHost, toPage, hostSide, turns, left>>

Home == [at |-> Origin, scale |-> Actual]

ViewportInit ==
    /\ mounted = FALSE /\ tf = Home /\ saveT = FALSE /\ stored = None
    /\ lastPostedScale = None /\ isGesturing = FALSE /\ panning = None
    /\ toHost = <<>> /\ toPage = <<>>
    /\ present = FALSE /\ dcScale = Actual /\ hostLoads = TRUE
    /\ turns = 0 /\ left = Home

Turn == turns < MaxTurns /\ turns' = turns + 1
ClampBelow(s) == IF s < MinScale THEN MinScale ELSE s    \* mutant: no upper limit
Clamp(s) == IF s < MinScale THEN MinScale ELSE IF s > MaxScale THEN MaxScale ELSE s

Zoom(s) == [type |-> "zoom", scale |-> s]
Message(t) == [type |-> t, scale |-> None]

\* apply, with the messages posted before it and the scale posted last.
Apply(view, posted, last) ==
    /\ tf' = view
    /\ toHost' = posted \o IF last = view.scale THEN <<>> ELSE <<Zoom(view.scale)>>
    /\ lastPostedScale' = view.scale
    /\ saveT' = TRUE

ZoomAt(s) ==
    \E p \in Places :
        /\ Clamp(s) = tf.scale => p = tf.at
        /\ Apply([at |-> p, scale |-> Clamp(s)], toHost, lastPostedScale)

\* The pan changes with the scale as it was.
PanTo(p) == Apply([tf EXCEPT !.at = p], toHost, lastPostedScale)

----------------------------------------------------------------------------
(* The page                                                                *)

\* The layout effect restores the view, the effect announces the canvas.
Mount ==
    /\ ~mounted /\ mounted' = TRUE
    /\ LET view == IF stored = None THEN Home ELSE [stored EXCEPT !.scale = Clamp(@)]
           restored == IF stored = None THEN <<>> ELSE <<Zoom(view.scale)>>
       IN  Apply(view, toHost \o restored \o <<Message("present")>>, None)
    /\ UNCHANGED <<stored, gestureVars, toPage, hostSide, turns, left>>

Saved ==
    /\ saveT /\ saveT' = FALSE /\ stored' = tf
    /\ UNCHANGED <<mounted, tf, lastPostedScale, gestureVars, toHost, toPage,
                   hostSide, turns, left>>

FlushNothing(hide) == UNCHANGED stored          \* mutant: pagehide does not save
Flush(hide) == IF hide THEN stored' = tf ELSE UNCHANGED stored

\* The page is reloaded, with a pagehide event or, after a crash, without.
Leave(hide) ==
    /\ mounted /\ mounted' = FALSE /\ Turn
    /\ Flush(hide)
    /\ left' = IF hide \/ ~saveT THEN tf ELSE None
    /\ saveT' = FALSE /\ lastPostedScale' = None
    /\ isGesturing' = FALSE /\ panning' = None
    /\ toPage' = <<>> /\ hostLoads' = TRUE
    /\ UNCHANGED <<tf, toHost, present, dcScale>>

\* The wheel, or a pinch told by wheel events; dropped amid a gesture.
Wheel ==
    /\ mounted /\ ~isGesturing
    /\ \/ Turn /\ (\E s \in Factors : ZoomAt(s))
       \/ UNCHANGED turns /\ (\E p \in Places : PanTo(p))
    /\ UNCHANGED <<mounted, stored, gestureVars, toPage, hostSide, left>>

Gesture(on) ==
    /\ mounted /\ isGesturing # on /\ isGesturing' = on
    /\ UNCHANGED <<mounted, pageSide, stored, panning, toHost, toPage, hostSide, turns, left>>

GestureChange ==
    /\ mounted /\ isGesturing /\ Turn
    /\ \E s \in Factors : ZoomAt(s)
    /\ UNCHANGED <<mounted, stored, gestureVars, toPage, hostSide, left>>

\* A press of the middle button, or on the background, takes over a drag.
PointerDown(k) ==
    /\ mounted /\ panning # k /\ panning' = k
    /\ UNCHANGED <<mounted, pageSide, stored, isGesturing, toHost, toPage, hostSide, turns, left>>

PointerMove ==
    /\ mounted /\ panning # None
    /\ \E p \in Places : PanTo(p)
    /\ UNCHANGED <<mounted, stored, gestureVars, toPage, hostSide, turns, left>>

PointerUp ==
    /\ mounted /\ panning # None /\ panning' = None
    /\ UNCHANGED <<mounted, pageSide, stored, isGesturing, toHost, toPage, hostSide, turns, left>>

ProbedAgain == Apply(tf, Append(toHost, Message("present")), lastPostedScale)
                                    \* mutant: an unchanged scale is not posted
Probed == Apply(tf, Append(toHost, Message("present")), None)

\* onHostMsg; before the listeners are there the message is lost.
PageReceives ==
    /\ toPage # <<>> /\ toPage' = Tail(toPage)
    /\ IF ~mounted THEN UNCHANGED <<pageSide, toHost>>
       ELSE \/ Head(toPage).type = "set_zoom" /\ ZoomAt(Head(toPage).scale)
            \/ Head(toPage).type = "probe" /\ Probed
    /\ UNCHANGED <<mounted, stored, gestureVars, hostSide, turns, left>>

----------------------------------------------------------------------------
(* The host                                                                *)

HostReceives ==
    /\ toHost # <<>> /\ toHost' = Tail(toHost)
    /\ IF Head(toHost).type = "present" THEN present' = TRUE /\ UNCHANGED dcScale
       ELSE dcScale' = Head(toHost).scale /\ UNCHANGED present
    /\ UNCHANGED <<mounted, pageSide, stored, gestureVars, toPage, hostLoads, turns, left>>

\* The iframe's load event: the host starts anew and asks for a canvas.
HostLoads ==
    /\ hostLoads /\ hostLoads' = FALSE
    /\ present' = FALSE /\ dcScale' = Actual
    /\ toPage' = Append(toPage, Message("probe"))
    /\ UNCHANGED <<mounted, pageSide, stored, gestureVars, toHost, turns, left>>

\* A choice in the toolbar's menu.
HostZooms(s) ==
    /\ present /\ Turn
    /\ toPage' = Append(toPage, [type |-> "set_zoom", scale |-> s])
    /\ UNCHANGED <<mounted, pageSide, stored, gestureVars, toHost, hostSide, left>>

ViewportNext ==
    \/ Mount \/ Saved \/ Wheel \/ GestureChange
    \/ PointerMove \/ PointerUp \/ PageReceives \/ HostReceives \/ HostLoads
    \/ \E yes \in BOOLEAN : Leave(yes) \/ Gesture(yes)
    \/ \E k \in Pointers : PointerDown(k)
    \/ \E s \in Factors : HostZooms(s)

----------------------------------------------------------------------------
(* Properties                                                              *)

ViewportTypeOK ==
    /\ {mounted, saveT, isGesturing, present, hostLoads} \subseteq BOOLEAN
    /\ tf \in View /\ {stored, left} \subseteq View \cup {None}
    /\ dcScale \in Scales /\ lastPostedScale \in Scales \cup {None}
    /\ panning \in Pointers \cup {None} /\ turns \in 0..MaxTurns
    /\ toHost \in Seq([type: {"zoom", "present"}, scale: Scales \cup {None}])
    /\ toPage \in Seq([type: {"probe", "set_zoom"}, scale: Factors \cup {None}])

\* Once no message is under way the host knows of the canvas and shows its
\* scale, whether its load event came before the canvas or after it.
HostInSync ==
    mounted /\ toHost = <<>> /\ toPage = <<>> => present /\ dcScale = tf.scale

\* A page comes back with the view it was left with, unless it crashed within
\* 200 ms of a change.
ViewSurvivesReload ==
    [][~mounted /\ mounted' /\ left # None => tf' = left]_viewportVars
=============================================================================

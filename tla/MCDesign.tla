------------------------------ MODULE MCDesign ------------------------------
EXTENDS DesignPage, TLC

\* Model values: slots, artboards and one of an earlier source, clothes (a top, an
\* outer garment, a bottom and a new item).
CONSTANTS i1, i2, k1, k2, k3, k4, gone, t1, u1, b1, new

SidecarsToTry ==
    LET E == [u |-> 0, v |-> Plain] IN
    {Empty, [i \in Ids |-> E]}
OpsOfEach == [i \in Ids |-> IF i = i1 THEN 2 ELSE 1]

\* A section may have no artboards.
RowsOfPage == <<<<k1, k2, k3>>, <<>>, <<k4>>>>
FilesToTry ==
    LET F == [s \in Section |-> Unpatched] IN
    {None,
     [F EXCEPT ![1].order = <<gone, k2>>, ![1].hidden = {k2, gone}, ![1].key = "old"],
     [F EXCEPT ![1].order = <<k3, k1, k2>>, ![3].hidden = {k4}, ![3].key = "this"]}

\* SHOES and ACC are left out: they are treated as BOTTOM is.
SlotCats == {"TOP", "BOTTOM"}
AllCats == SlotCats \cup {"OUTER"}
Clothes  == [i \in {t1, u1, b1} |->
                IF i = u1 THEN "OUTER" ELSE IF i = b1 THEN "BOTTOM" ELSE "TOP"]
Worn     == <<[id |-> 1, day |-> 1, items |-> {t1, b1}]>>
Proposed == {{t1, b1}, {u1, b1}}
Building == [s \in SlotCats |-> IF s = "TOP" THEN t1 ELSE b1]

\* The parts are told apart at the start: what stands still starts in one way.
MCInit ==
    /\ PageInit
    /\ disk = Empty \/ part = "slots"
    /\ file = None \/ (part = "canvas" /\ bridge)
    /\ today = 1
    /\ bridge \/ part \in {"slots", "canvas"}

MCSpec == MCInit /\ [][PageNext]_pageVars
=============================================================================

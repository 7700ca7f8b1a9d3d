------------------------------ MODULE Prototype ------------------------------
(***************************************************************************)
(* The interactive prototype of the app (docs/design/src/prototype.jsx): a  *)
(* login that any six digits pass, a closet of clothes, the outfit being    *)
(* built, a log with a calendar, and what opens over them.                  *)
(*                                                                         *)
(* A button can be pressed when nothing lies over it.  Not represented:     *)
(* toasts, texts and colours, counts and rankings, and screens that change  *)
(* nothing.  A day stands for a day of the month, the calendar's key.       *)
(***************************************************************************)
EXTENDS DesignHost

CONSTANTS
    Cats, Slots,        \* categories, and those with a slot: all but OUTER
    Outer, AnyCat,      \* "OUTER" and "ALL"
    CLOSET,             \* the clothes of data.jsx: [id -> category]
    NewItems,           \* ids a new item can draw
    OUTFITS,            \* the outfits of data.jsx, the latest first
    Picks,              \* the two outfits that home proposes, as sets of ids
    BuildAtStart,       \* the outfit built at first
    Days,               \* as numbers
    MaxTimers, MaxSaves \* bounds: login timers, and outfits and items saved

Items == DOMAIN CLOSET \cup NewItems
Outfits == [id: Nat, day: Days, items: SUBSET Items]
Closets == [id: Items, cat: Cats]

ASSUME PrototypeAssumption ==
    /\ Slots = Cats \ {Outer} /\ Outer \in Cats /\ AnyCat \notin Cats
    /\ CLOSET \in [DOMAIN CLOSET -> Cats] /\ NewItems \cap DOMAIN CLOSET = {}
    /\ OUTFITS \in Seq(Outfits)
    /\ \A m, n \in DOMAIN OUTFITS : OUTFITS[m].id = OUTFITS[n].id => m = n
    /\ \A n \in DOMAIN OUTFITS : OUTFITS[n].id \in 1..Len(OUTFITS)
    /\ Picks \subseteq SUBSET DOMAIN CLOSET
    /\ BuildAtStart \in [Slots -> DOMAIN CLOSET \cup {None}]
    /\ \A s \in Slots : BuildAtStart[s] # None => CLOSET[BuildAtStart[s]] = s
    /\ None \notin Items \cup Outfits \cup Cats /\ Days \subseteq Nat
    /\ MaxTimers \in Nat /\ MaxSaves \in Nat

VARIABLES
    loggedIn, pin, entering,        \* digits typed, login timers that are on
    tab, cat,                       \* the tab, and the category of the closet's
    closet,                         \* what was added to CLOSET, the latest first
    outfits, build,
    openItem, openOutfit, openAdd,  \* what is open; openAdd holds the form
    pickerCat,
    today, saves

\* History, read by no step.
VARIABLE recorded                   \* the outfit recorded last

loginVars     == <<loggedIn, pin, entering>>
tabVars       == <<tab, cat>>
openVars      == <<openItem, openOutfit, openAdd, pickerCat>>
logVars       == <<outfits, recorded>>
prototypeVars == <<loginVars, tabVars, openVars, logVars, closet, build, today, saves>>

PrototypeInit ==
    /\ loggedIn = FALSE /\ pin = 0 /\ entering = 0
    /\ tab = "home" /\ cat = AnyCat /\ closet = <<>>
    /\ outfits = OUTFITS /\ recorded = None
    /\ build = [c \in Cats |-> IF c = Outer THEN None ELSE BuildAtStart[c]]
    /\ openItem = None /\ openOutfit = None /\ openAdd = None /\ pickerCat = None
    /\ today \in Days /\ saves = 0

\* byIdInCloset: the first item found.
CatOf(i) ==
    LET added == {n \in DOMAIN closet : closet[n].id = i}
    IN  IF added = {} THEN CLOSET[i]
        ELSE closet[CHOOSE n \in added : \A m \in added : n <= m].cat
InCloset == DOMAIN CLOSET \cup {closet[n].id : n \in DOMAIN closet}
OfCat(c) == {i \in DOMAIN CLOSET : CLOSET[i] = c}
                \cup {closet[n].id : n \in {m \in DOMAIN closet : closet[m].cat = c}}

Uncovered == loggedIn /\ openItem = None /\ openOutfit = None
                /\ openAdd = None /\ pickerCat = None
On(t) == Uncovered /\ tab = t

----------------------------------------------------------------------------
(* Login                                                                   *)

\* The sixth digit starts a timer of 220 ms, which a deletion does not stop.
Digit ==
    /\ ~loggedIn /\ pin < 6 /\ pin' = pin + 1
    /\ pin = 5 => entering < MaxTimers
    /\ entering' = IF pin = 5 THEN entering + 1 ELSE entering
    /\ UNCHANGED <<loggedIn, tabVars, openVars, logVars, closet, build, today, saves>>

DeleteDigit ==
    /\ ~loggedIn /\ pin > 0 /\ pin' = pin - 1
    /\ UNCHANGED <<loggedIn, entering, tabVars, openVars, logVars, closet, build, today, saves>>

\* The fingerprint enters 360 ms later, too.
Bio ==
    /\ ~loggedIn /\ entering < MaxTimers /\ entering' = entering + 1
    /\ UNCHANGED <<loggedIn, pin, tabVars, openVars, logVars, closet, build, today, saves>>

\* onEnter by a timer, which outlives the login screen, or by "sign up".
Enter(by) ==
    /\ IF by = "timer" THEN entering > 0 /\ entering' = entering - 1
                       ELSE ~loggedIn /\ UNCHANGED entering
    /\ loggedIn' = TRUE /\ pin' = 0
    /\ UNCHANGED <<tabVars, openVars, logVars, closet, build, today, saves>>

Logout ==
    /\ On("me") /\ loggedIn' = FALSE
    /\ UNCHANGED <<pin, entering, tabVars, openVars, logVars, closet, build, today, saves>>

----------------------------------------------------------------------------
(* Tabs, and what opens over them                                          *)

Tab(t) ==
    /\ Uncovered /\ tab' = t
    /\ UNCHANGED <<loginVars, cat, openVars, logVars, closet, build, today, saves>>

\* Home's categories and the closet's chips.
Category(c) ==
    /\ (On("home") /\ c \in Cats) \/ On("closet")
    /\ cat' = c /\ tab' = "closet"
    /\ UNCHANGED <<loginVars, openVars, logVars, closet, build, today, saves>>

OpenItem(i) ==
    /\ On("closet") /\ (IF cat = AnyCat THEN i \in InCloset ELSE i \in OfCat(cat))
    /\ openItem' = i
    /\ UNCHANGED <<loginVars, tabVars, openOutfit, openAdd, pickerCat, logVars,
                   closet, build, today, saves>>

\* The first outfit of a day, as its cell in the calendar shows it.
OnDay(d) ==
    LET at == {n \in DOMAIN outfits : outfits[n].day = d}
    IN  IF at = {} THEN None ELSE outfits[CHOOSE n \in at : \A m \in at : n <= m]

\* A card of home's five, a row of the log or a cell of its calendar.
OpenOutfit(o) ==
    /\ \/ On("home") /\ \E n \in DOMAIN outfits : n <= 5 /\ o = outfits[n]
       \/ On("log") /\ ((\E n \in DOMAIN outfits : o = outfits[n]) \/ \E d \in Days : o = OnDay(d))
    /\ o # None /\ openOutfit' = o
    /\ UNCHANGED <<loginVars, tabVars, openItem, openAdd, pickerCat, logVars,
                   closet, build, today, saves>>

OpenAdd ==
    /\ Uncovered /\ openAdd' = [step |-> "photo", photoTaken |-> FALSE]
    /\ UNCHANGED <<loginVars, tabVars, openItem, openOutfit, pickerCat, logVars,
                   closet, build, today, saves>>

OpenPicker(s) ==
    /\ On("build") /\ s \in Slots /\ pickerCat' = s
    /\ UNCHANGED <<loginVars, tabVars, openItem, openOutfit, openAdd, logVars,
                   closet, build, today, saves>>

CloseAll == openItem' = None /\ openOutfit' = None /\ openAdd' = None /\ pickerCat' = None

Close ==
    /\ loggedIn /\ ~Uncovered /\ CloseAll
    /\ UNCHANGED <<loginVars, tabVars, logVars, closet, build, today, saves>>

----------------------------------------------------------------------------
(* Building an outfit                                                      *)

\* wearOutfit: an outer garment stands in for a missing top.
Wear(items) ==
    LET of(s) == {i \in items : CatOf(i) = s}
        outer == of(Outer)
    IN  /\ On("home") /\ tab' = "build"
        /\ build' = [c \in Cats |->
               IF c = Outer THEN None
               ELSE IF of(c) # {} THEN CHOOSE i \in of(c) : TRUE
               ELSE IF c = "TOP" /\ outer # {} THEN CHOOSE i \in outer : TRUE
               ELSE None]
        /\ UNCHANGED <<loginVars, cat, openVars, logVars, closet, today, saves>>

SlotByPosition(i) == "TOP"          \* mutant: every item goes into the first slot
SlotFor(i) == CatOf(i)

\* onMake: the open item goes into its slot; an outer garment into one that
\* is neither shown nor saved.
Make ==
    /\ loggedIn /\ openItem # None
    /\ build' = [build EXCEPT ![SlotFor(openItem)] = openItem]
    /\ tab' = "build" /\ CloseAll
    /\ UNCHANGED <<loginVars, cat, logVars, closet, today, saves>>

\* An item of the category, or none if the slot holds one.
Pick(i) ==
    /\ loggedIn /\ pickerCat # None
    /\ IF i = None THEN build[pickerCat] # None ELSE i \in OfCat(pickerCat)
    /\ build' = [build EXCEPT ![pickerCat] = i]
    /\ CloseAll
    /\ UNCHANGED <<loginVars, tabVars, logVars, closet, today, saves>>

----------------------------------------------------------------------------
(* Recording                                                               *)

Counted == saves < MaxSaves /\ saves' = saves + 1

RecordLast(items) ==                \* mutant: the latest comes last
    LET o == [id |-> Len(outfits) + 1, day |-> today, items |-> items]
    IN  outfits' = Append(outfits, o) /\ recorded' = o
Record(items) ==
    LET o == [id |-> Len(outfits) + 1, day |-> today, items |-> items]
    IN  outfits' = <<o>> \o outfits /\ recorded' = o

\* onSave; an empty outfit only gets a toast.
SaveBuild ==
    /\ On("build") /\ Counted
    /\ LET items == {build[s] : s \in Slots} \ {None}
       IN  items # {} /\ Record(items)
    /\ tab' = "log"
    /\ UNCHANGED <<loginVars, cat, openVars, closet, build, today>>

WearAgain ==
    /\ loggedIn /\ openOutfit # None /\ Counted
    /\ Record(openOutfit.items) /\ CloseAll
    /\ UNCHANGED <<loginVars, tabVars, closet, build, today>>

\* The form: the photo can be taken back, the details ask for one.
AddStep ==
    /\ loggedIn /\ openAdd # None /\ openAdd.step = "photo"
    /\ openAdd' \in {[openAdd EXCEPT !.photoTaken = ~@], [openAdd EXCEPT !.photoTaken = TRUE]}
                    \cup (IF openAdd.photoTaken THEN {[openAdd EXCEPT !.step = "details"]} ELSE {})
    /\ UNCHANGED <<loginVars, tabVars, openItem, openOutfit, pickerCat, logVars,
                   closet, build, today, saves>>

\* The id is drawn at random, and may be that of an item added before.
AddItem(i, c) ==
    /\ loggedIn /\ openAdd # None /\ openAdd.step = "details" /\ Counted
    /\ i \in NewItems
    /\ closet' = <<[id |-> i, cat |-> c]>> \o closet /\ CloseAll
    /\ UNCHANGED <<loginVars, tabVars, logVars, build, today>>

Midnight ==
    /\ today' = today + 1 /\ today' \in Days
    /\ UNCHANGED <<loginVars, tabVars, openVars, logVars, closet, build, saves>>

PrototypeNext ==
    \/ Digit \/ DeleteDigit \/ Bio \/ Enter("timer") \/ Enter("signup") \/ Logout
    \/ \E t \in {"home", "closet", "log", "me"} : Tab(t)
    \/ \E c \in Cats \cup {AnyCat} : Category(c) \/ OpenPicker(c)
    \/ \E i \in Items : OpenItem(i) \/ Pick(i) \/ \E c \in Cats : AddItem(i, c)
    \/ \E n \in DOMAIN outfits : OpenOutfit(outfits[n])
    \/ \E items \in Picks : Wear(items)
    \/ OpenAdd \/ Close \/ Make \/ Pick(None) \/ SaveBuild \/ WearAgain \/ AddStep \/ Midnight

----------------------------------------------------------------------------
(* Properties                                                              *)

PrototypeTypeOK ==
    /\ loggedIn \in BOOLEAN /\ pin \in 0..6 /\ entering \in 0..MaxTimers
    /\ tab \in {"home", "closet", "build", "log", "me"} /\ cat \in Cats \cup {AnyCat}
    /\ closet \in Seq(Closets) /\ outfits \in Seq(Outfits)
    /\ build \in [Cats -> Items \cup {None}]
    /\ openItem \in Items \cup {None} /\ openOutfit \in Outfits \cup {None}
    /\ openAdd \in [step: {"photo", "details"}, photoTaken: BOOLEAN] \cup {None}
    /\ pickerCat \in Slots \cup {None} /\ recorded \in Outfits \cup {None}
    /\ today \in Days /\ saves \in 0..MaxSaves

\* Ids that two added items have drawn.
DrawnTwice == {i \in NewItems : \E m, n \in DOMAIN closet :
                    m # n /\ closet[m].id = i /\ closet[n].id = i}

\* A slot holds the id of an item of the closet of its category, or for the top
\* of an outer garment, and shows that item.  Left out: what is shown for an id
\* that two items have drawn, which is the newer one, of whatever category.
SlotsFit ==
    \A s \in Cats : build[s] # None =>
        \E c \in IF s = "TOP" THEN {s, Outer} ELSE {s} :
            /\ build[s] \in OfCat(c)
            /\ build[s] \notin DrawnTwice => CatOf(build[s]) = c

\* The outfit recorded last is what the calendar opens for its day, and no
\* other has its id.
RecordedIsFound ==
    /\ recorded # None => OnDay(recorded.day) = recorded
    /\ \A m, n \in DOMAIN outfits : outfits[m].id = outfits[n].id => m = n
=============================================================================

--------------------------- MODULE AccountsProofs ---------------------------
(***************************************************************************)
(* Proofs about Accounts, for every set of accounts and numbers, any       *)
(* finite number of requests in flight and any limits: what every request  *)
(* carries, the types, and the properties of accounts and PINs.            *)
(***************************************************************************)
EXTENDS Accounts, FiniteSetTheorems, TLAPS

----------------------------------------------------------------------------
(* The inductive invariant                                                 *)

\* o is a table of codes and u a table of accounts; q is a request.
KnownRow(r, o) == r \in Rows /\ o[r].phone # None
KnownUser(v, u) == v \in Users /\ u[v].phone # None

\* What a request carries at each place of its code, by its operation.
SendFits(q, o) == q.op = "send" =>
    /\ q.pc \in {"findRecent", "createOtp", "sms"}
    /\ q.phone \in Phones /\ q.purpose \in Purposes
    /\ q.next = None /\ q.user = None
    /\ q.pc = "sms" => KnownRow(q.row, o)

VerifyFits(q, o) == q.op = "verify" =>
    /\ q.pc \in {"verRead", "verWrong", "verConsume", "verUser"}
    /\ KnownRow(q.row, o) /\ q.purpose = o[q.row].purpose
    /\ q.next = None /\ q.user = None

SignupFits(q, o, u) == q.op = "signup" =>
    /\ q.pc \in {"consRead", "consWrite", "entered", "signCreate", "issue"}
    /\ KnownRow(q.row, o) /\ q.next = None
    /\ q.phone = o[q.row].phone /\ o[q.row].purpose = "SIGNUP"
    /\ q.pc \in {"entered", "signCreate"} => o[q.row].entered > 0
    /\ IF q.pc = "issue" THEN KnownUser(q.user, u) ELSE q.user = None

ResetFits(q, o, u) == q.op = "reset" =>
    /\ q.pc \in {"consRead", "consWrite", "entered", "revokeAll", "issue"}
    /\ KnownRow(q.row, o) /\ q.next = None
    /\ KnownUser(q.user, u)

ChangeFits(q, o, u) == q.op = "change" =>
    /\ q.pc \in {"consRead", "consWrite", "entered", "chgDup", "chgWrite", "revokeAll"}
    /\ KnownRow(q.row, o)
    /\ q.next # None => KnownRow(q.next, o) /\ q.pc \in {"consRead", "consWrite"}
    /\ LET r == IF q.next = None THEN q.row ELSE q.next IN
       q.phone = o[r].phone /\ o[r].purpose = "PHONE_CHANGE"
    /\ q.pc \in {"entered", "chgDup", "chgWrite"} => o[q.row].entered > 0
    /\ q.user # None => KnownUser(q.user, u)
    /\ q.pc \in {"chgDup", "chgWrite", "revokeAll"} => q.user # None

LoginFits(q, u) == q.op = "login" =>
    /\ q.pc \in {"logFind", "pinRead", "pinRight", "pinWrong", "issue"}
    /\ q.row = None /\ q.next = None /\ q.phone \in Phones
    /\ IF q.pc = "logFind" THEN q.user = None ELSE KnownUser(q.user, u)

RefreshFits(q, u) == q.op = "refresh" =>
    /\ q.pc \in {"rotRead", "rotRevoke", "revokeAll", "issue"}
    /\ q.row = None /\ q.next = None
    /\ KnownUser(q.user, u)

Fits(q, o, u) ==
    /\ q.op = None => q = NoRequest
    /\ SendFits(q, o) /\ VerifyFits(q, o)
    /\ SignupFits(q, o, u) /\ ResetFits(q, o, u) /\ ChangeFits(q, o, u)
    /\ LoginFits(q, u) /\ RefreshFits(q, u)

\* A signed session says what its row says, of an account that exists.
SessionFits(s, o, u) ==
    /\ KnownRow(s.row, o)
    /\ s.phone = o[s.row].phone /\ s.purpose = o[s.row].purpose
    /\ s.user # None => KnownUser(s.user, u)

AllFit ==
    /\ \A h \in Handlers : Fits(req[h], otp, user)
    /\ \A s \in session : SessionFits(s, otp, user)

\* What was never written is empty.
Blank ==
    /\ \A r \in Rows : otp[r].phone = None => otp[r] = NoRow
    /\ \A r \in Rows : otp[r].phone # None => otp[r].purpose \in Purposes
    /\ \A u \in Users : user[u].phone = None => user[u] = NoUser

\* Every code that is on its way has a row left for it.
ToWrite == {h \in Handlers : req[h].pc \in {"findRecent", "createOtp"}}
Capacity == \E n \in 0..MaxRows :
    /\ Written = 1..n
    /\ n + Cardinality(ToWrite) <= Len(world.codes)

BaseInv == AccountTypeOK /\ AllFit /\ Blank /\ Capacity

\* A step loses no row and no account, and undoes no use of a session.
Grows(o, u, p, v) ==
    /\ \A r \in Rows : o[r].phone # None =>
            p[r].phone = o[r].phone /\ p[r].purpose = o[r].purpose /\ p[r].entered >= o[r].entered
    /\ \A x \in Users : u[x].phone # None => v[x].phone # None

----------------------------------------------------------------------------
(* Types of the empty values                                               *)

LEMMA NoneIsNothing ==
    /\ None \notin Rows /\ None \notin Users /\ None \notin Phones
    /\ None \notin Operations /\ None \notin Purposes
  BY RequestAssumption DEF Rows

LEMMA EmptyTypes ==
    /\ NoRequest \in Request /\ NoRow \in OtpRow /\ NoUser \in UserRow
  <1>1. NoRequest \in Request
    BY DEF NoRequest, Request, ReqPC
  <1>2. NoRow \in OtpRow
    BY DEF NoRow, OtpRow
  <1>3. NoUser \in UserRow
    BY DEF NoUser, UserRow
  <1>. QED
    BY <1>1, <1>2, <1>3

LEMMA EmptyFields ==
    /\ NoRequest.pc = "idle" /\ NoRequest.op = None /\ NoRequest.row = None
    /\ NoRequest.next = None /\ NoRequest.user = None /\ NoRequest.phone = None
    /\ NoRow.phone = None /\ NoUser.phone = None /\ NoUser.locked = 0
  BY DEF NoRequest, NoRow, NoUser

LEMMA NoRequestFits ==
    ASSUME NEW o, NEW u
    PROVE  Fits(NoRequest, o, u)
  BY NoneIsNothing, EmptyFields DEF Fits, SendFits, VerifyFits, SignupFits, ResetFits,
     ChangeFits, LoginFits, RefreshFits, Operations

\* What fits the tables fits them as they grow.
LEMMA FitsGrows ==
    ASSUME NEW o \in [Rows -> OtpRow], NEW u \in [Users -> UserRow],
           NEW p \in [Rows -> OtpRow], NEW v \in [Users -> UserRow],
           Grows(o, u, p, v), NEW q, Fits(q, o, u)
    PROVE  Fits(q, p, v)
  <1>1. ASSUME NEW r, KnownRow(r, o)
        PROVE  /\ KnownRow(r, p) /\ p[r].phone = o[r].phone /\ p[r].purpose = o[r].purpose
               /\ o[r].entered > 0 => p[r].entered > 0
    BY <1>1 DEF Grows, KnownRow, OtpRow
  <1>2. ASSUME NEW x, KnownUser(x, u)
        PROVE  KnownUser(x, v)
    BY <1>2 DEF Grows, KnownUser
  <1>3. SendFits(q, p) /\ VerifyFits(q, p) /\ LoginFits(q, v) /\ RefreshFits(q, v)
    BY <1>1, <1>2 DEF Fits, SendFits, VerifyFits, LoginFits, RefreshFits
  <1>4. SignupFits(q, p, v) /\ ResetFits(q, p, v)
    BY <1>1, <1>2 DEF Fits, SignupFits, ResetFits
  <1>5. ChangeFits(q, p, v)
    BY <1>1, <1>2 DEF Fits, ChangeFits
  <1>. QED
    BY <1>3, <1>4, <1>5 DEF Fits

LEMMA SessionFitsGrows ==
    ASSUME NEW o \in [Rows -> OtpRow], NEW u \in [Users -> UserRow],
           NEW p \in [Rows -> OtpRow], NEW v \in [Users -> UserRow],
           Grows(o, u, p, v), NEW s, SessionFits(s, o, u)
    PROVE  SessionFits(s, p, v)
  BY DEF Grows, SessionFits, KnownRow, KnownUser

----------------------------------------------------------------------------
(* What the steps do to the requests                                       *)

\* Only the request of h changes.
Others(h) == \A g \in Handlers \ {h} : req'[g] = req[g]

\* What no step changes once it is set.
Named(q, x) == x.op = q.op /\ x.phone = q.phone /\ x.purpose = q.purpose
                 /\ x.at = q.at /\ x.shared = q.shared

LEMMA RequestTypes ==
    ASSUME req \in [Handlers -> Request], NEW h \in Handlers
    PROVE  /\ req[h] \in Request /\ req[h].pc \in ReqPC
           /\ req[h].op \in Operations \cup {None} /\ req[h].row \in Rows \cup {None}
           /\ req[h].next \in Rows \cup {None} /\ req[h].phone \in Phones \cup {None}
           /\ req[h].purpose \in Purposes \cup {None} /\ req[h].user \in Users \cup {None}
           /\ req[h].seen \in Nat /\ req[h].at \in Nat /\ req[h].guess \in Nat
           /\ req[h].shared \in BOOLEAN
  <1>1. req[h] \in Request
    OBVIOUS
  <1>. QED
    BY <1>1 DEF Request

LEMMA PlaceOfStep ==
    ASSUME NEW h \in Handlers, NEW q \in Request, req' = [req EXCEPT ![h] = q],
           req \in [Handlers -> Request]
    PROVE  /\ req' \in [Handlers -> Request] /\ Others(h) /\ req'[h] = q
  BY DEF Others

LEMMA ToEffect ==
    ASSUME req \in [Handlers -> Request], NEW h \in Handlers, NEW p \in ReqPC, To(h, p)
    PROVE  /\ req' \in [Handlers -> Request] /\ Others(h)
           /\ req'[h].pc = p /\ Named(req[h], req'[h])
           /\ req'[h].row = req[h].row /\ req'[h].next = req[h].next
           /\ req'[h].user = req[h].user /\ req'[h].seen = req[h].seen
           /\ req'[h].guess = req[h].guess
  <1>. DEFINE q == [req[h] EXCEPT !.pc = p]
  <1>1. req[h] \in Request
    OBVIOUS
  <1>2. /\ q \in Request /\ q.pc = p /\ Named(req[h], q)
        /\ q.row = req[h].row /\ q.next = req[h].next
        /\ q.user = req[h].user /\ q.seen = req[h].seen
        /\ q.guess = req[h].guess
    BY <1>1 DEF Request, Named
  <1>3. req' = [req EXCEPT ![h] = q]
    BY DEF To
  <1>. HIDE DEF q
  <1>. QED
    BY <1>2, <1>3, PlaceOfStep

LEMMA AnswerEffect ==
    ASSUME req \in [Handlers -> Request], NEW h \in Handlers, Answer(h)
    PROVE  /\ req' \in [Handlers -> Request] /\ Others(h) /\ req'[h] = NoRequest
           /\ req'[h].pc = "idle" /\ req'[h].op = None /\ req'[h].row = None
           /\ req'[h].next = None /\ req'[h].user = None
  BY EmptyTypes, EmptyFields, PlaceOfStep DEF Answer

LEMMA ArriveEffect ==
    ASSUME req \in [Handlers -> Request], NEW h \in Handlers, NEW q \in Request,
           Arrive(h, q)
    PROVE  /\ req' \in [Handlers -> Request] /\ Others(h) /\ req'[h] = q
           /\ req[h].pc = "idle" /\ q.op \in world.ops
  BY PlaceOfStep DEF Arrive, Busy

LEMMA IdleIsEmpty ==
    ASSUME AccountTypeOK, AllFit, NEW h \in Handlers, req[h].pc = "idle"
    PROVE  req[h] = NoRequest /\ req[h].op = None /\ req[h].row = None /\ req[h].next = None
             /\ req[h].user = None
  <1>1. req[h].op \in Operations \cup {None} /\ Fits(req[h], otp, user)
    BY RequestTypes DEF AccountTypeOK, RequestTypeOK, AllFit
  <1>2. req[h].op = None
    BY <1>1 DEF Operations, Fits, SendFits, VerifyFits, SignupFits, ResetFits, ChangeFits,
       LoginFits, RefreshFits
  <1>. QED
    BY <1>1, <1>2, EmptyFields DEF Fits

LEMMA SeenEffect ==                 \* VerRead, PinRead
    ASSUME req \in [Handlers -> Request], NEW h \in Handlers, NEW p \in ReqPC, NEW n \in Nat,
           req' = [req EXCEPT ![h].seen = n, ![h].pc = p]
    PROVE  /\ req' \in [Handlers -> Request] /\ Others(h)
           /\ req'[h].pc = p /\ Named(req[h], req'[h]) /\ req'[h].seen = n
           /\ req'[h].row = req[h].row /\ req'[h].next = req[h].next
           /\ req'[h].user = req[h].user /\ req'[h].guess = req[h].guess
  <1>. DEFINE q == [req[h] EXCEPT !.seen = n, !.pc = p]
  <1>1. req[h] \in Request
    OBVIOUS
  <1>2. /\ q \in Request /\ q.pc = p /\ Named(req[h], q) /\ q.seen = n
        /\ q.row = req[h].row /\ q.next = req[h].next
        /\ q.user = req[h].user /\ q.guess = req[h].guess
    BY <1>1 DEF Request, Named
  <1>3. req' = [req EXCEPT ![h] = q]
    OBVIOUS
  <1>. HIDE DEF q
  <1>. QED
    BY <1>2, <1>3, PlaceOfStep

\* The same request but for the mark of an overlap.
Alike(q, x) == /\ x.pc = q.pc /\ x.op = q.op /\ x.row = q.row /\ x.next = q.next
               /\ x.phone = q.phone /\ x.purpose = q.purpose /\ x.user = q.user
               /\ x.seen = q.seen /\ x.at = q.at /\ x.guess = q.guess

\* The request of a new send, and the mark on those it meets.
NewSend(h, p, k) == [NoRequest EXCEPT !.pc = "findRecent", !.op = "send", !.phone = p,
                                      !.purpose = k, !.at = now, !.shared = Sending(p) # {}]

LEMMA SendOtpEffect ==
    ASSUME req \in [Handlers -> Request], now \in Nat,
           NEW h \in Handlers, NEW p \in Phones, NEW k \in Purposes, SendOtp(h, p, k)
    PROVE  /\ req' \in [Handlers -> Request]
           /\ req[h].pc = "idle"
           /\ req'[h].pc = "findRecent" /\ req'[h].op = "send" /\ req'[h].phone = p
           /\ req'[h].purpose = k /\ req'[h].at = now /\ (req'[h].shared <=> Sending(p) # {})
           /\ req'[h].row = None /\ req'[h].next = None /\ req'[h].user = None
           /\ \A g \in Handlers \ {h} :
                /\ g \notin Sending(p) => req'[g] = req[g]
                /\ g \in Sending(p) => req'[g].shared
                /\ Alike(req[g], req'[g])
                /\ req[g].shared => req'[g].shared
  <1>. DEFINE new == NewSend(h, p, k)
              mark(g) == [req[g] EXCEPT !.shared = TRUE]
  <1>1. /\ new \in Request /\ new.pc = "findRecent" /\ new.op = "send" /\ new.phone = p
        /\ new.purpose = k /\ new.at = now /\ (new.shared <=> Sending(p) # {})
        /\ new.row = None /\ new.next = None /\ new.user = None
    BY DEF NewSend, NoRequest, Request, ReqPC, Operations
  <1>2. ASSUME NEW g \in Handlers
        PROVE  /\ mark(g) \in Request /\ mark(g).shared = TRUE
               /\ Alike(req[g], mark(g))
    <2>1. req[g] \in Request
      OBVIOUS
    <2>. QED
      BY <2>1 DEF Request, Alike
  <1>3. req' = [g \in Handlers |-> IF g = h THEN new
                                   ELSE IF g \in Sending(p) THEN mark(g) ELSE req[g]]
    BY DEF SendOtp, NewSend
  <1>4. req[h].pc = "idle"
    BY DEF SendOtp, Busy
  <1>5. \A g \in Handlers \ {h} : req'[g] = IF g \in Sending(p) THEN mark(g) ELSE req[g]
    BY <1>3
  <1>6. req'[h] = new
    BY <1>3
  <1>7. \A g \in Handlers : req[g] \in Request
    OBVIOUS
  <1>. HIDE DEF new
  <1>8. req' \in [Handlers -> Request]
    <2>. DEFINE to(g) == IF g = h THEN new ELSE IF g \in Sending(p) THEN mark(g) ELSE req[g]
    <2>1. ASSUME NEW g \in Handlers PROVE to(g) \in Request
      BY <1>1, <1>2, <1>7
    <2>2. req' = [g \in Handlers |-> to(g)]
      BY <1>3
    <2>. HIDE DEF to
    <2>. QED
      BY <2>1, <2>2
  <1>9. ASSUME NEW g \in Handlers \ {h}
        PROVE  /\ g \notin Sending(p) => req'[g] = req[g]
               /\ g \in Sending(p) => req'[g].shared
               /\ Alike(req[g], req'[g])
               /\ req[g].shared => req'[g].shared
    <2>1. CASE g \in Sending(p)
      <3>1. req'[g] = mark(g)
        BY <1>5, <2>1
      <3>. QED
        BY <1>2, <3>1, <2>1
    <2>2. CASE g \notin Sending(p)
      BY <1>5, <2>2 DEF Alike
    <2>. QED
      BY <2>1, <2>2
  <1>. HIDE DEF mark
  <1>10. /\ req'[h].pc = "findRecent" /\ req'[h].op = "send" /\ req'[h].phone = p
         /\ req'[h].purpose = k /\ req'[h].at = now /\ (req'[h].shared <=> Sending(p) # {})
         /\ req'[h].row = None /\ req'[h].next = None /\ req'[h].user = None
    BY <1>1, <1>6
  <1>. QED
    BY <1>4, <1>8, <1>9, <1>10

----------------------------------------------------------------------------
(* What the steps do to the codes                                          *)

\* Only row r changes.
OtherRows(r) == \A s \in Rows \ {r} : otp'[s] = otp[s]

\* What a row is, how it was checked, and how its session was used.
SameCode(a, b)  == /\ b.phone = a.phone /\ b.purpose = a.purpose
                   /\ b.created = a.created /\ b.raced = a.raced
SameChecks(a, b) == /\ b.consumed = a.consumed /\ b.attempts = a.attempts
                    /\ b.wrong = a.wrong /\ b.right = a.right
SameUses(a, b)  == b.used = a.used /\ b.entered = a.entered

LEMMA PlaceOfRow ==
    ASSUME otp \in [Rows -> OtpRow], NEW r \in Rows, NEW row \in OtpRow,
           otp' = [otp EXCEPT ![r] = row]
    PROVE  otp' \in [Rows -> OtpRow] /\ OtherRows(r) /\ otp'[r] = row
  BY DEF OtherRows

LEMMA SentEffect ==
    ASSUME otp \in [Rows -> OtpRow], NEW r \in Rows, NEW sent \in BOOLEAN,
           otp' = [otp EXCEPT ![r].sent = sent]
    PROVE  /\ otp' \in [Rows -> OtpRow] /\ OtherRows(r)
           /\ SameCode(otp[r], otp'[r]) /\ SameChecks(otp[r], otp'[r])
           /\ SameUses(otp[r], otp'[r]) /\ otp'[r].shared = otp[r].shared
  <1>. DEFINE row == [otp[r] EXCEPT !.sent = sent]
  <1>1. otp[r] \in OtpRow
    OBVIOUS
  <1>2. /\ row \in OtpRow /\ SameCode(otp[r], row) /\ SameChecks(otp[r], row)
        /\ SameUses(otp[r], row) /\ row.shared = otp[r].shared
    BY <1>1 DEF OtpRow, SameCode, SameChecks, SameUses
  <1>3. otp' = [otp EXCEPT ![r] = row]
    OBVIOUS
  <1>. HIDE DEF row
  <1>. QED
    BY <1>2, <1>3, PlaceOfRow

LEMMA SharedEffect ==               \* VerifyOtp
    ASSUME otp \in [Rows -> OtpRow], NEW r \in Rows, NEW meets \in BOOLEAN,
           otp' = [otp EXCEPT ![r].shared = @ \/ meets]
    PROVE  /\ otp' \in [Rows -> OtpRow] /\ OtherRows(r)
           /\ SameCode(otp[r], otp'[r]) /\ SameChecks(otp[r], otp'[r])
           /\ SameUses(otp[r], otp'[r]) /\ (otp'[r].shared <=> otp[r].shared \/ meets)
  <1>. DEFINE mark == otp[r].shared \/ meets
              row == [otp[r] EXCEPT !.shared = mark]
  <1>1. otp[r] \in OtpRow
    OBVIOUS
  <1>2. mark \in BOOLEAN
    BY <1>1 DEF OtpRow
  <1>3. otp' = [otp EXCEPT ![r] = row]
    OBVIOUS
  <1>4. mark <=> otp[r].shared \/ meets
    OBVIOUS
  <1>. HIDE DEF mark
  <1>5. /\ row \in OtpRow /\ SameCode(otp[r], row) /\ SameChecks(otp[r], row)
        /\ SameUses(otp[r], row) /\ row.shared = mark
    BY <1>1, <1>2 DEF OtpRow, SameCode, SameChecks, SameUses
  <1>. HIDE DEF row
  <1>6. otp' \in [Rows -> OtpRow] /\ OtherRows(r) /\ otp'[r] = row
    BY <1>3, <1>5, PlaceOfRow
  <1>. QED
    BY <1>4, <1>5, <1>6

LEMMA AttemptEffect ==
    ASSUME otp \in [Rows -> OtpRow], req \in [Handlers -> Request],
           NEW h \in Handlers, req[h].row \in Rows, WriteAttempt(h)
    PROVE  LET r == req[h].row IN
           /\ otp' \in [Rows -> OtpRow] /\ OtherRows(r)
           /\ SameCode(otp[r], otp'[r]) /\ SameUses(otp[r], otp'[r])
           /\ otp'[r].shared = otp[r].shared /\ otp'[r].right = otp[r].right
           /\ otp'[r].attempts = req[h].seen + 1
           /\ (otp'[r].consumed <=> req[h].seen + 1 >= AttemptLimit)
           /\ ~otp[r].shared => otp'[r].wrong = otp[r].wrong + 1
  <1>. DEFINE r == req[h].row
              n == req[h].seen + 1
              last == WillLock(n)
              wrong == IF otp[r].shared THEN otp[r].wrong ELSE otp[r].wrong + 1
              row == [otp[r] EXCEPT !.attempts = n, !.consumed = last, !.wrong = wrong]
  <1>1. otp[r] \in OtpRow
    OBVIOUS
  <1>2. /\ n \in Nat /\ last \in BOOLEAN /\ wrong \in Nat /\ (last <=> n >= AttemptLimit)
        /\ ~otp[r].shared => wrong = otp[r].wrong + 1
    BY <1>1, RequestTypes DEF OtpRow, WillLock
  <1>3. otp' = [otp EXCEPT ![r] = row]
    BY DEF WriteAttempt
  <1>. HIDE DEF wrong, last, n
  <1>4. /\ row \in OtpRow /\ SameCode(otp[r], row) /\ SameUses(otp[r], row)
        /\ row.shared = otp[r].shared /\ row.right = otp[r].right
        /\ row.attempts = n /\ row.consumed = last /\ row.wrong = wrong
    BY <1>1, <1>2 DEF OtpRow, SameCode, SameUses
  <1>. HIDE DEF row
  <1>5. otp' \in [Rows -> OtpRow] /\ OtherRows(r) /\ otp'[r] = row
    BY <1>3, <1>4, PlaceOfRow
  <1>. QED
    BY <1>2, <1>4, <1>5 DEF n

LEMMA ConsumeEffect ==
    ASSUME otp \in [Rows -> OtpRow], req \in [Handlers -> Request],
           NEW h \in Handlers, req[h].row \in Rows, ConsumeCode(h)
    PROVE  LET r == req[h].row IN
           /\ otp' \in [Rows -> OtpRow] /\ OtherRows(r)
           /\ SameCode(otp[r], otp'[r]) /\ SameUses(otp[r], otp'[r])
           /\ otp'[r].shared = otp[r].shared /\ otp'[r].wrong = otp[r].wrong
           /\ otp'[r].attempts = otp[r].attempts /\ otp'[r].consumed
           /\ ~otp[r].shared => otp'[r].right = otp[r].right + 1
  <1>. DEFINE r == req[h].row
              right == IF otp[r].shared THEN otp[r].right ELSE otp[r].right + 1
              row == [otp[r] EXCEPT !.consumed = TRUE, !.right = right]
  <1>1. otp[r] \in OtpRow
    OBVIOUS
  <1>2. ~otp[r].shared => right = otp[r].right + 1
    OBVIOUS
  <1>3. otp' = [otp EXCEPT ![r] = row]
    BY DEF ConsumeCode
  <1>4. right \in Nat
    BY <1>1 DEF OtpRow
  <1>. HIDE DEF right
  <1>5. /\ row \in OtpRow /\ SameCode(otp[r], row) /\ SameUses(otp[r], row)
        /\ row.shared = otp[r].shared /\ row.wrong = otp[r].wrong
        /\ row.attempts = otp[r].attempts /\ row.consumed = TRUE /\ row.right = right
    BY <1>1, <1>4 DEF OtpRow, SameCode, SameUses
  <1>. HIDE DEF row
  <1>6. otp' \in [Rows -> OtpRow] /\ OtherRows(r) /\ otp'[r] = row
    BY <1>3, <1>5, PlaceOfRow
  <1>. QED
    BY <1>2, <1>4, <1>5, <1>6

LEMMA MarkEffect ==
    ASSUME otp \in [Rows -> OtpRow], req \in [Handlers -> Request],
           NEW h \in Handlers, req[h].row \in Rows, MarkUsed(h)
    PROVE  LET r == req[h].row IN
           /\ otp' \in [Rows -> OtpRow] /\ OtherRows(r)
           /\ SameCode(otp[r], otp'[r]) /\ SameChecks(otp[r], otp'[r])
           /\ otp'[r].shared = otp[r].shared /\ otp'[r].used
           /\ otp'[r].entered = otp[r].entered + 1
  <1>. DEFINE r == req[h].row
              n == otp[r].entered + 1
              row == [otp[r] EXCEPT !.used = TRUE, !.entered = n]
  <1>1. otp[r] \in OtpRow
    OBVIOUS
  <1>2. n \in Nat
    BY <1>1 DEF OtpRow
  <1>3. otp' = [otp EXCEPT ![r] = row]
    BY DEF MarkUsed
  <1>. HIDE DEF n
  <1>4. /\ row \in OtpRow /\ SameCode(otp[r], row) /\ SameChecks(otp[r], row)
        /\ row.shared = otp[r].shared /\ row.used = TRUE /\ row.entered = n
    BY <1>1, <1>2 DEF OtpRow, SameCode, SameChecks
  <1>. HIDE DEF row
  <1>5. otp' \in [Rows -> OtpRow] /\ OtherRows(r) /\ otp'[r] = row
    BY <1>3, <1>4, PlaceOfRow
  <1>. QED
    BY <1>4, <1>5 DEF n

LEMMA UseEffect ==
    ASSUME otp \in [Rows -> OtpRow], NEW request,
           otp' = [r \in Rows |-> IF r \in {request.row, request.next} /\ Using(r) # {}
                                  THEN [otp[r] EXCEPT !.shared = TRUE] ELSE otp[r]]
    PROVE  /\ otp' \in [Rows -> OtpRow]
           /\ \A r \in Rows :
                /\ SameCode(otp[r], otp'[r]) /\ SameChecks(otp[r], otp'[r])
                /\ SameUses(otp[r], otp'[r])
                /\ r \notin {request.row, request.next} => otp'[r] = otp[r]
                /\ Using(r) = {} => otp'[r] = otp[r]
                /\ otp[r].shared => otp'[r].shared
                /\ r \in {request.row, request.next} /\ Using(r) # {} => otp'[r].shared
                /\ otp[r].phone = None => otp'[r].phone = None
  <1>. DEFINE mark(r) == [otp[r] EXCEPT !.shared = TRUE]
              chosen(r) == r \in {request.row, request.next} /\ Using(r) # {}
              to(r) == IF chosen(r) THEN mark(r) ELSE otp[r]
  <1>1. ASSUME NEW r \in Rows
        PROVE  /\ mark(r) \in OtpRow /\ SameCode(otp[r], mark(r))
               /\ SameChecks(otp[r], mark(r)) /\ SameUses(otp[r], mark(r))
               /\ mark(r).shared = TRUE
    <2>1. otp[r] \in OtpRow
      OBVIOUS
    <2>. QED
      BY <2>1 DEF OtpRow, SameCode, SameChecks, SameUses
  <1>2. ASSUME NEW r \in Rows
        PROVE  otp[r] \in OtpRow /\ SameCode(otp[r], otp[r])
               /\ SameChecks(otp[r], otp[r]) /\ SameUses(otp[r], otp[r])
    BY DEF SameCode, SameChecks, SameUses
  <1>3. otp' = [r \in Rows |-> to(r)]
    OBVIOUS
  <1>4. ASSUME NEW r \in Rows
        PROVE  /\ to(r) \in OtpRow /\ SameCode(otp[r], to(r))
               /\ SameChecks(otp[r], to(r)) /\ SameUses(otp[r], to(r))
               /\ ~chosen(r) => to(r) = otp[r]
               /\ otp[r].shared => to(r).shared
               /\ chosen(r) => to(r).shared
    <2>. HIDE DEF mark, chosen
    <2>. QED
      BY <1>1, <1>2
  <1>. HIDE DEF to
  <1>5. otp' \in [Rows -> OtpRow] /\ \A r \in Rows : otp'[r] = to(r)
    BY <1>3, <1>4
  <1>. QED
    BY <1>4, <1>5 DEF SameCode

LEMMA CapacityFacts ==
    ASSUME AccountTypeOK, Capacity
    PROVE  /\ Cardinality(Written) \in Nat /\ Written = 1..Cardinality(Written)
           /\ IsFiniteSet(ToWrite) /\ Cardinality(ToWrite) \in Nat
           /\ Cardinality(Written) + Cardinality(ToWrite) <= Len(world.codes)
           /\ Len(world.codes) <= MaxRows /\ Len(world.codes) \in Nat
  <1>1. PICK n \in 0..MaxRows : /\ Written = 1..n
                                /\ n + Cardinality(ToWrite) <= Len(world.codes)
    BY DEF Capacity
  <1>2. n \in Nat /\ Cardinality(1..n) = n
    BY RequestAssumption, FS_Interval
  <1>3. IsFiniteSet(ToWrite) /\ Cardinality(ToWrite) \in Nat
    BY RequestAssumption, FS_Subset, FS_CardinalityType DEF ToWrite
  <1>4. Len(world.codes) <= MaxRows /\ Len(world.codes) \in Nat
    BY RequestAssumption DEF AccountTypeOK, RequestTypeOK, World
  <1>. QED
    BY <1>1, <1>2, <1>3, <1>4

\* The row a send writes is the next one, and there is room for it.
LEMMA NextRow ==
    ASSUME AccountTypeOK, Blank, Capacity, NEW h \in Handlers, req[h].pc = "createOtp"
    PROVE  LET r == Cardinality(Written) + 1 IN
           r \in Rows /\ otp[r] = NoRow /\ r \notin Written /\ \A q \in Written : q < r
  <1>1. h \in ToWrite
    BY DEF ToWrite
  <1>2. Cardinality(ToWrite) >= 1
    BY <1>1, CapacityFacts, FS_EmptySet
  <1>3. Cardinality(Written) + 1 \in Rows
    BY <1>2, CapacityFacts, RequestAssumption DEF Rows
  <1>4. Cardinality(Written) + 1 \notin Written /\ \A q \in Written : q < Cardinality(Written) + 1
    BY CapacityFacts
  <1>. QED
    BY <1>3, <1>4 DEF Written, Blank

LEMMA AddRowEffect ==
    ASSUME AccountTypeOK, Blank, Capacity, NEW h \in Handlers, req[h].pc = "createOtp",
           req[h].phone \in Phones, req[h].purpose \in Purposes, AddRow(h)
    PROVE  LET r == Cardinality(Written) + 1 IN
           /\ otp' \in [Rows -> OtpRow] /\ OtherRows(r)
           /\ otp'[r].phone = req[h].phone /\ otp'[r].purpose = req[h].purpose
           /\ otp'[r].created = now /\ otp'[r].raced = req[h].shared
           /\ ~otp'[r].consumed /\ otp'[r].attempts = 0 /\ otp'[r].wrong = 0
           /\ otp'[r].right = 0 /\ ~otp'[r].used /\ otp'[r].entered = 0
           /\ Written' = Written \cup {r}
  <1>. DEFINE r == Cardinality(Written) + 1
              row == [NoRow EXCEPT !.phone = req[h].phone,
                        !.purpose = req[h].purpose, !.created = now,
                        !.expires = req[h].at + Ttl, !.raced = req[h].shared]
  <1>1. r \in Rows
    BY NextRow
  <1>2. req[h].at + Ttl \in Nat /\ req[h].shared \in BOOLEAN /\ now \in Nat
    BY RequestTypes, OtpAssumption DEF AccountTypeOK, RequestTypeOK
  <1>3. otp \in [Rows -> OtpRow] /\ otp' = [otp EXCEPT ![r] = row]
    BY DEF AddRow, AccountTypeOK, OtpTypeOK
  <1>4. /\ row \in OtpRow /\ row.phone = req[h].phone /\ row.purpose = req[h].purpose
        /\ row.created = now /\ row.raced = req[h].shared
        /\ row.consumed = FALSE /\ row.attempts = 0 /\ row.wrong = 0
        /\ row.right = 0 /\ row.used = FALSE /\ row.entered = 0
    BY <1>2 DEF OtpRow, NoRow
  <1>. HIDE DEF r, row
  <1>5. otp' \in [Rows -> OtpRow] /\ OtherRows(r) /\ otp'[r] = row
    BY <1>1, <1>3, <1>4, PlaceOfRow
  <1>6. Written' = Written \cup {r}
    BY <1>1, <1>4, <1>5, NoneIsNothing DEF Written, OtherRows
  <1>. QED
    BY <1>4, <1>5, <1>6 DEF r

----------------------------------------------------------------------------
(* What the steps do to the accounts                                       *)

OtherUsers(u) == \A v \in Users \ {u} : user'[v] = user[v]

SamePin(a, b)    == b.phone = a.phone /\ b.pin = a.pin
SameCount(a, b)  == b.failed = a.failed /\ b.locked = a.locked /\ b.streak = a.streak
SameTokens(a, b) == b.live = a.live /\ b.stray = a.stray

LEMMA PlaceOfUser ==
    ASSUME user \in [Users -> UserRow], NEW u \in Users, NEW row \in UserRow,
           user' = [user EXCEPT ![u] = row]
    PROVE  user' \in [Users -> UserRow] /\ OtherUsers(u) /\ user'[u] = row
  BY DEF OtherUsers

LEMMA RacedEffect ==                \* LogFind
    ASSUME user \in [Users -> UserRow], NEW u \in Users, NEW meets \in BOOLEAN,
           user' = [user EXCEPT ![u].raced = @ \/ meets]
    PROVE  /\ user' \in [Users -> UserRow] /\ OtherUsers(u)
           /\ SamePin(user[u], user'[u]) /\ SameCount(user[u], user'[u])
           /\ SameTokens(user[u], user'[u])
           /\ (user'[u].raced <=> user[u].raced \/ meets)
  <1>. DEFINE mark == user[u].raced \/ meets
              row == [user[u] EXCEPT !.raced = mark]
  <1>1. user[u] \in UserRow
    OBVIOUS
  <1>2. mark \in BOOLEAN
    BY <1>1 DEF UserRow
  <1>3. user' = [user EXCEPT ![u] = row]
    OBVIOUS
  <1>4. mark <=> user[u].raced \/ meets
    OBVIOUS
  <1>. HIDE DEF mark
  <1>5. /\ row \in UserRow /\ SamePin(user[u], row) /\ SameCount(user[u], row)
        /\ SameTokens(user[u], row) /\ row.raced = mark
    BY <1>1, <1>2 DEF UserRow, SamePin, SameCount, SameTokens
  <1>. HIDE DEF row
  <1>6. user' \in [Users -> UserRow] /\ OtherUsers(u) /\ user'[u] = row
    BY <1>3, <1>5, PlaceOfUser
  <1>. QED
    BY <1>4, <1>5, <1>6

LEMMA ClearEffect ==
    ASSUME user \in [Users -> UserRow], NEW h \in Handlers, req[h].user \in Users,
           ClearFailures(h)
    PROVE  LET u == req[h].user IN
           /\ user' \in [Users -> UserRow] /\ OtherUsers(u)
           /\ SamePin(user[u], user'[u]) /\ SameTokens(user[u], user'[u])
           /\ user'[u].failed = 0 /\ user'[u].locked = 0 /\ user'[u].streak = 0
           /\ user'[u].raced = user[u].raced
  <1>. DEFINE u == req[h].user
              row == [user[u] EXCEPT !.failed = 0, !.locked = 0, !.streak = 0]
  <1>1. user[u] \in UserRow
    OBVIOUS
  <1>2. user' = [user EXCEPT ![u] = row]
    BY DEF ClearFailures
  <1>3. /\ row \in UserRow /\ SamePin(user[u], row) /\ SameTokens(user[u], row)
        /\ row.failed = 0 /\ row.locked = 0 /\ row.streak = 0 /\ row.raced = user[u].raced
    BY <1>1 DEF UserRow, SamePin, SameTokens
  <1>. HIDE DEF row
  <1>. QED
    BY <1>2, <1>3, PlaceOfUser

LEMMA FailureEffect ==
    ASSUME user \in [Users -> UserRow], req \in [Handlers -> Request], now \in Nat,
           NEW h \in Handlers, req[h].user \in Users, WriteFailure(h)
    PROVE  LET u == req[h].user
               n == req[h].seen + 1 IN
           /\ user' \in [Users -> UserRow] /\ OtherUsers(u)
           /\ SamePin(user[u], user'[u]) /\ SameTokens(user[u], user'[u])
           /\ user'[u].failed = (IF n >= FailLimit THEN 0 ELSE n)
           /\ user'[u].streak = (IF user[u].streak + 1 >= FailLimit THEN 0
                                                                    ELSE user[u].streak + 1)
           /\ user'[u].raced = user[u].raced
  <1>. DEFINE u == req[h].user
              n == req[h].seen + 1
              failed == IF PinWillLock(n) THEN 0 ELSE n
              locked == IF PinWillLock(n) THEN now + LockTime ELSE 0
              streak == IF user[u].streak + 1 >= FailLimit THEN 0 ELSE user[u].streak + 1
              row == [user[u] EXCEPT !.failed = failed, !.locked = locked, !.streak = streak]
  <1>1. user[u] \in UserRow
    OBVIOUS
  <1>2. failed \in Nat /\ locked \in Nat /\ streak \in Nat
    BY <1>1, RequestTypes, PinAssumption DEF UserRow, PinWillLock
  <1>3. user' = [user EXCEPT ![u] = row]
    BY DEF WriteFailure
  <1>. HIDE DEF failed, locked, streak
  <1>4. /\ row \in UserRow /\ SamePin(user[u], row) /\ SameTokens(user[u], row)
        /\ row.failed = failed /\ row.streak = streak /\ row.raced = user[u].raced
    BY <1>1, <1>2 DEF UserRow, SamePin, SameTokens
  <1>. HIDE DEF row
  <1>5. user' \in [Users -> UserRow] /\ OtherUsers(u) /\ user'[u] = row
    BY <1>3, <1>4, PlaceOfUser
  <1>. QED
    BY <1>4, <1>5 DEF failed, streak, PinWillLock

LEMMA SetPinEffect ==
    ASSUME user \in [Users -> UserRow], req \in [Handlers -> Request], NEW u \in Users,
           SetPin(u)
    PROVE  /\ user' \in [Users -> UserRow] /\ OtherUsers(u)
           /\ user'[u].phone = user[u].phone /\ user'[u].pin = user[u].pin + 1
           /\ user'[u].failed = 0 /\ user'[u].locked = 0 /\ user'[u].streak = 0
           /\ (user'[u].raced <=> user[u].raced \/ LoggingIn(u) # {})
           /\ SameTokens(user[u], user'[u])
  <1>. DEFINE pin == user[u].pin + 1
              raced == user[u].raced \/ LoggingIn(u) # {}
              row == [user[u] EXCEPT !.pin = pin, !.failed = 0, !.locked = 0,
                         !.streak = 0, !.raced = raced]
  <1>1. user[u] \in UserRow
    OBVIOUS
  <1>2. pin \in Nat /\ raced \in BOOLEAN
    BY <1>1 DEF UserRow
  <1>3. user' = [user EXCEPT ![u] = row]
    BY DEF SetPin
  <1>4. raced <=> user[u].raced \/ LoggingIn(u) # {}
    OBVIOUS
  <1>. HIDE DEF pin, raced
  <1>5. /\ row \in UserRow /\ row.phone = user[u].phone /\ row.pin = pin
        /\ row.failed = 0 /\ row.locked = 0 /\ row.streak = 0 /\ row.raced = raced
        /\ SameTokens(user[u], row)
    BY <1>1, <1>2 DEF UserRow, SameTokens
  <1>. HIDE DEF row
  <1>6. user' \in [Users -> UserRow] /\ OtherUsers(u) /\ user'[u] = row
    BY <1>3, <1>5, PlaceOfUser
  <1>. QED
    BY <1>4, <1>5, <1>6 DEF pin

LEMMA NewUserEffect ==              \* SignCreate
    ASSUME user \in [Users -> UserRow], NEW u \in Users, NEW p \in Phones,
           user' = [user EXCEPT ![u] = [NoUser EXCEPT !.phone = p, !.pin = 1]]
    PROVE  /\ user' \in [Users -> UserRow] /\ OtherUsers(u)
           /\ user'[u].phone = p /\ user'[u].pin = 1 /\ user'[u].failed = 0
           /\ user'[u].locked = 0 /\ user'[u].streak = 0 /\ user'[u].live = {}
           /\ ~user'[u].raced /\ user'[u].stray = {}
  <1>. DEFINE row == [NoUser EXCEPT !.phone = p, !.pin = 1]
  <1>1. /\ row \in UserRow /\ row.phone = p /\ row.pin = 1 /\ row.failed = 0
        /\ row.locked = 0 /\ row.streak = 0 /\ row.live = {} /\ row.raced = FALSE
        /\ row.stray = {}
    BY DEF UserRow, NoUser
  <1>2. user' = [user EXCEPT ![u] = row]
    OBVIOUS
  <1>. HIDE DEF row
  <1>3. user' \in [Users -> UserRow] /\ OtherUsers(u) /\ user'[u] = row
    BY <1>1, <1>2, PlaceOfUser
  <1>. QED
    BY <1>1, <1>3

LEMMA PhoneEffect ==                \* ChgWrite
    ASSUME user \in [Users -> UserRow], NEW u \in Users, NEW p \in Phones,
           user' = [user EXCEPT ![u].phone = p]
    PROVE  /\ user' \in [Users -> UserRow] /\ OtherUsers(u)
           /\ user'[u].phone = p /\ user'[u].pin = user[u].pin
           /\ SameCount(user[u], user'[u]) /\ SameTokens(user[u], user'[u])
           /\ user'[u].raced = user[u].raced
  <1>. DEFINE row == [user[u] EXCEPT !.phone = p]
  <1>1. user[u] \in UserRow
    OBVIOUS
  <1>2. /\ row \in UserRow /\ row.phone = p /\ row.pin = user[u].pin
        /\ SameCount(user[u], row) /\ SameTokens(user[u], row) /\ row.raced = user[u].raced
    BY <1>1 DEF UserRow, SameCount, SameTokens
  <1>3. user' = [user EXCEPT ![u] = row]
    OBVIOUS
  <1>. HIDE DEF row
  <1>4. user' \in [Users -> UserRow] /\ OtherUsers(u) /\ user'[u] = row
    BY <1>2, <1>3, PlaceOfUser
  <1>. QED
    BY <1>2, <1>4

LEMMA TokensEffect ==               \* RotRevoke, RevokeAll, Issue, CallFails
    ASSUME user \in [Users -> UserRow], NEW u \in Users,
           NEW live \in SUBSET Nat, NEW stray \in SUBSET Nat,
           user' = [user EXCEPT ![u].live = live, ![u].stray = stray]
    PROVE  /\ user' \in [Users -> UserRow] /\ OtherUsers(u)
           /\ SamePin(user[u], user'[u]) /\ SameCount(user[u], user'[u])
           /\ user'[u].live = live /\ user'[u].stray = stray
           /\ user'[u].raced = user[u].raced
  <1>. DEFINE row == [user[u] EXCEPT !.live = live, !.stray = stray]
  <1>1. user[u] \in UserRow
    OBVIOUS
  <1>2. /\ row \in UserRow /\ SamePin(user[u], row) /\ SameCount(user[u], row)
        /\ row.live = live /\ row.stray = stray /\ row.raced = user[u].raced
    BY <1>1 DEF UserRow, SamePin, SameCount
  <1>3. user' = [user EXCEPT ![u] = row]
    OBVIOUS
  <1>. HIDE DEF row
  <1>4. user' \in [Users -> UserRow] /\ OtherUsers(u) /\ user'[u] = row
    BY <1>2, <1>3, PlaceOfUser
  <1>. QED
    BY <1>2, <1>4

----------------------------------------------------------------------------
(* Every step keeps the requests in order                                  *)

OtpKept ==
    /\ otp' \in [Rows -> OtpRow]
    /\ \A r \in Rows : /\ SameCode(otp[r], otp'[r]) /\ otp'[r].entered >= otp[r].entered
                       /\ otp[r].phone = None => otp'[r] = otp[r]

UserKept ==
    /\ user' \in [Users -> UserRow]
    /\ \A u \in Users : /\ user'[u].phone = None <=> user[u].phone = None
                        /\ user[u].phone = None => user'[u] = user[u]

\* The step of h leaves the tables and its request in order.
Sound(h) ==
    /\ world' = world /\ now' = now
    /\ req' \in [Handlers -> Request] /\ Others(h)
    /\ otp' \in [Rows -> OtpRow] /\ user' \in [Users -> UserRow]
    /\ Grows(otp, user, otp', user') /\ Blank'
    /\ Fits(req'[h], otp', user')

BaseTypes == AccountTypeOK /\ AllFit /\ Blank

LEMMA RowFields ==
    ASSUME AccountTypeOK, NEW r \in Rows
    PROVE  /\ otp \in [Rows -> OtpRow] /\ otp[r] \in OtpRow
           /\ otp[r].phone \in Phones \cup {None} /\ otp[r].entered \in Nat
           /\ otp[r].purpose \in Purposes \cup {None}
           /\ otp[r].shared \in BOOLEAN /\ otp[r].used \in BOOLEAN
           /\ otp[r].consumed \in BOOLEAN /\ otp[r].raced \in BOOLEAN
           /\ otp[r].created \in Nat /\ otp[r].attempts \in Nat
           /\ otp[r].wrong \in Nat /\ otp[r].right \in Nat
  <1>1. otp \in [Rows -> OtpRow] /\ otp[r] \in OtpRow
    BY DEF AccountTypeOK, OtpTypeOK
  <1>. QED
    BY <1>1 DEF OtpRow

LEMMA UserFields ==
    ASSUME AccountTypeOK, NEW u \in Users
    PROVE  /\ user \in [Users -> UserRow] /\ user[u] \in UserRow
           /\ user[u].phone \in Phones \cup {None} /\ user[u].pin \in Nat
           /\ user[u].failed \in Nat /\ user[u].locked \in Nat /\ user[u].streak \in Nat
           /\ user[u].raced \in BOOLEAN
           /\ user[u].live \in SUBSET Nat /\ user[u].stray \in SUBSET Nat
  <1>1. user \in [Users -> UserRow] /\ user[u] \in UserRow
    BY DEF AccountTypeOK, PinTypeOK
  <1>. QED
    BY <1>1 DEF UserRow

LEMMA TypesApart ==
    ASSUME AccountTypeOK
    PROVE  /\ req \in [Handlers -> Request] /\ otp \in [Rows -> OtpRow]
           /\ user \in [Users -> UserRow] /\ world \in Worlds /\ now \in Nat
           /\ session \subseteq Session
  BY RequestAssumption DEF AccountTypeOK, RequestTypeOK, OtpTypeOK, PinTypeOK, World

LEMMA KeptIsSound ==
    ASSUME BaseTypes, OtpKept \/ otp' = otp, UserKept \/ user' = user
    PROVE  /\ otp' \in [Rows -> OtpRow] /\ user' \in [Users -> UserRow]
           /\ Grows(otp, user, otp', user') /\ Blank' /\ Written' = Written
  <1>. USE DEF BaseTypes
  <1>1. OtpKept
    BY TypesApart, RowFields DEF OtpKept, SameCode
  <1>2. UserKept
    BY TypesApart DEF UserKept
  <1>3. Grows(otp, user, otp', user')
    BY <1>1, <1>2 DEF OtpKept, UserKept, SameCode, Grows
  <1>4. Blank'
    BY <1>1, <1>2 DEF OtpKept, UserKept, SameCode, Blank
  <1>5. Written' = Written
    BY <1>1 DEF Written, OtpKept, SameCode
  <1>. QED
    BY <1>1, <1>2, <1>3, <1>4, <1>5 DEF OtpKept, UserKept

\* A request that is answered fits whatever it did.
LEMMA AnswerIsSound ==
    ASSUME BaseTypes, NEW h \in Handlers, Answer(h), OtpKept \/ otp' = otp,
           UserKept \/ user' = user, UNCHANGED <<world, now>>
    PROVE  Sound(h) /\ Written' = Written
  BY TypesApart, KeptIsSound, AnswerEffect, NoRequestFits DEF Sound, BaseTypes

LEMMA RowKept ==
    ASSUME BaseTypes, NEW r \in Rows, otp[r].phone # None,
           otp' \in [Rows -> OtpRow], OtherRows(r), SameCode(otp[r], otp'[r]),
           otp'[r].entered >= otp[r].entered
    PROVE  OtpKept
  <1>1. ASSUME NEW s \in Rows
        PROVE  /\ SameCode(otp[s], otp'[s]) /\ otp'[s].entered >= otp[s].entered
               /\ otp[s].phone = None => otp'[s] = otp[s]
    <2>1. CASE s = r
      BY <2>1
    <2>2. CASE s # r
      BY <2>2, RowFields DEF OtherRows, SameCode, BaseTypes
    <2>. QED
      BY <2>1, <2>2
  <1>. QED
    BY <1>1 DEF OtpKept

LEMMA AccountKept ==
    ASSUME BaseTypes, NEW u \in Users, user[u].phone # None,
           user' \in [Users -> UserRow], OtherUsers(u), user'[u].phone # None
    PROVE  UserKept
  BY DEF UserKept, OtherUsers

\* The operation of a request, by its place.
LEMMA OperationOf ==
    ASSUME BaseTypes, NEW h \in Handlers
    PROVE  /\ req \in [Handlers -> Request] /\ Fits(req[h], otp, user)
           /\ req[h].pc \in {"findRecent", "createOtp", "sms"} => req[h].op = "send"
           /\ req[h].pc \in {"verRead", "verWrong", "verConsume", "verUser"}
                => req[h].op = "verify"
           /\ req[h].pc \in {"consRead", "consWrite", "entered"} => req[h].op \in Uses
           /\ req[h].pc = "signCreate" => req[h].op = "signup"
           /\ req[h].pc \in {"chgDup", "chgWrite"} => req[h].op = "change"
           /\ req[h].pc = "revokeAll" => req[h].op \in {"reset", "change", "refresh"}
           /\ req[h].pc \in {"logFind", "pinRead", "pinRight", "pinWrong"} => req[h].op = "login"
           /\ req[h].pc \in {"rotRead", "rotRevoke"} => req[h].op = "refresh"
           /\ req[h].pc = "issue" => req[h].op \in {"signup", "reset", "login", "refresh"}
  <1>1. req \in [Handlers -> Request] /\ Fits(req[h], otp, user)
    BY TypesApart DEF BaseTypes, AllFit
  <1>2. req[h].op \in Operations \cup {None}
    BY <1>1, RequestTypes
  <1>. QED
    BY <1>1, <1>2, EmptyFields DEF Fits, SendFits, VerifyFits, SignupFits, ResetFits,
       ChangeFits, LoginFits, RefreshFits, Operations, Uses

LEMMA SendSound ==
    ASSUME BaseTypes, NEW h \in Handlers, FindRecent(h) \/ SendSms(h), UNCHANGED user
    PROVE  Sound(h) /\ Written' = Written
  <1>. USE DEF BaseTypes
  <1>1. CASE FindRecent(h)
    <2>1. CASE Answer(h)
      BY <1>1, <2>1, AnswerIsSound DEF FindRecent
    <2>2. CASE To(h, "createOtp")
      <3>1. req \in [Handlers -> Request] /\ Fits(req[h], otp, user)
        BY OperationOf
      <3>2. /\ req' \in [Handlers -> Request] /\ Others(h)
            /\ req'[h].pc = "createOtp" /\ Named(req[h], req'[h])
            /\ req'[h].next = req[h].next /\ req'[h].user = req[h].user
        BY <2>2, <3>1, ToEffect DEF ReqPC
      <3>3. req[h].op = "send"
        BY <1>1, OperationOf DEF FindRecent
      <3>4. Fits(req'[h], otp, user)
        BY <3>1, <3>2, <3>3, NoneIsNothing DEF Fits, SendFits, VerifyFits, SignupFits,
           ResetFits, ChangeFits, LoginFits, RefreshFits, Named, Operations
      <3>. QED
        BY <1>1, <3>2, <3>4, KeptIsSound DEF Sound, FindRecent
    <2>. QED
      BY <1>1, <2>1, <2>2 DEF FindRecent
  <1>2. CASE SendSms(h)
    <2>1. req[h].row \in Rows /\ otp[req[h].row].phone # None
      <3>1. Fits(req[h], otp, user) /\ req[h].op = "send"
        BY <1>2, OperationOf DEF SendSms
      <3>. QED
        BY <1>2, <3>1 DEF SendSms, Fits, SendFits, KnownRow
    <2>2. PICK sent \in BOOLEAN : otp' = [otp EXCEPT ![req[h].row].sent = sent]
      BY <1>2 DEF SendSms
    <2>3. /\ otp' \in [Rows -> OtpRow] /\ OtherRows(req[h].row)
          /\ SameCode(otp[req[h].row], otp'[req[h].row])
          /\ SameUses(otp[req[h].row], otp'[req[h].row])
      BY <2>1, <2>2, SentEffect, TypesApart
    <2>4. OtpKept
      BY <2>1, <2>3, RowKept, RowFields DEF SameUses
    <2>. QED
      BY <1>2, <2>4, AnswerIsSound DEF SendSms
  <1>. QED
    BY <1>1, <1>2

\* A request that goes on fits when the new place asks for nothing new.
LEMMA MoveIsSound ==
    ASSUME BaseTypes, NEW h \in Handlers, OtpKept \/ otp' = otp, UserKept \/ user' = user,
           UNCHANGED <<world, now>>, req' \in [Handlers -> Request], Others(h),
           Fits(req'[h], otp', user')
    PROVE  Sound(h) /\ Written' = Written
  BY KeptIsSound DEF Sound

LEMMA CreateSound ==
    ASSUME BaseTypes, Capacity, NEW h \in Handlers, req[h].pc = "createOtp", AddRow(h),
           UNCHANGED <<world, now, user>>,
           \/ Answer(h)
           \/ req' = [req EXCEPT ![h].pc = "sms", ![h].row = Cardinality(Written) + 1]
    PROVE  Sound(h) /\ Written' = Written \cup {Cardinality(Written) + 1}
  <1>. DEFINE r == Cardinality(Written) + 1
  <1>1. /\ req \in [Handlers -> Request] /\ Fits(req[h], otp, user) /\ req[h].op = "send"
        /\ req[h].phone \in Phones /\ req[h].purpose \in Purposes /\ req[h].next = None
        /\ req[h].user = None
    BY OperationOf DEF Fits, SendFits
  <1>2. r \in Rows /\ otp[r] = NoRow /\ r \notin Written
    BY NextRow DEF BaseTypes
  <1>3. /\ otp' \in [Rows -> OtpRow] /\ OtherRows(r)
        /\ otp'[r].phone = req[h].phone /\ otp'[r].purpose = req[h].purpose
        /\ Written' = Written \cup {r}
    BY <1>1, AddRowEffect DEF BaseTypes
  <1>. HIDE DEF r
  <1>4. Grows(otp, user, otp', user') /\ Blank' /\ user' \in [Users -> UserRow]
    <2>1. \A s \in Rows : otp[s].phone # None =>
            otp'[s].phone = otp[s].phone /\ otp'[s].purpose = otp[s].purpose
              /\ otp'[s].entered >= otp[s].entered
      BY <1>2, <1>3, RowFields, EmptyFields DEF OtherRows, BaseTypes
    <2>2. Grows(otp, user, otp', user') /\ user' \in [Users -> UserRow]
      BY <2>1, TypesApart DEF Grows, BaseTypes
    <2>3. Blank'
      BY <1>1, <1>3, NoneIsNothing DEF Blank, OtherRows, BaseTypes
    <2>. QED
      BY <2>2, <2>3
  <1>5. CASE Answer(h)
    BY <1>1, <1>3, <1>4, <1>5, AnswerEffect, NoRequestFits DEF Sound, r
  <1>6. CASE req' = [req EXCEPT ![h].pc = "sms", ![h].row = Cardinality(Written) + 1]
    <2>. DEFINE q == [req[h] EXCEPT !.pc = "sms", !.row = r]
    <2>1. req' = [req EXCEPT ![h] = q]
      BY <1>6 DEF r
    <2>2. req[h] \in Request
      BY <1>1
    <2>3. /\ q \in Request /\ q.pc = "sms" /\ q.op = "send" /\ q.row = r
          /\ q.phone = req[h].phone /\ q.purpose = req[h].purpose
          /\ q.next = None /\ q.user = None
      BY <1>1, <1>2, <2>2 DEF Request, ReqPC
    <2>. HIDE DEF q
    <2>4. req' \in [Handlers -> Request] /\ Others(h) /\ req'[h] = q
      BY <1>1, <2>1, <2>3, PlaceOfStep
    <2>5. Fits(q, otp', user')
      BY <1>1, <1>2, <1>3, <2>3, NoneIsNothing DEF Fits, SendFits, VerifyFits, SignupFits,
         ResetFits, ChangeFits, LoginFits, RefreshFits, KnownRow, Operations
    <2>. QED
      BY <1>3, <1>4, <2>4, <2>5 DEF Sound, r
  <1>. QED
    BY <1>5, <1>6

\* What a request that checks a code, or uses a session, works on.
LEMMA RowOf ==
    ASSUME BaseTypes, NEW h \in Handlers,
           req[h].op = "verify" \/ req[h].op \in Uses \/ req[h].pc = "sms"
    PROVE  req[h].row \in Rows /\ otp[req[h].row].phone # None
  BY OperationOf DEF Fits, SendFits, VerifyFits, SignupFits, ResetFits, ChangeFits, KnownRow, Uses

LEMMA AttemptKept ==
    ASSUME BaseTypes, NEW h \in Handlers, req[h].pc = "verWrong", WriteAttempt(h)
    PROVE  OtpKept
  <1>1. req[h].row \in Rows /\ otp[req[h].row].phone # None
    BY OperationOf, RowOf
  <1>2. /\ otp' \in [Rows -> OtpRow] /\ OtherRows(req[h].row)
        /\ SameCode(otp[req[h].row], otp'[req[h].row])
        /\ SameUses(otp[req[h].row], otp'[req[h].row])
    BY <1>1, AttemptEffect, TypesApart DEF BaseTypes
  <1>. QED
    BY <1>1, <1>2, RowKept, RowFields DEF SameUses, BaseTypes

LEMMA ConsumeKept ==
    ASSUME BaseTypes, NEW h \in Handlers, req[h].pc = "verConsume", ConsumeCode(h)
    PROVE  OtpKept
  <1>1. req[h].row \in Rows /\ otp[req[h].row].phone # None
    BY OperationOf, RowOf
  <1>2. /\ otp' \in [Rows -> OtpRow] /\ OtherRows(req[h].row)
        /\ SameCode(otp[req[h].row], otp'[req[h].row])
        /\ SameUses(otp[req[h].row], otp'[req[h].row])
    BY <1>1, ConsumeEffect, TypesApart DEF BaseTypes
  <1>. QED
    BY <1>1, <1>2, RowKept, RowFields DEF SameUses, BaseTypes

LEMMA MarkKept ==
    ASSUME BaseTypes, NEW h \in Handlers, req[h].pc = "consWrite", MarkUsed(h)
    PROVE  OtpKept /\ otp'[req[h].row].entered > 0
  <1>1. req[h].row \in Rows /\ otp[req[h].row].phone # None
    BY OperationOf, RowOf
  <1>2. /\ otp' \in [Rows -> OtpRow] /\ OtherRows(req[h].row)
        /\ SameCode(otp[req[h].row], otp'[req[h].row])
        /\ otp'[req[h].row].entered = otp[req[h].row].entered + 1
    BY <1>1, MarkEffect, TypesApart DEF BaseTypes
  <1>3. otp[req[h].row].entered \in Nat
    BY <1>1, RowFields DEF BaseTypes
  <1>4. OtpKept
    BY <1>1, <1>2, <1>3, RowKept
  <1>. QED
    BY <1>2, <1>3, <1>4

LEMMA VerifySound ==
    ASSUME BaseTypes, NEW h \in Handlers, VerRead(h) \/ VerWrong(h) \/ VerConsume(h),
           UNCHANGED user
    PROVE  Sound(h) /\ Written' = Written
  <1>. DEFINE Good == Sound(h) /\ Written' = Written
  <1>1. /\ req \in [Handlers -> Request] /\ Fits(req[h], otp, user) /\ req[h].op = "verify"
    BY OperationOf DEF VerRead, VerWrong, VerConsume
  <1>2. ASSUME NEW o, NEW u, Fits(req[h], o, u), Named(req[h], req'[h]),
               req'[h].row = req[h].row, req'[h].next = req[h].next,
               req'[h].user = req[h].user,
               req'[h].pc \in {"verRead", "verWrong", "verConsume", "verUser"}
        PROVE  Fits(req'[h], o, u)
    BY <1>1, <1>2, NoneIsNothing DEF Fits, SendFits, VerifyFits, SignupFits, ResetFits,
       ChangeFits, LoginFits, RefreshFits, Named, Operations
  <1>3. ASSUME VerRead(h) PROVE Good
    <2>1. ASSUME Answer(h) PROVE Good
      BY <1>3, <2>1, AnswerIsSound DEF VerRead
    <2>2. ASSUME NEW p \in {"verConsume", "verWrong"},
                 req' = [req EXCEPT ![h].seen = otp[req[h].row].attempts, ![h].pc = p]
          PROVE Good
      <3>1. otp[req[h].row].attempts \in Nat
        BY <1>1, RowOf, RowFields DEF BaseTypes
      <3>2. /\ req' \in [Handlers -> Request] /\ Others(h)
            /\ req'[h].pc = p /\ Named(req[h], req'[h]) /\ req'[h].row = req[h].row
            /\ req'[h].next = req[h].next /\ req'[h].user = req[h].user
        BY <1>1, <2>2, <3>1, SeenEffect DEF ReqPC
      <3>3. Fits(req'[h], otp, user)
        BY <1>1, <1>2, <3>2
      <3>. QED
        BY <1>3, <3>2, <3>3, MoveIsSound DEF VerRead
    <2>. QED
      BY <1>3, <2>1, <2>2 DEF VerRead
  <1>4. ASSUME VerWrong(h) PROVE Good
    BY <1>4, AttemptKept, AnswerIsSound DEF VerWrong
  <1>5. ASSUME VerConsume(h) PROVE Good
    <2>1. OtpKept
      BY <1>5, ConsumeKept DEF VerConsume
    <2>2. /\ req' \in [Handlers -> Request] /\ Others(h)
          /\ req'[h].pc = "verUser" /\ Named(req[h], req'[h]) /\ req'[h].row = req[h].row
          /\ req'[h].next = req[h].next /\ req'[h].user = req[h].user
      BY <1>1, <1>5, ToEffect DEF ReqPC, VerConsume
    <2>3. Fits(req[h], otp', user')
      BY <1>1, <2>1, KeptIsSound, FitsGrows, TypesApart DEF BaseTypes
    <2>4. Fits(req'[h], otp', user')
      BY <1>2, <2>2, <2>3
    <2>. QED
      BY <1>5, <2>1, <2>2, <2>4, MoveIsSound DEF VerConsume
  <1>. QED
    BY <1>3, <1>4, <1>5

LEMMA UseSound ==                   \* using the sessions
    ASSUME BaseTypes, NEW h \in Handlers, ConsRead(h) \/ ConsWrite(h), UNCHANGED user
    PROVE  Sound(h) /\ Written' = Written
  <1>. DEFINE Good == Sound(h) /\ Written' = Written
  <1>1. /\ req \in [Handlers -> Request] /\ Fits(req[h], otp, user) /\ req[h].op \in Uses
    BY OperationOf DEF ConsRead, ConsWrite
  <1>2. ASSUME ConsRead(h) PROVE Good
    <2>1. ASSUME Answer(h) PROVE Good
      BY <1>2, <2>1, AnswerIsSound DEF ConsRead
    <2>2. ASSUME To(h, "consWrite") PROVE Good
      <3>1. /\ req' \in [Handlers -> Request] /\ Others(h)
            /\ req'[h].pc = "consWrite" /\ Named(req[h], req'[h]) /\ req'[h].row = req[h].row
            /\ req'[h].next = req[h].next /\ req'[h].user = req[h].user
        BY <1>1, <2>2, ToEffect DEF ReqPC
      <3>2. Fits(req'[h], otp, user)
        BY <1>1, <1>2, <3>1, NoneIsNothing DEF Fits, SendFits, VerifyFits, SignupFits, ResetFits,
           ChangeFits, LoginFits, RefreshFits, Named, Operations, Uses, ConsRead
      <3>. QED
        BY <1>2, <3>1, <3>2, MoveIsSound DEF ConsRead
    <2>. QED
      BY <1>2, <2>1, <2>2 DEF ConsRead
  <1>3. ASSUME ConsWrite(h) PROVE Good
    <2>1. OtpKept /\ otp'[req[h].row].entered > 0
      BY <1>3, MarkKept DEF ConsWrite
    <2>2. Fits(req[h], otp', user')
      BY <1>1, <2>1, KeptIsSound, FitsGrows, TypesApart DEF BaseTypes
    <2>3. ASSUME To(h, "entered"), req[h].next = None PROVE Good
      <3>1. /\ req' \in [Handlers -> Request] /\ Others(h)
            /\ req'[h].pc = "entered" /\ Named(req[h], req'[h]) /\ req'[h].row = req[h].row
            /\ req'[h].next = None /\ req'[h].user = req[h].user
        BY <1>1, <2>3, ToEffect DEF ReqPC
      <3>2. Fits(req'[h], otp', user')
        <4>1. req[h].pc = "consWrite"
          BY <1>3 DEF ConsWrite
        <4>2. CASE req[h].op = "signup"
          BY <2>1, <2>2, <3>1, <4>1, <4>2, NoneIsNothing DEF Fits, SendFits, VerifyFits,
             SignupFits, ResetFits, ChangeFits, LoginFits, RefreshFits, Named, Operations
        <4>3. CASE req[h].op = "reset"
          BY <2>1, <2>2, <3>1, <4>1, <4>3, NoneIsNothing DEF Fits, SendFits, VerifyFits,
             SignupFits, ResetFits, ChangeFits, LoginFits, RefreshFits, Named, Operations
        <4>4. CASE req[h].op = "change"
          BY <2>1, <2>2, <2>3, <3>1, <4>1, <4>4, NoneIsNothing DEF Fits, SendFits, VerifyFits,
             SignupFits, ResetFits, ChangeFits, LoginFits, RefreshFits, Named, Operations
        <4>. QED
          BY <1>1, <4>2, <4>3, <4>4 DEF Uses
      <3>. QED
        BY <1>3, <2>1, <3>1, <3>2, MoveIsSound DEF ConsWrite
    <2>4. ASSUME req[h].next # None,
                 req' = [req EXCEPT ![h].pc = "consRead", ![h].row = req[h].next, ![h].next = None]
          PROVE Good
      <3>1. req[h].op = "change" /\ req[h].next \in Rows
        BY <1>1, <2>4, RequestTypes DEF Fits, SignupFits, ResetFits, Uses
      <3>2. /\ req' \in [Handlers -> Request] /\ Others(h)
            /\ req'[h].pc = "consRead" /\ Named(req[h], req'[h]) /\ req'[h].row = req[h].next
            /\ req'[h].next = None /\ req'[h].user = req[h].user
        <4>1. PICK n \in Rows : n = req[h].next
          BY <3>1
        <4>2. req' = [req EXCEPT ![h].pc = "consRead", ![h].row = n, ![h].next = None]
          BY <2>4, <4>1
        <4>. DEFINE q == [req[h] EXCEPT !.pc = "consRead", !.row = n, !.next = None]
        <4>3. req' = [req EXCEPT ![h] = q]
          BY <4>2
        <4>4. req[h] \in Request
          BY <1>1
        <4>5. /\ q \in Request /\ q.pc = "consRead" /\ Named(req[h], q) /\ q.row = n
              /\ q.next = None /\ q.user = req[h].user
          BY <4>1, <4>4 DEF Request, ReqPC, Named
        <4>. HIDE DEF q
        <4>6. req' \in [Handlers -> Request] /\ Others(h) /\ req'[h] = q
          BY <1>1, <4>3, <4>5, PlaceOfStep
        <4>. QED
          BY <4>1, <4>5, <4>6
      <3>3. Fits(req'[h], otp', user')
        BY <2>2, <2>4, <3>1, <3>2, NoneIsNothing DEF Fits, SendFits, VerifyFits,
           SignupFits, ResetFits, ChangeFits, LoginFits, RefreshFits, Named, Operations
      <3>. QED
        BY <1>3, <2>1, <3>2, <3>3, MoveIsSound DEF ConsWrite
    <2>. QED
      BY <1>3, <2>3, <2>4 DEF ConsWrite
  <1>. QED
    BY <1>2, <1>3

LEMMA ReplyLostSound ==
    ASSUME BaseTypes, Capacity, NEW h \in Handlers, OtpReplyLost(h), UNCHANGED user
    PROVE  /\ Sound(h)
           /\ IF req[h].pc = "createOtp" THEN Written' = Written \cup {Cardinality(Written) + 1}
                                         ELSE Written' = Written
  <1>1. CASE req[h].pc = "createOtp" /\ AddRow(h)
    BY <1>1, CreateSound DEF OtpReplyLost
  <1>2. CASE req[h].pc = "verWrong" /\ WriteAttempt(h)
    BY <1>2, AttemptKept, AnswerIsSound DEF OtpReplyLost
  <1>3. CASE req[h].pc = "verConsume" /\ ConsumeCode(h)
    BY <1>3, ConsumeKept, AnswerIsSound DEF OtpReplyLost
  <1>4. CASE req[h].pc = "consWrite" /\ MarkUsed(h)
    BY <1>4, MarkKept, AnswerIsSound DEF OtpReplyLost
  <1>. QED
    BY <1>1, <1>2, <1>3, <1>4 DEF OtpReplyLost

LEMMA VerifyOtpSound ==
    ASSUME BaseTypes, NEW h \in Handlers, NEW r \in Written, NEW guess \in {0, 1},
           VerifyOtp(h, r, guess), UNCHANGED user
    PROVE  Sound(h) /\ Written' = Written
  <1>. DEFINE k == otp[r].purpose
              q == [NoRequest EXCEPT !.pc = "verRead", !.op = "verify", !.row = r,
                                     !.purpose = k, !.guess = guess]
  <1>1. r \in Rows /\ otp[r].phone # None /\ k \in Purposes
    BY DEF Written, BaseTypes, Blank
  <1>2. /\ q \in Request /\ q.pc = "verRead" /\ q.op = "verify" /\ q.row = r
        /\ q.purpose = k /\ q.next = None /\ q.user = None
    <2>. HIDE DEF k
    <2>. QED
      <3>1. guess \in Nat /\ r \in Rows /\ k \in Purposes
        BY <1>1
      <3>. QED
        BY <3>1 DEF NoRequest, Request, ReqPC, Operations
  <1>3. Arrive(h, q)
    BY DEF VerifyOtp
  <1>. HIDE DEF q
  <1>4. req' \in [Handlers -> Request] /\ Others(h) /\ req'[h] = q
    BY <1>2, <1>3, ArriveEffect, TypesApart DEF BaseTypes
  <1>5. /\ otp' \in [Rows -> OtpRow] /\ OtherRows(r) /\ SameCode(otp[r], otp'[r])
        /\ SameUses(otp[r], otp'[r])
    <2>1. Verifying(r) \in BOOLEAN
      BY DEF Verifying
    <2>. QED
      BY <1>1, <2>1, SharedEffect, TypesApart DEF VerifyOtp, BaseTypes
  <1>6. OtpKept
    BY <1>1, <1>5, RowKept, RowFields DEF SameUses, BaseTypes
  <1>7. Fits(q, otp', user')
    BY <1>1, <1>2, <1>5, NoneIsNothing DEF Fits, SendFits, VerifyFits, SignupFits, ResetFits,
       ChangeFits, LoginFits, RefreshFits, KnownRow, SameCode, Operations
  <1>. QED
    BY <1>4, <1>6, <1>7, MoveIsSound DEF VerifyOtp

\* The new send, and the sends of the number it meets.
LEMMA SendOtpSound ==
    ASSUME BaseTypes, NEW h \in Handlers, NEW p \in Phones, NEW k \in Purposes,
           SendOtp(h, p, k)
    PROVE  /\ req' \in [Handlers -> Request]
           /\ \A g \in Handlers : Fits(req'[g], otp, user)
  <1>1. /\ req' \in [Handlers -> Request]
        /\ req'[h].pc = "findRecent" /\ req'[h].op = "send" /\ req'[h].phone = p
        /\ req'[h].purpose = k /\ req'[h].next = None /\ req'[h].user = None
    BY SendOtpEffect, TypesApart DEF BaseTypes
  <1>2. Fits(req'[h], otp, user)
    BY <1>1, NoneIsNothing DEF Fits, SendFits, VerifyFits, SignupFits, ResetFits,
       ChangeFits, LoginFits, RefreshFits, Operations
  <1>3. ASSUME NEW g \in Handlers \ {h}
        PROVE  Fits(req'[g], otp, user)
    <2>1. /\ g \notin Sending(p) => req'[g] = req[g]
          /\ Alike(req[g], req'[g])
      BY SendOtpEffect, TypesApart DEF BaseTypes
    <2>2. Fits(req[g], otp, user)
      BY OperationOf
    <2>3. ASSUME g \in Sending(p)
          PROVE  Fits(req'[g], otp, user)
      <3>1. req[g].op = "send"
        BY <2>3 DEF Sending
      <3>. QED
        BY <2>1, <2>2, <3>1, NoneIsNothing DEF Fits, SendFits, VerifyFits, SignupFits,
           ResetFits, ChangeFits, LoginFits, RefreshFits, Alike, Operations
    <2>. QED
      BY <2>1, <2>2, <2>3
  <1>. QED
    BY <1>1, <1>2, <1>3

LEMMA LoginSound ==
    ASSUME BaseTypes, NEW h \in Handlers, NEW p \in Phones, NEW guess \in Nat,
           Login(h, p, guess), UNCHANGED otp
    PROVE  Sound(h) /\ Written' = Written
  <1>. DEFINE q == [NoRequest EXCEPT !.pc = "logFind", !.op = "login", !.phone = p,
                                     !.guess = guess]
  <1>1. /\ q \in Request /\ q.pc = "logFind" /\ q.op = "login" /\ q.phone = p
        /\ q.row = None /\ q.next = None /\ q.user = None
    BY DEF NoRequest, Request, ReqPC, Operations
  <1>2. Arrive(h, q)
    BY DEF Login
  <1>. HIDE DEF q
  <1>3. req' \in [Handlers -> Request] /\ Others(h) /\ req'[h] = q
    BY <1>1, <1>2, ArriveEffect, TypesApart DEF BaseTypes
  <1>4. Fits(q, otp, user)
    BY <1>1, NoneIsNothing DEF Fits, SendFits, VerifyFits, SignupFits, ResetFits,
       ChangeFits, LoginFits, RefreshFits, Operations
  <1>. QED
    BY <1>3, <1>4, MoveIsSound DEF Login

\* The account a request works for.
LEMMA UserOf ==
    ASSUME BaseTypes, NEW h \in Handlers,
           \/ req[h].pc \in {"pinRead", "pinRight", "pinWrong", "rotRead", "rotRevoke", "issue"}
           \/ req[h].pc \in {"chgDup", "chgWrite", "revokeAll"}
           \/ req[h].op = "reset"
    PROVE  req[h].user \in Users /\ user[req[h].user].phone # None
  BY OperationOf, NoneIsNothing DEF Fits, SignupFits, ResetFits, ChangeFits, LoginFits, RefreshFits,
     KnownUser, Operations

\* What the steps that issue and end tokens do, to the account of their request.
NewTokens(h, live, stray) ==
    user' = [user EXCEPT ![req[h].user].live = live, ![req[h].user].stray = stray]

LEMMA TokenSteps ==
    ASSUME BaseTypes, NEW h \in Handlers
    PROVE  LET u == req[h].user IN
           /\ RotRevoke(h) => \E live \in SUBSET user[u].live : NewTokens(h, live, user[u].stray)
           /\ RevokeAll(h) => NewTokens(h, {}, IF req[h].op = "reset"
                                               THEN Stray(u, LettingIn(u) \cup {req[h].guess})
                                               ELSE user[u].stray)
           /\ Issue(h) => NewTokens(h, user[u].live \cup {req[h].guess}, user[u].stray)
           /\ CallFails(h) =>
                IF req[h].op = "reset" /\ req[h].pc = "revokeAll"
                THEN NewTokens(h, user[u].live, Stray(u, LettingIn(u) \cup user[u].live))
                ELSE user' = user
  <1>. DEFINE u == req[h].user
  <1>1. user \in [Users -> UserRow]
    BY TypesApart DEF BaseTypes
  <1>2. ASSUME req[h].pc \in {"rotRevoke", "issue", "revokeAll"}
        PROVE  u \in Users /\ user[u] \in UserRow
    BY <1>1, <1>2, UserOf
  <1>3. ASSUME NEW live, user' = [user EXCEPT ![u].live = live], u \in Users, user[u] \in UserRow
        PROVE  NewTokens(h, live, user[u].stray)
    BY <1>1, <1>3 DEF NewTokens, UserRow
  <1>4. ASSUME NEW stray, user' = [user EXCEPT ![u].stray = stray], u \in Users, user[u] \in UserRow
        PROVE  NewTokens(h, user[u].live, stray)
    BY <1>1, <1>4 DEF NewTokens, UserRow
  <1>5. ASSUME RotRevoke(h)
        PROVE  \E live \in SUBSET user[u].live : NewTokens(h, live, user[u].stray)
    <2>1. PICK gone \in {{}, {req[h].guess}} : user' = [user EXCEPT ![u].live = @ \ gone]
      BY <1>5 DEF RotRevoke
    <2>2. user' = [user EXCEPT ![u].live = user[u].live \ gone]
      BY <2>1
    <2>3. NewTokens(h, user[u].live \ gone, user[u].stray)
      BY <1>2, <1>3, <1>5, <2>2 DEF RotRevoke
    <2>. QED
      BY <2>3
  <1>6. ASSUME RevokeAll(h)
        PROVE  NewTokens(h, {}, IF req[h].op = "reset"
                               THEN Stray(u, LettingIn(u) \cup {req[h].guess}) ELSE user[u].stray)
    <2>1. u \in Users /\ user[u] \in UserRow
      BY <1>2, <1>6 DEF RevokeAll
    <2>2. CASE req[h].op = "reset"
      BY <1>6, <2>2 DEF RevokeAll, NewTokens
    <2>3. CASE req[h].op # "reset"
      BY <1>1, <1>6, <2>1, <2>3 DEF RevokeAll, NewTokens, UserRow
    <2>. QED
      BY <2>2, <2>3
  <1>7. ASSUME Issue(h)
        PROVE  NewTokens(h, user[u].live \cup {req[h].guess}, user[u].stray)
    BY <1>2, <1>3, <1>7 DEF Issue
  <1>8. ASSUME CallFails(h), req[h].op = "reset", req[h].pc = "revokeAll"
        PROVE  NewTokens(h, user[u].live, Stray(u, LettingIn(u) \cup user[u].live))
    BY <1>2, <1>4, <1>8 DEF CallFails
  <1>. QED
    BY <1>5, <1>6, <1>7, <1>8 DEF CallFails

LEMMA StrayTypes ==
    ASSUME BaseTypes, NEW u \in Users, NEW pins \in SUBSET Nat
    PROVE  /\ Stray(u, pins) \in SUBSET Nat
           /\ Stray(u, LettingIn(u) \cup pins) \in SUBSET Nat
  <1>1. LettingIn(u) \in SUBSET Nat
    BY RequestTypes, TypesApart DEF LettingIn, BaseTypes
  <1>. QED
    BY <1>1, UserFields DEF Stray, BaseTypes

LEMMA TokenStepsKeep ==
    ASSUME BaseTypes, NEW h \in Handlers,
           RotRevoke(h) \/ RevokeAll(h) \/ Issue(h) \/ CallFails(h)
    PROVE  LET u == req[h].user IN
           \/ user' = user
           \/ /\ u \in Users /\ user[u].phone # None
              /\ user' \in [Users -> UserRow] /\ OtherUsers(u)
              /\ SamePin(user[u], user'[u]) /\ SameCount(user[u], user'[u])
              /\ user'[u].raced = user[u].raced
  <1>. DEFINE u == req[h].user
  <1>1. ASSUME u \in Users, user[u].phone # None,
               NEW live \in SUBSET Nat, NEW stray \in SUBSET Nat, NewTokens(h, live, stray)
        PROVE  /\ user' \in [Users -> UserRow] /\ OtherUsers(u)
               /\ SamePin(user[u], user'[u]) /\ SameCount(user[u], user'[u])
               /\ user'[u].raced = user[u].raced
    BY <1>1, TokensEffect, TypesApart DEF NewTokens, BaseTypes
  <1>2. ASSUME req[h].pc \in {"rotRevoke", "revokeAll", "issue"}
        PROVE  /\ u \in Users /\ user[u].phone # None /\ user[u].live \in SUBSET Nat
               /\ user[u].stray \in SUBSET Nat /\ req[h].guess \in Nat
               /\ Stray(u, LettingIn(u) \cup {req[h].guess}) \in SUBSET Nat
               /\ Stray(u, LettingIn(u) \cup user[u].live) \in SUBSET Nat
    <2>1. u \in Users /\ user[u].phone # None
      BY <1>2, UserOf
    <2>2. /\ user[u].live \in SUBSET Nat /\ user[u].stray \in SUBSET Nat
          /\ req[h].guess \in Nat /\ {req[h].guess} \in SUBSET Nat
      BY <2>1, UserFields, RequestTypes, TypesApart DEF BaseTypes
    <2>. QED
      BY <2>1, <2>2, StrayTypes
  <1>3. CASE RotRevoke(h)
    <2>1. PICK live \in SUBSET user[u].live : NewTokens(h, live, user[u].stray)
      BY <1>3, TokenSteps
    <2>. QED
      BY <1>1, <1>2, <1>3, <2>1 DEF RotRevoke
  <1>4. CASE RevokeAll(h)
    BY <1>1, <1>2, <1>4, TokenSteps DEF RevokeAll
  <1>5. CASE Issue(h)
    <2>1. user[u].live \cup {req[h].guess} \in SUBSET Nat
      BY <1>2, <1>5 DEF Issue
    <2>. QED
      BY <1>1, <1>2, <1>5, <2>1, TokenSteps DEF Issue
  <1>6. CASE CallFails(h)
    BY <1>1, <1>2, <1>6, TokenSteps DEF CallFails
  <1>. QED
    BY <1>3, <1>4, <1>5, <1>6

LEMMA LogFindSound ==
    ASSUME BaseTypes, NEW h \in Handlers, LogFind(h), UNCHANGED otp
    PROVE  Sound(h) /\ Written' = Written
  <1>. DEFINE Good == Sound(h) /\ Written' = Written
  <1>1. /\ req \in [Handlers -> Request] /\ Fits(req[h], otp, user) /\ req[h].op = "login"
    BY OperationOf DEF LogFind
  <1>2. ASSUME Answer(h), UNCHANGED user PROVE Good
    BY <1>2, AnswerIsSound DEF LogFind
  <1>3. ASSUME NEW u \in Owner(req[h].phone),
               req' = [req EXCEPT ![h].user = u, ![h].pc = "pinRead"],
               user' = [user EXCEPT ![u].raced = @ \/ LoggingIn(u) # {}]
        PROVE Good
    <2>. DEFINE q == [req[h] EXCEPT !.user = u, !.pc = "pinRead"]
    <2>1. u \in Users /\ user[u].phone # None
      BY NoneIsNothing, <1>1, RequestTypes DEF Owner
    <2>2. req[h] \in Request /\ req' = [req EXCEPT ![h] = q]
      BY <1>1, <1>3
    <2>3. /\ q \in Request /\ q.pc = "pinRead" /\ q.op = "login" /\ q.row = req[h].row
          /\ q.next = req[h].next /\ q.user = u /\ q.phone = req[h].phone
      BY <1>1, <2>1, <2>2 DEF Request, ReqPC
    <2>. HIDE DEF q
    <2>4. req' \in [Handlers -> Request] /\ Others(h) /\ req'[h] = q
      BY <1>1, <2>2, <2>3, PlaceOfStep
    <2>5. /\ user' \in [Users -> UserRow] /\ OtherUsers(u)
          /\ SamePin(user[u], user'[u])
      <3>1. (LoggingIn(u) # {}) \in BOOLEAN /\ user \in [Users -> UserRow]
        BY TypesApart DEF BaseTypes
      <3>. QED
        BY <1>3, <2>1, <3>1, RacedEffect
    <2>6. UserKept
      BY <2>1, <2>5, AccountKept DEF SamePin
    <2>7. Fits(q, otp, user')
      BY <1>1, <2>1, <2>3, <2>5, NoneIsNothing DEF Fits, SendFits, VerifyFits, SignupFits,
         ResetFits, ChangeFits, LoginFits, RefreshFits, KnownUser, SamePin, Operations
    <2>. QED
      BY <2>4, <2>6, <2>7, MoveIsSound DEF LogFind
  <1>. QED
    BY <1>2, <1>3 DEF LogFind

LEMMA PinSound ==
    ASSUME BaseTypes, NEW h \in Handlers, PinRead(h) \/ PinRight(h) \/ PinWrong(h),
           UNCHANGED otp
    PROVE  Sound(h) /\ Written' = Written
  <1>. DEFINE Good == Sound(h) /\ Written' = Written
              u == req[h].user
  <1>1. /\ req \in [Handlers -> Request] /\ Fits(req[h], otp, user) /\ req[h].op = "login"
        /\ u \in Users /\ user[u].phone # None
    BY OperationOf, UserOf DEF PinRead, PinRight, PinWrong
  <1>2. req[h].pc # "logFind"
    BY DEF PinRead, PinRight, PinWrong
  <1>3. ASSUME NEW v, Fits(req[h], otp, v), Named(req[h], req'[h]),
               req'[h].row = req[h].row, req'[h].next = req[h].next,
               req'[h].user = req[h].user,
               req'[h].pc \in {"pinRead", "pinRight", "pinWrong", "issue"}
        PROVE  Fits(req'[h], otp, v)
    BY <1>1, <1>2, <1>3, NoneIsNothing DEF Fits, SendFits, VerifyFits, SignupFits, ResetFits,
       ChangeFits, LoginFits, RefreshFits, Named, Operations
  <1>4. ASSUME PinRead(h) PROVE Good
    <2>1. ASSUME Answer(h) PROVE Good
      BY <1>4, <2>1, AnswerIsSound DEF PinRead
    <2>2. ASSUME NEW p \in {"pinRight", "pinWrong"},
                 req' = [req EXCEPT ![h].seen = user[u].failed, ![h].pc = p]
          PROVE Good
      <3>1. user[u].failed \in Nat
        BY <1>1, UserFields DEF BaseTypes
      <3>2. /\ req' \in [Handlers -> Request] /\ Others(h)
            /\ req'[h].pc = p /\ Named(req[h], req'[h]) /\ req'[h].row = req[h].row
            /\ req'[h].next = req[h].next /\ req'[h].user = req[h].user
        BY <1>1, <2>2, <3>1, SeenEffect DEF ReqPC
      <3>3. Fits(req'[h], otp, user)
        BY <1>1, <1>3, <3>2
      <3>. QED
        BY <1>4, <3>2, <3>3, MoveIsSound DEF PinRead
    <2>. QED
      BY <1>4, <2>1, <2>2 DEF PinRead
  <1>5. ASSUME PinRight(h) PROVE Good
    <2>1. UserKept
      <3>1. /\ user' \in [Users -> UserRow] /\ OtherUsers(u) /\ SamePin(user[u], user'[u])
        BY <1>1, <1>5, ClearEffect, TypesApart DEF PinRight, BaseTypes
      <3>. QED
        BY <1>1, <3>1, AccountKept DEF SamePin
    <2>2. /\ req' \in [Handlers -> Request] /\ Others(h)
          /\ req'[h].pc = "issue" /\ Named(req[h], req'[h]) /\ req'[h].row = req[h].row
          /\ req'[h].next = req[h].next /\ req'[h].user = req[h].user
      BY <1>1, <1>5, ToEffect DEF ReqPC, PinRight
    <2>3. Fits(req[h], otp, user')
      BY <1>1, <2>1, KeptIsSound, FitsGrows, TypesApart DEF BaseTypes
    <2>4. Fits(req'[h], otp, user')
      BY <1>3, <2>2, <2>3
    <2>. QED
      BY <1>5, <2>1, <2>2, <2>4, MoveIsSound DEF PinRight
  <1>6. ASSUME PinWrong(h) PROVE Good
    <2>1. /\ user' \in [Users -> UserRow] /\ OtherUsers(u) /\ SamePin(user[u], user'[u])
      BY <1>1, <1>6, FailureEffect, TypesApart DEF PinWrong, BaseTypes
    <2>2. UserKept
      BY <1>1, <2>1, AccountKept DEF SamePin
    <2>. QED
      BY <1>6, <2>2, AnswerIsSound DEF PinWrong
  <1>. QED
    BY <1>4, <1>5, <1>6

LEMMA ResetPinSound ==
    ASSUME BaseTypes, NEW h \in Handlers, ResetPin(h), UNCHANGED otp
    PROVE  Sound(h) /\ Written' = Written
  <1>. DEFINE u == req[h].user
              n == user[u].pin + 1
              q == [req[h] EXCEPT !.guess = n, !.pc = "revokeAll"]
  <1>1. /\ req \in [Handlers -> Request] /\ Fits(req[h], otp, user) /\ req[h].op = "reset"
        /\ u \in Users /\ user[u].phone # None
    BY OperationOf, UserOf DEF ResetPin
  <1>2. n \in Nat
    BY <1>1, UserFields DEF BaseTypes
  <1>3. req[h] \in Request /\ req' = [req EXCEPT ![h] = q]
    BY <1>1 DEF ResetPin
  <1>. HIDE DEF n
  <1>4. /\ q \in Request /\ q.pc = "revokeAll" /\ q.op = "reset" /\ q.row = req[h].row
        /\ q.next = req[h].next /\ q.user = u
    BY <1>1, <1>2, <1>3 DEF Request, ReqPC
  <1>. HIDE DEF q
  <1>5. req' \in [Handlers -> Request] /\ Others(h) /\ req'[h] = q
    BY <1>1, <1>3, <1>4, PlaceOfStep
  <1>6. user' \in [Users -> UserRow] /\ OtherUsers(u) /\ user'[u].phone = user[u].phone
    BY <1>1, SetPinEffect, TypesApart DEF ResetPin, BaseTypes
  <1>7. UserKept
    BY <1>1, <1>6, AccountKept
  <1>8. Fits(q, otp, user')
    BY <1>1, <1>4, <1>6, NoneIsNothing DEF Fits, SendFits, VerifyFits, SignupFits,
       ResetFits, ChangeFits, LoginFits, RefreshFits, KnownUser, Operations
  <1>. QED
    BY <1>5, <1>7, <1>8, MoveIsSound DEF ResetPin

\* A session that is presented, and the row of its code.
LEMMA SessionOf ==
    ASSUME BaseTypes, NEW s \in session
    PROVE  /\ s.row \in Rows /\ otp[s.row].phone # None /\ s.phone = otp[s.row].phone
           /\ s.phone \in Phones /\ s.purpose = otp[s.row].purpose
           /\ s.user \in Users \cup {None}
           /\ s.user # None => s.user \in Users /\ user[s.user].phone # None
  BY TypesApart DEF BaseTypes, AllFit, SessionFits, KnownRow, KnownUser, Session

LEMMA UseKept ==
    ASSUME BaseTypes, NEW h, NEW request, Use(h, request)
    PROVE  OtpKept
  <1>1. /\ otp' \in [Rows -> OtpRow]
        /\ \A r \in Rows : SameCode(otp[r], otp'[r]) /\ SameUses(otp[r], otp'[r])
    BY UseEffect, TypesApart DEF Use, BaseTypes
  <1>2. ASSUME NEW r \in Rows, otp[r].phone = None
        PROVE  otp'[r] = otp[r]
    <2>1. r \notin {request.row, request.next} \/ Using(r) = {} => otp'[r] = otp[r]
      BY UseEffect, TypesApart DEF Use, BaseTypes
    <2>2. Using(r) = {}
      BY <1>2, OperationOf, RowOf, NoneIsNothing DEF Using, Fits, SignupFits, ResetFits,
         ChangeFits, KnownRow, Uses
    <2>. QED
      BY <2>1, <2>2
  <1>. QED
    BY <1>1, <1>2, RowFields DEF OtpKept, SameUses, BaseTypes

\* The requests that present sessions.
Signing(s) == [NoRequest EXCEPT !.pc = "consRead", !.op = "signup", !.row = s.row,
                                !.phone = s.phone, !.purpose = "SIGNUP"]
Replacing(s) == [NoRequest EXCEPT !.pc = "consRead", !.op = "reset", !.row = s.row,
                                  !.user = s.user, !.purpose = "RESET"]
Changing(c, n) == [NoRequest EXCEPT !.pc = "consRead", !.op = "change", !.row = c.row,
                                !.next = n.row, !.phone = n.phone, !.user = c.user,
                                !.purpose = "PHONE_CHANGE"]

LEMMA SigningFields ==
    ASSUME BaseTypes, NEW s \in session
    PROVE  LET q == Signing(s) IN
           /\ q \in Request /\ q.pc = "consRead" /\ q.op = "signup" /\ q.row = s.row
           /\ q.phone = s.phone /\ q.next = None /\ q.user = None /\ q.purpose = "SIGNUP"
  <1>1. s.row \in Rows /\ s.phone \in Phones
    BY SessionOf
  <1>. QED
    BY <1>1 DEF Signing, NoRequest, Request, ReqPC, Operations, Purposes

LEMMA ReplacingFields ==
    ASSUME BaseTypes, NEW s \in session
    PROVE  LET q == Replacing(s) IN
           /\ q \in Request /\ q.pc = "consRead" /\ q.op = "reset" /\ q.row = s.row
           /\ q.next = None /\ q.user = s.user /\ q.purpose = "RESET"
  <1>1. s.row \in Rows /\ s.user \in Users \cup {None}
    BY SessionOf
  <1>. QED
    BY <1>1 DEF Replacing, NoRequest, Request, ReqPC, Operations, Purposes

LEMMA ChangingFields ==
    ASSUME BaseTypes, NEW c \in session, NEW n \in session
    PROVE  LET q == Changing(c, n) IN
           /\ q \in Request /\ q.pc = "consRead" /\ q.op = "change" /\ q.row = c.row
           /\ q.next = n.row /\ q.user = c.user /\ q.phone = n.phone
           /\ q.purpose = "PHONE_CHANGE"
  <1>1. /\ c.row \in Rows /\ c.user \in Users \cup {None}
        /\ n.row \in Rows /\ n.phone \in Phones
    BY SessionOf
  <1>. QED
    BY <1>1 DEF Changing, NoRequest, Request, ReqPC, Operations, Purposes

LEMMA PresentSound ==
    ASSUME BaseTypes, NEW h \in Handlers, NEW s \in session, NEW n \in session,
           Signup(h, s) \/ Reset(h, s) \/ Change(h, s, n)
    PROVE  Sound(h) /\ Written' = Written
  <1>. DEFINE Good == Sound(h) /\ Written' = Written
  <1>1. ASSUME NEW q \in Request, Use(h, q), Fits(q, otp, user),
               UNCHANGED <<world, now, user>>
        PROVE  Good
    <2>1. OtpKept
      BY <1>1, UseKept
    <2>2. req' \in [Handlers -> Request] /\ Others(h) /\ req'[h] = q
      BY <1>1, ArriveEffect, TypesApart DEF Use, BaseTypes
    <2>3. Fits(q, otp', user')
      BY <1>1, <2>1, KeptIsSound, FitsGrows, TypesApart DEF BaseTypes
    <2>. QED
      BY <1>1, <2>1, <2>2, <2>3, MoveIsSound
  <1>2. ASSUME Signup(h, s) PROVE Good
    <2>1. Use(h, Signing(s)) /\ s.purpose = "SIGNUP"
      BY <1>2 DEF Signup, Signing, Valid
    <2>2. Fits(Signing(s), otp, user)
      BY <2>1, SigningFields, SessionOf, NoneIsNothing DEF Fits, SendFits, VerifyFits,
         SignupFits, ResetFits, ChangeFits, LoginFits, RefreshFits, KnownRow, Operations
    <2>. QED
      BY <1>1, <1>2, <2>1, <2>2, SigningFields DEF Signup
  <1>3. ASSUME Reset(h, s) PROVE Good
    <2>1. Use(h, Replacing(s)) /\ s.user # None
      BY <1>3 DEF Reset, Replacing
    <2>2. Fits(Replacing(s), otp, user)
      BY <2>1, ReplacingFields, SessionOf, NoneIsNothing DEF Fits, SendFits, VerifyFits,
         SignupFits, ResetFits, ChangeFits, LoginFits, RefreshFits, KnownRow, KnownUser, Operations
    <2>. QED
      BY <1>1, <1>3, <2>1, <2>2, ReplacingFields DEF Reset
  <1>4. ASSUME Change(h, s, n) PROVE Good
    <2>1. Use(h, Changing(s, n)) /\ s.purpose = "PHONE_CHANGE" /\ n.purpose = "PHONE_CHANGE"
      BY <1>4 DEF Change, Changing, Valid
    <2>2. Fits(Changing(s, n), otp, user)
      BY <2>1, ChangingFields, SessionOf, NoneIsNothing DEF Fits, SendFits, VerifyFits,
         SignupFits, ResetFits, ChangeFits, LoginFits, RefreshFits, KnownRow, KnownUser, Operations
    <2>. QED
      BY <1>1, <1>4, <2>1, <2>2, ChangingFields DEF Change
  <1>. QED
    BY <1>2, <1>3, <1>4

\* The session a right code opens says what its row says.
LEMMA VerUserSound ==
    ASSUME BaseTypes, NEW h \in Handlers, VerUser(h)
    PROVE  /\ Sound(h) /\ Written' = Written
           /\ \A s \in session' : s \in Session /\ SessionFits(s, otp, user)
  <1>1. Sound(h) /\ Written' = Written
    BY AnswerIsSound DEF VerUser
  <1>2. /\ req \in [Handlers -> Request] /\ Fits(req[h], otp, user) /\ req[h].op = "verify"
        /\ req[h].row \in Rows /\ otp[req[h].row].phone # None
        /\ req[h].purpose = otp[req[h].row].purpose
    BY OperationOf, RowOf DEF VerUser, Fits, VerifyFits
  <1>3. otp[req[h].row].phone \in Phones /\ otp[req[h].row].purpose \in Purposes /\ now \in Nat
        /\ now + SessionTtl \in Nat
    BY <1>2, RowFields, TypesApart, SessionAssumption DEF BaseTypes, Blank
  <1>4. ASSUME NEW v \in Users \cup {None}, v # None => user[v].phone # None,
               NEW s \in Signed(h, v)
        PROVE  s \in Session /\ SessionFits(s, otp, user)
    <2>1. ASSUME s \in session PROVE s \in Session /\ SessionFits(s, otp, user)
      BY <2>1, TypesApart DEF BaseTypes, AllFit
    <2>2. ASSUME s = [row |-> req[h].row, phone |-> otp[req[h].row].phone,
                      purpose |-> req[h].purpose, user |-> v, expires |-> now + SessionTtl]
          PROVE  s \in Session /\ SessionFits(s, otp, user)
      BY <1>2, <1>3, <1>4, <2>2 DEF Session, SessionFits, KnownRow, KnownUser
    <2>. QED
      BY <1>4, <2>1, <2>2 DEF Signed
  <1>5. \A u \in Owner(otp[req[h].row].phone) : u \in Users /\ user[u].phone # None
    BY <1>2 DEF Owner
  <1>6. /\ \A v \in Users \cup {None} : (v # None => user[v].phone # None) =>
              \A s \in Signed(h, v) : s \in Session /\ SessionFits(s, otp, user)
        /\ \A s \in session : s \in Session /\ SessionFits(s, otp, user)
    BY <1>4, TypesApart DEF BaseTypes, AllFit
  <1>7. \/ session' = session
        \/ session' = Signed(h, None)
        \/ \E u \in Owner(otp[req[h].row].phone) : session' = Signed(h, u)
    BY DEF VerUser
  <1>8. CASE session' = session
    BY <1>1, <1>6, <1>8
  <1>9. CASE session' = Signed(h, None)
    BY <1>1, <1>6, <1>9
  <1>10. CASE \E u \in Owner(otp[req[h].row].phone) : session' = Signed(h, u)
    BY <1>1, <1>5, <1>6, <1>10
  <1>. QED
    BY <1>7, <1>8, <1>9, <1>10

LEMMA SignFindSound ==
    ASSUME BaseTypes, NEW h \in Handlers, SignFind(h)
    PROVE  Sound(h) /\ Written' = Written
  <1>. DEFINE Good == Sound(h) /\ Written' = Written
  <1>1. /\ req \in [Handlers -> Request] /\ Fits(req[h], otp, user) /\ req[h].op = "signup"
        /\ req[h].pc = "entered"
    BY OperationOf DEF SignFind
  <1>2. ASSUME Answer(h) PROVE Good
    BY <1>2, AnswerIsSound DEF SignFind
  <1>3. ASSUME To(h, "signCreate") PROVE Good
    <2>1. /\ req' \in [Handlers -> Request] /\ Others(h)
          /\ req'[h].pc = "signCreate" /\ Named(req[h], req'[h]) /\ req'[h].row = req[h].row
          /\ req'[h].next = req[h].next /\ req'[h].user = req[h].user
      BY <1>1, <1>3, ToEffect DEF ReqPC
    <2>2. Fits(req'[h], otp, user)
      BY <1>1, <2>1, NoneIsNothing DEF Fits, SendFits, VerifyFits, SignupFits, ResetFits,
         ChangeFits, LoginFits, RefreshFits, Named, Operations
    <2>. QED
      BY <2>1, <2>2, MoveIsSound DEF SignFind
  <1>. QED
    BY <1>2, <1>3 DEF SignFind

LEMMA SignCreateSound ==
    ASSUME BaseTypes, NEW h \in Handlers, SignCreate(h)
    PROVE  Sound(h) /\ Written' = Written
  <1>. DEFINE Good == Sound(h) /\ Written' = Written
  <1>1. /\ req \in [Handlers -> Request] /\ Fits(req[h], otp, user) /\ req[h].op = "signup"
        /\ req[h].pc = "signCreate"
    BY OperationOf DEF SignCreate
  <1>2. /\ req[h].row \in Rows /\ otp[req[h].row].phone # None
        /\ req[h].phone = otp[req[h].row].phone /\ req[h].phone \in Phones
    BY <1>1, RowFields DEF BaseTypes, Fits, SignupFits, KnownRow
  <1>3. ASSUME Answer(h), UNCHANGED user PROVE Good
    BY <1>3, AnswerIsSound DEF SignCreate
  <1>4. ASSUME NEW u \in Users \ Registered,
               user' = [user EXCEPT ![u] = [NoUser EXCEPT !.phone = req[h].phone, !.pin = 1]],
               req' = [req EXCEPT ![h].pc = "issue", ![h].user = u, ![h].guess = 1]
        PROVE Good
    <2>. DEFINE q == [req[h] EXCEPT !.pc = "issue", !.user = u, !.guess = 1]
    <2>1. req[h] \in Request /\ req' = [req EXCEPT ![h] = q]
      BY <1>1, <1>4
    <2>2. /\ q \in Request /\ q.pc = "issue" /\ q.op = "signup" /\ q.row = req[h].row
          /\ q.next = req[h].next /\ q.user = u /\ q.phone = req[h].phone
      BY <1>1, <2>1 DEF Request, ReqPC
    <2>. HIDE DEF q
    <2>3. req' \in [Handlers -> Request] /\ Others(h) /\ req'[h] = q
      BY <1>1, <2>1, <2>2, PlaceOfStep
    <2>4. /\ user' \in [Users -> UserRow] /\ OtherUsers(u) /\ user'[u].phone = req[h].phone
      BY <1>2, <1>4, NewUserEffect, TypesApart DEF BaseTypes
    <2>5. Grows(otp, user, otp', user') /\ Blank'
      <3>1. otp' = otp /\ otp \in [Rows -> OtpRow]
        BY TypesApart DEF BaseTypes, SignCreate
      <3>2. \A x \in Users : user[x].phone # None => user'[x].phone # None
        BY <2>4 DEF OtherUsers, Registered
      <3>3. \A x \in Users : user'[x].phone = None => user'[x] = NoUser
        BY <1>2, <2>4, NoneIsNothing DEF OtherUsers, BaseTypes, Blank
      <3>4. \A r \in Rows : otp[r].entered >= otp[r].entered
        BY RowFields DEF BaseTypes
      <3>. QED
        BY <3>1, <3>2, <3>3, <3>4 DEF Grows, Blank, BaseTypes
    <2>6. Fits(q, otp', user')
      BY <1>1, <1>2, <2>2, <2>4, NoneIsNothing DEF Fits, SendFits, VerifyFits, SignupFits,
         ResetFits, ChangeFits, LoginFits, RefreshFits, KnownUser, Operations, SignCreate
    <2>. QED
      BY <2>3, <2>4, <2>5, <2>6, TypesApart DEF Sound, BaseTypes, SignCreate, Written
  <1>. QED
    BY <1>3, <1>4 DEF SignCreate

LEMMA ChangeSound ==
    ASSUME BaseTypes, NEW h \in Handlers, ChangeChecked(h) \/ ChgDup(h) \/ ChgWrite(h)
    PROVE  Sound(h) /\ Written' = Written
  <1>. DEFINE Good == Sound(h) /\ Written' = Written
  <1>1. /\ req \in [Handlers -> Request] /\ Fits(req[h], otp, user) /\ req[h].op = "change"
        /\ req[h].pc \in {"entered", "chgDup", "chgWrite"}
    BY OperationOf DEF ChangeChecked, ChgDup, ChgWrite
  <1>2. ASSUME NEW v, Fits(req[h], otp, v), Named(req[h], req'[h]), req[h].user # None,
               req'[h].row = req[h].row, req'[h].next = req[h].next,
               req'[h].user = req[h].user,
               req'[h].pc \in {"chgDup", "chgWrite", "revokeAll"}
        PROVE  Fits(req'[h], otp, v)
    BY <1>1, <1>2, NoneIsNothing DEF Fits, SendFits, VerifyFits, SignupFits, ResetFits,
       ChangeFits, LoginFits, RefreshFits, Named, Operations
  <1>3. ASSUME NEW p \in {"chgDup", "chgWrite"}, To(h, p), req[h].user # None,
               UNCHANGED <<world, now, otp, user>>
        PROVE Good
    <2>1. /\ req' \in [Handlers -> Request] /\ Others(h)
          /\ req'[h].pc = p /\ Named(req[h], req'[h]) /\ req'[h].row = req[h].row
          /\ req'[h].next = req[h].next /\ req'[h].user = req[h].user
      BY <1>1, <1>3, ToEffect DEF ReqPC
    <2>2. Fits(req'[h], otp, user)
      BY <1>1, <1>2, <1>3, <2>1
    <2>. QED
      BY <1>3, <2>1, <2>2, MoveIsSound
  <1>4. ASSUME ChangeChecked(h) PROVE Good
    BY <1>3, <1>4, AnswerIsSound DEF ChangeChecked
  <1>5. ASSUME req[h].pc # "entered"
        PROVE  /\ req[h].user \in Users /\ user[req[h].user].phone # None
               /\ req[h].user # None /\ req[h].phone \in Phones
    BY <1>1, <1>5, UserOf, RowOf, RowFields, NoneIsNothing DEF BaseTypes, Fits, ChangeFits,
       KnownRow, Uses
  <1>6. ASSUME ChgDup(h) PROVE Good
    BY <1>3, <1>5, <1>6, AnswerIsSound DEF ChgDup
  <1>7. ASSUME ChgWrite(h) PROVE Good
    <2>. DEFINE u == req[h].user
    <2>1. u \in Users /\ user[u].phone # None /\ req[h].phone \in Phones /\ u # None
      BY <1>5, <1>7 DEF ChgWrite
    <2>2. ASSUME Answer(h), UNCHANGED user PROVE Good
      BY <1>7, <2>2, AnswerIsSound DEF ChgWrite
    <2>3. ASSUME To(h, "revokeAll"), user' = [user EXCEPT ![u].phone = req[h].phone]
          PROVE Good
      <3>1. /\ req' \in [Handlers -> Request] /\ Others(h)
            /\ req'[h].pc = "revokeAll" /\ Named(req[h], req'[h]) /\ req'[h].row = req[h].row
            /\ req'[h].next = req[h].next /\ req'[h].user = req[h].user
        BY <1>1, <2>3, ToEffect DEF ReqPC
      <3>2. user' \in [Users -> UserRow] /\ OtherUsers(u) /\ user'[u].phone = req[h].phone
        BY <2>1, <2>3, PhoneEffect, TypesApart DEF BaseTypes
      <3>3. UserKept
        BY <2>1, <3>2, AccountKept, NoneIsNothing
      <3>4. Fits(req[h], otp, user')
        BY <1>1, <3>3, KeptIsSound, FitsGrows, TypesApart, <1>7 DEF BaseTypes, ChgWrite
      <3>5. Fits(req'[h], otp, user')
        BY <1>2, <2>1, <3>1, <3>4
      <3>. QED
        BY <1>7, <3>1, <3>3, <3>5, MoveIsSound DEF ChgWrite
    <2>. QED
      BY <1>7, <2>2, <2>3 DEF ChgWrite
  <1>. QED
    BY <1>4, <1>6, <1>7

LEMMA TokensSound ==
    ASSUME BaseTypes, NEW h \in Handlers,
           RotRevoke(h) \/ RevokeAll(h) \/ Issue(h) \/ CallFails(h)
    PROVE  Sound(h) /\ Written' = Written
  <1>. DEFINE Good == Sound(h) /\ Written' = Written
  <1>1. UserKept \/ user' = user
    BY TokenStepsKeep, AccountKept DEF SamePin
  <1>2. UNCHANGED <<world, now, otp>>
    BY DEF RotRevoke, RevokeAll, Issue, CallFails
  <1>3. ASSUME Answer(h) PROVE Good
    BY <1>1, <1>2, <1>3, AnswerIsSound
  <1>4. ASSUME To(h, "issue"), \/ req[h].op = "reset"
                               \/ req[h].op = "refresh"
        PROVE  Good
    <2>1. req \in [Handlers -> Request] /\ Fits(req[h], otp, user)
      BY OperationOf
    <2>2. /\ req' \in [Handlers -> Request] /\ Others(h)
          /\ req'[h].pc = "issue" /\ Named(req[h], req'[h]) /\ req'[h].row = req[h].row
          /\ req'[h].next = req[h].next /\ req'[h].user = req[h].user
      BY <1>4, <2>1, ToEffect DEF ReqPC
    <2>3. Fits(req[h], otp, user') /\ otp' = otp
      BY <1>1, <1>2, <2>1, KeptIsSound, FitsGrows, TypesApart DEF BaseTypes
    <2>4. Fits(req'[h], otp', user')
      BY <1>4, <2>2, <2>3, NoneIsNothing DEF Fits, SendFits, VerifyFits, SignupFits, ResetFits,
         ChangeFits, LoginFits, RefreshFits, Named, Operations
    <2>. QED
      BY <1>1, <1>2, <2>2, <2>4, MoveIsSound
  <1>5. CASE RotRevoke(h)
    BY <1>4, <1>5, OperationOf DEF RotRevoke
  <1>6. CASE ~RotRevoke(h)
    BY <1>3, <1>4, <1>6 DEF RevokeAll, Issue, CallFails
  <1>. QED
    BY <1>5, <1>6

\* A refresh as it arrives.
Rotating(u, guess) == [NoRequest EXCEPT !.pc = "rotRead", !.op = "refresh", !.user = u,
                                        !.guess = guess]

LEMMA RotatingFields ==
    ASSUME BaseTypes, NEW u \in Registered, NEW guess \in user[u].live \cup {0}
    PROVE  LET q == Rotating(u, guess) IN
           /\ q \in Request /\ q.pc = "rotRead" /\ q.op = "refresh" /\ q.row = None
           /\ q.next = None /\ q.user = u
  <1>1. u \in Users /\ guess \in Nat
    BY UserFields DEF Registered, BaseTypes
  <1>. QED
    BY <1>1 DEF Rotating, NoRequest, Request, ReqPC, Operations

LEMMA RefreshSound ==
    ASSUME BaseTypes, NEW h \in Handlers,
           \/ \E u \in Registered : \E guess \in user[u].live \cup {0} : Refresh(h, u, guess)
           \/ RotRead(h)
    PROVE  Sound(h) /\ Written' = Written
  <1>. DEFINE Good == Sound(h) /\ Written' = Written
  <1>1. ASSUME NEW u \in Registered, NEW guess \in user[u].live \cup {0}, Refresh(h, u, guess)
        PROVE  Good
    <2>1. Arrive(h, Rotating(u, guess)) /\ UNCHANGED <<world, now, otp, user>>
      BY <1>1 DEF Refresh, Rotating
    <2>2. req' \in [Handlers -> Request] /\ Others(h) /\ req'[h] = Rotating(u, guess)
      BY <2>1, RotatingFields, ArriveEffect, TypesApart DEF BaseTypes
    <2>3. Fits(Rotating(u, guess), otp, user)
      BY RotatingFields, NoneIsNothing DEF Fits, SendFits, VerifyFits, SignupFits, ResetFits,
         ChangeFits, LoginFits, RefreshFits, KnownUser, Registered, Operations
    <2>. QED
      BY <2>1, <2>2, <2>3, MoveIsSound
  <1>2. ASSUME RotRead(h) PROVE Good
    <2>1. PICK p \in {"rotRevoke", "revokeAll"} : To(h, p)
      BY <1>2 DEF RotRead
    <2>2. /\ req \in [Handlers -> Request] /\ Fits(req[h], otp, user) /\ req[h].op = "refresh"
          /\ UNCHANGED <<world, now, otp, user>>
      BY <1>2, OperationOf DEF RotRead
    <2>3. /\ req' \in [Handlers -> Request] /\ Others(h)
          /\ req'[h].pc = p /\ Named(req[h], req'[h]) /\ req'[h].row = req[h].row
          /\ req'[h].next = req[h].next /\ req'[h].user = req[h].user
      BY <2>1, <2>2, ToEffect DEF ReqPC
    <2>4. Fits(req'[h], otp, user)
      BY <2>2, <2>3, NoneIsNothing DEF Fits, SendFits, VerifyFits, SignupFits, ResetFits,
         ChangeFits, LoginFits, RefreshFits, Named, Operations
    <2>. QED
      BY <2>2, <2>3, <2>4, MoveIsSound
  <1>. QED
    BY <1>1, <1>2

----------------------------------------------------------------------------
(* Types                                                                   *)

\* A step of h that is not the start of a send, by the module it is in.
OtpMove(h) ==
    /\ \/ \E r \in Written, right \in {0, 1} : VerifyOtp(h, r, right)
       \/ OtpStep(h) \/ OtpReplyLost(h)
    /\ UNCHANGED <<user, session>>
PinMove(h) ==
    /\ \/ \E p \in Phones, u \in Registered : \E guess \in 0..user[u].pin : Login(h, p, guess)
       \/ PinStep(h)
    /\ UNCHANGED <<otp, session>>
AccountMove(h) ==
    \/ \E s \in session : Signup(h, s) \/ Reset(h, s) \/ \E n \in session : Change(h, s, n)
    \/ VerUser(h) \/ SignFind(h) \/ SignCreate(h) \/ ChangeChecked(h) \/ ChgDup(h)
    \/ ChgWrite(h) \/ RevokeAll(h) \/ Issue(h) \/ CallFails(h)
    \/ \E u \in Registered : \E guess \in user[u].live \cup {0} : Refresh(h, u, guess)
    \/ RotRead(h) \/ RotRevoke(h)
Move(h) == OtpMove(h) \/ PinMove(h) \/ AccountMove(h)

LEMMA NextIsMove ==
    ASSUME Next
    PROVE  \/ Tick /\ UNCHANGED <<otp, user, session>>
           \/ \E h \in Handlers : \/ /\ \E p \in Phones, k \in Purposes : SendOtp(h, p, k)
                                     /\ UNCHANGED <<user, session>>
                                  \/ Move(h)
  BY DEF Next, Move, OtpMove, PinMove, AccountMove

\* Only CreateOtp writes a row, whether or not its reply is lost.
Adds(h) == req[h].pc = "createOtp" /\ AddRow(h)

LEMMA MoveSound ==
    ASSUME BaseTypes, Capacity, NEW h \in Handlers, Move(h)
    PROVE  /\ Sound(h)
           /\ \/ Written' = Written
              \/ Adds(h) /\ Written' = Written \cup {Cardinality(Written) + 1}
           /\ \A s \in session' : s \in Session /\ SessionFits(s, otp', user')
  <1>. DEFINE Good == /\ Sound(h)
                      /\ \/ Written' = Written
                         \/ Adds(h) /\ Written' = Written \cup {Cardinality(Written) + 1}
  <1>1. ASSUME OtpMove(h) PROVE Good
    <2>1. ASSUME NEW r \in Written, NEW right \in {0, 1}, VerifyOtp(h, r, right)
          PROVE  Good
      BY <1>1, <2>1, VerifyOtpSound DEF OtpMove
    <2>2. ASSUME OtpReplyLost(h) PROVE Good
      <3>1. req[h].pc = "createOtp" => AddRow(h)
        BY <2>2 DEF OtpReplyLost
      <3>. QED
        BY <1>1, <2>2, <3>1, ReplyLostSound DEF OtpMove, Adds
    <2>3. ASSUME CreateOtp(h) PROVE Good
      BY <1>1, <2>3, CreateSound DEF OtpMove, CreateOtp, Adds
    <2>4. ASSUME FindRecent(h) \/ SendSms(h) PROVE Good
      BY <1>1, <2>4, SendSound DEF OtpMove
    <2>5. ASSUME VerRead(h) \/ VerWrong(h) \/ VerConsume(h) PROVE Good
      BY <1>1, <2>5, VerifySound DEF OtpMove
    <2>6. ASSUME ConsRead(h) \/ ConsWrite(h) PROVE Good
      BY <1>1, <2>6, UseSound DEF OtpMove
    <2>. QED
      BY <1>1, <2>1, <2>2, <2>3, <2>4, <2>5, <2>6 DEF OtpMove, OtpStep
  <1>2. ASSUME PinMove(h) PROVE Good
    <2>1. ASSUME NEW p \in Phones, NEW u \in Registered, NEW guess \in 0..user[u].pin,
                 Login(h, p, guess)
          PROVE  Good
      BY <1>2, <2>1, LoginSound DEF PinMove
    <2>2. ASSUME PinStep(h) PROVE Good
      BY <1>2, <2>2, LogFindSound, PinSound, ResetPinSound DEF PinMove, PinStep
    <2>. QED
      BY <1>2, <2>1, <2>2 DEF PinMove
  <1>3. ASSUME AccountMove(h) PROVE Good
    BY <1>3, PresentSound, VerUserSound, SignFindSound, SignCreateSound, ChangeSound,
       TokensSound, RefreshSound DEF AccountMove
  <1>4. \A s \in session' : s \in Session /\ SessionFits(s, otp', user')
    <2>1. CASE VerUser(h)
      BY <2>1, VerUserSound DEF VerUser
    <2>2. CASE ~VerUser(h)
      <3>1. session' = session
        BY <2>2 DEF Move, OtpMove, PinMove, AccountMove, Signup, Reset, Change, SignFind,
           SignCreate, ChangeChecked, ChgDup, ChgWrite, RevokeAll, Issue, CallFails,
           Refresh, RotRead, RotRevoke
      <3>2. Sound(h)
        BY <1>1, <1>2, <1>3 DEF Move
      <3>3. ASSUME NEW s \in session
            PROVE  s \in Session /\ SessionFits(s, otp', user')
        <4>1. s \in Session /\ SessionFits(s, otp, user)
          BY TypesApart DEF BaseTypes, AllFit
        <4>. QED
          BY <3>2, <4>1, SessionFitsGrows, TypesApart DEF Sound, BaseTypes
      <3>. QED
        BY <3>1, <3>3
    <2>. QED
      BY <2>1, <2>2
  <1>. QED
    BY <1>1, <1>2, <1>3, <1>4 DEF Move

\* No other step sends a request where its code is written.
LEMMA MovePlaces ==
    ASSUME BaseTypes, Capacity, NEW h \in Handlers, Move(h)
    PROVE  /\ req'[h].pc \in {"findRecent", "createOtp"} =>
                req[h].pc = "findRecent" /\ req'[h].pc = "createOtp"
                  /\ FindRecent(h) /\ ~MayNotSend(h)
           /\ Adds(h) => req'[h].pc \notin {"findRecent", "createOtp"}
  <1>. DEFINE Good == req'[h].pc \notin {"findRecent", "createOtp"}
  <1>1. req \in [Handlers -> Request] /\ req[h] \in Request
    BY TypesApart DEF BaseTypes
  <1>2. ASSUME Answer(h) PROVE Good
    BY <1>1, <1>2, AnswerEffect
  <1>3. ASSUME NEW p, To(h, p), p \notin {"findRecent", "createOtp"} PROVE Good
    BY <1>1, <1>3 DEF To, Request
  <1>4. ASSUME NEW q, Arrive(h, q), q.pc \notin {"findRecent", "createOtp"} PROVE Good
    BY <1>1, <1>4 DEF Arrive
  <1>5. ASSUME OtpMove(h), ~FindRecent(h) PROVE Good
    <2>1. ASSUME NEW r \in Written, NEW right \in {0, 1}, VerifyOtp(h, r, right)
          PROVE  Good
      BY <1>1, <2>1 DEF VerifyOtp, Arrive, NoRequest, Request
    <2>2. ASSUME OtpReplyLost(h) PROVE Good
      BY <1>2, <2>2 DEF OtpReplyLost
    <2>3. ASSUME CreateOtp(h) PROVE Good
      BY <1>1, <2>3 DEF CreateOtp, Request
    <2>4. ASSUME SendSms(h) \/ VerWrong(h) PROVE Good
      BY <1>2, <2>4 DEF SendSms, VerWrong
    <2>5. ASSUME VerRead(h) PROVE Good
      BY <1>1, <1>2, <2>5 DEF VerRead, Request
    <2>6. ASSUME VerConsume(h) \/ ConsRead(h) PROVE Good
      BY <1>2, <1>3, <2>6 DEF VerConsume, ConsRead
    <2>7. ASSUME ConsWrite(h) PROVE Good
      BY <1>1, <1>3, <2>7 DEF ConsWrite, Request
    <2>. QED
      BY <1>5, <2>1, <2>2, <2>3, <2>4, <2>5, <2>6, <2>7 DEF OtpMove, OtpStep
  <1>6. ASSUME PinMove(h) PROVE Good
    <2>1. ASSUME NEW p \in Phones, NEW guess, Login(h, p, guess) PROVE Good
      BY <1>1, <2>1 DEF Login, Arrive, NoRequest, Request
    <2>2. ASSUME LogFind(h) PROVE Good
      BY <1>1, <1>2, <2>2 DEF LogFind, Request
    <2>3. ASSUME PinRead(h) PROVE Good
      BY <1>1, <1>2, <2>3 DEF PinRead, Request
    <2>4. ASSUME PinRight(h) \/ PinWrong(h) PROVE Good
      BY <1>2, <1>3, <2>4 DEF PinRight, PinWrong
    <2>5. ASSUME ResetPin(h) PROVE Good
      BY <1>1, <2>5 DEF ResetPin, Request
    <2>. QED
      BY <1>6, <2>1, <2>2, <2>3, <2>4, <2>5 DEF PinMove, PinStep
  <1>7. ASSUME AccountMove(h) PROVE Good
    <2>1. ASSUME NEW s \in session, NEW n \in session, Signup(h, s) \/ Reset(h, s) \/ Change(h, s, n)
          PROVE  Good
      <3>1. Arrive(h, Signing(s)) \/ Arrive(h, Replacing(s)) \/ Arrive(h, Changing(s, n))
        BY <2>1 DEF Signup, Reset, Change, Use, Signing, Replacing, Changing
      <3>. QED
        BY <1>4, <3>1, SigningFields, ReplacingFields, ChangingFields
    <2>2. ASSUME VerUser(h) \/ CallFails(h) \/ Issue(h) PROVE Good
      BY <1>2, <2>2 DEF VerUser, CallFails, Issue
    <2>3. ASSUME \/ SignFind(h) \/ ChangeChecked(h) \/ ChgDup(h) \/ ChgWrite(h)
                 \/ RevokeAll(h) \/ RotRead(h) \/ RotRevoke(h)
          PROVE  Good
      BY <1>2, <1>3, <2>3 DEF SignFind, ChangeChecked, ChgDup, ChgWrite, RevokeAll, RotRead,
         RotRevoke
    <2>4. ASSUME SignCreate(h) PROVE Good
      <3>1. ASSUME NEW u \in Users,
                   req' = [req EXCEPT ![h].pc = "issue", ![h].user = u, ![h].guess = 1]
            PROVE  Good
        BY <1>1, <3>1 DEF Request
      <3>. QED
        BY <1>2, <2>4, <3>1 DEF SignCreate
    <2>5. ASSUME NEW u \in Registered, NEW guess \in user[u].live \cup {0}, Refresh(h, u, guess)
          PROVE  Good
      <3>1. Arrive(h, Rotating(u, guess))
        BY <2>5 DEF Refresh, Rotating
      <3>. QED
        BY <1>4, <3>1, RotatingFields
    <2>. QED
      BY <1>7, <2>1, <2>2, <2>3, <2>4, <2>5 DEF AccountMove
  <1>8. ASSUME FindRecent(h), ~Good
        PROVE  /\ req[h].pc = "findRecent" /\ req'[h].pc = "createOtp" /\ ~MayNotSend(h)
               /\ ~Adds(h)
    BY <1>1, <1>2, <1>8 DEF FindRecent, To, Adds, Request
  <1>. QED
    BY <1>5, <1>6, <1>7, <1>8 DEF Move

LEMMA CapacityKept ==
    ASSUME BaseInv, Next
    PROVE  Capacity'
  <1>. DEFINE n == Cardinality(Written)
  <1>1. /\ n \in Nat /\ Written = 1..n /\ IsFiniteSet(ToWrite) /\ Cardinality(ToWrite) \in Nat
        /\ n + Cardinality(ToWrite) <= Len(world.codes)
        /\ Len(world.codes) <= MaxRows /\ Len(world.codes) \in Nat /\ MaxRows \in Nat
    BY CapacityFacts, RequestAssumption DEF BaseInv
  <1>. HIDE DEF n
  <1>2. ASSUME Written' = Written, world' = world, ToWrite' \subseteq ToWrite
        PROVE  Capacity'
    <2>1. Cardinality(ToWrite') \in Nat /\ Cardinality(ToWrite') <= Cardinality(ToWrite)
      BY <1>1, <1>2, FS_Subset, FS_CardinalityType
    <2>2. n \in 0..MaxRows /\ Written' = 1..n
            /\ n + Cardinality(ToWrite') <= Len(world'.codes)
      BY <1>1, <1>2, <2>1
    <2>. QED
      BY <2>2 DEF Capacity
  <1>3. ASSUME Tick, UNCHANGED <<otp, user, session>>
        PROVE  Capacity'
    BY <1>2, <1>3 DEF Tick, Written, ToWrite
  <1>4. ASSUME NEW h \in Handlers, NEW p \in Phones, NEW k \in Purposes, SendOtp(h, p, k)
        PROVE  Capacity'
    <2>1. /\ req[h].pc = "idle" /\ req'[h].pc = "findRecent"
          /\ \A g \in Handlers \ {h} : req'[g].pc = req[g].pc
      BY <1>4, SendOtpEffect, TypesApart DEF BaseInv, Alike
    <2>2. ToWrite' = ToWrite \cup {h} /\ h \notin ToWrite
      BY <2>1 DEF ToWrite
    <2>3. Cardinality(ToWrite') = Cardinality(ToWrite) + 1
      BY <1>1, <2>2, FS_AddElement
    <2>4. 1 + n + Cardinality(ToWrite) <= Len(world.codes)
      BY <1>4 DEF SendOtp, NextCode, ToWrite, n
    <2>5. n \in 0..MaxRows /\ Written' = 1..n /\ world' = world
      <3>1. UNCHANGED <<world, now, otp>>
        BY <1>4 DEF SendOtp
      <3>2. Written' = Written
        BY <3>1 DEF Written
      <3>. QED
        BY <1>1, <3>1, <3>2
    <2>6. n + Cardinality(ToWrite') <= Len(world'.codes)
      BY <1>1, <2>3, <2>4, <2>5
    <2>. QED
      BY <2>5, <2>6 DEF Capacity
  <1>5. ASSUME NEW h \in Handlers, Move(h)
        PROVE  Capacity'
    <2>1. /\ Sound(h)
          /\ \/ Written' = Written
             \/ Adds(h) /\ Written' = Written \cup {n + 1}
          /\ req'[h].pc \in {"findRecent", "createOtp"} => req[h].pc = "findRecent"
          /\ Adds(h) => req'[h].pc \notin {"findRecent", "createOtp"}
      BY <1>5, MoveSound, MovePlaces DEF BaseInv, BaseTypes, n
    <2>2. CASE Written' = Written
      BY <1>2, <2>1, <2>2 DEF ToWrite, Sound, Others
    <2>3. CASE Adds(h) /\ Written' = Written \cup {n + 1}
      <3>1. h \in ToWrite /\ ToWrite' = ToWrite \ {h}
        BY <2>1, <2>3 DEF ToWrite, Sound, Others, Adds
      <3>2. Cardinality(ToWrite') = Cardinality(ToWrite) - 1 /\ Cardinality(ToWrite) >= 1
        BY <1>1, <3>1, FS_RemoveElement, FS_EmptySet
      <3>3. n + 1 \in 0..MaxRows /\ Written' = 1..(n + 1) /\ world' = world
        BY <1>1, <2>1, <2>3, <3>2 DEF Sound
      <3>4. n + 1 + Cardinality(ToWrite') <= Len(world'.codes)
        BY <1>1, <3>2, <3>3
      <3>. QED
        BY <3>3, <3>4 DEF Capacity
    <2>. QED
      BY <2>1, <2>2, <2>3
  <1>. QED
    BY <1>3, <1>4, <1>5, NextIsMove

LEMMA BaseInit ==
    ASSUME Init
    PROVE  BaseInv
  <1>1. /\ world \in Worlds /\ now = 0 /\ req = [h \in Handlers |-> NoRequest]
        /\ otp = [r \in Rows |-> NoRow] /\ session = {}
    BY DEF Init, RequestInit, OtpInit
  <1>2. world.time \in Nat /\ world.home \in [Users -> Phones \cup {None}]
        /\ Len(world.codes) \in Nat
    BY <1>1, RequestAssumption DEF World
  <1>3. user \in [Users -> UserRow] /\ \A u \in Users : user[u].phone = None => user[u] = NoUser
    <2>. DEFINE row(u) == [NoUser EXCEPT !.phone = world.home[u], !.pin = 1, !.live = {1}]
    <2>1. ASSUME NEW u \in Users PROVE row(u) \in UserRow /\ row(u).phone = world.home[u]
      <3>1. ASSUME NEW p \in Phones \cup {None}, NEW live \in SUBSET Nat
            PROVE  LET q == [NoUser EXCEPT !.phone = p, !.pin = 1, !.live = live] IN
                   q \in UserRow /\ q.phone = p
        BY DEF UserRow, NoUser
      <3>2. world.home[u] \in Phones \cup {None} /\ {1} \in SUBSET Nat
        BY <1>2
      <3>. QED
        BY <3>1, <3>2
    <2>2. user = [u \in Users |-> IF world.home[u] = None THEN NoUser ELSE row(u)]
      BY DEF Init, PinInit
    <2>. HIDE DEF row
    <2>3. ASSUME NEW u \in Users
          PROVE  /\ (IF world.home[u] = None THEN NoUser ELSE row(u)) \in UserRow
                 /\ user[u] = IF world.home[u] = None THEN NoUser ELSE row(u)
      BY <2>1, <2>2, EmptyTypes
    <2>. QED
      BY <2>1, <2>2, <2>3
  <1>4. AccountTypeOK
    BY <1>1, <1>2, <1>3, EmptyTypes DEF AccountTypeOK, RequestTypeOK, OtpTypeOK, PinTypeOK
  <1>5. AllFit
    BY <1>1, NoRequestFits DEF AllFit
  <1>6. Blank
    BY <1>1, <1>3, EmptyFields DEF Blank
  <1>7. Capacity
    <2>1. Written = 1..0 /\ ToWrite = {}
      BY <1>1, EmptyFields DEF Written, ToWrite
    <2>2. 0 \in 0..MaxRows /\ 0 + Cardinality(ToWrite) <= Len(world.codes)
      BY <1>2, <2>1, FS_EmptySet, RequestAssumption
    <2>. QED
      BY <2>1, <2>2 DEF Capacity
  <1>. QED
    BY <1>4, <1>5, <1>6, <1>7 DEF BaseInv

LEMMA BaseNext ==
    ASSUME BaseInv, [Next]_vars
    PROVE  BaseInv'
  <1>1. CASE UNCHANGED vars
    BY <1>1 DEF vars, BaseInv, AccountTypeOK, RequestTypeOK, OtpTypeOK, PinTypeOK, AllFit,
       Blank, Capacity, Written, ToWrite
  <1>2. ASSUME Tick, UNCHANGED <<otp, user, session>>
        PROVE  (AccountTypeOK /\ AllFit /\ Blank)'
    <2>1. /\ now + 1 \in 0..world.time /\ now' = now + 1 /\ UNCHANGED <<world, req>>
      BY <1>2, RequestAssumption DEF Tick, BaseInv, AccountTypeOK, RequestTypeOK, World
    <2>. QED
      BY <1>2, <2>1 DEF BaseInv, AccountTypeOK, RequestTypeOK, OtpTypeOK, PinTypeOK, AllFit,
         Blank
  <1>3. ASSUME NEW h \in Handlers, NEW p \in Phones, NEW k \in Purposes, SendOtp(h, p, k),
               UNCHANGED <<user, session>>
        PROVE  (AccountTypeOK /\ AllFit /\ Blank)'
    <2>1. /\ req' \in [Handlers -> Request] /\ UNCHANGED <<world, now, otp, user, session>>
          /\ \A g \in Handlers : Fits(req'[g], otp, user)
      BY <1>3, SendOtpSound DEF SendOtp, BaseInv, BaseTypes
    <2>. QED
      BY <2>1 DEF BaseInv, AccountTypeOK, RequestTypeOK, OtpTypeOK, PinTypeOK, AllFit, Blank
  <1>4. ASSUME NEW h \in Handlers, Move(h)
        PROVE  (AccountTypeOK /\ AllFit /\ Blank)'
    <2>1. /\ Sound(h)
          /\ \A s \in session' : s \in Session /\ SessionFits(s, otp', user')
      BY <1>4, MoveSound DEF BaseInv, BaseTypes
    <2>2. ASSUME NEW g \in Handlers PROVE Fits(req'[g], otp', user')
      <3>1. Fits(req[g], otp, user)
        BY DEF BaseInv, AllFit
      <3>2. g # h => req'[g] = req[g]
        BY <2>1 DEF Sound, Others
      <3>. QED
        BY <2>1, <3>1, <3>2, FitsGrows, TypesApart DEF Sound, BaseInv
    <2>3. AccountTypeOK'
      BY <2>1 DEF Sound, BaseInv, AccountTypeOK, RequestTypeOK, OtpTypeOK, PinTypeOK
    <2>4. AllFit'
      BY <2>1, <2>2 DEF AllFit
    <2>. QED
      BY <2>1, <2>3, <2>4 DEF Sound
  <1>5. CASE Next
    <2>1. (AccountTypeOK /\ AllFit /\ Blank)'
      BY <1>2, <1>3, <1>4, <1>5, NextIsMove
    <2>. QED
      BY <1>5, <2>1, CapacityKept DEF BaseInv
  <1>. QED
    BY <1>1, <1>5

\* Every variable has its type, however many devices send their requests at
\* once and whatever calls fail.
THEOREM AccountTypesCorrect == Spec => []AccountTypeOK
  <1>1. Init => BaseInv
    BY BaseInit
  <1>2. BaseInv /\ [Next]_vars => BaseInv'
    BY BaseNext
  <1>3. BaseInv => AccountTypeOK
    BY DEF BaseInv
  <1>. QED
    BY <1>1, <1>2, <1>3, PTL DEF Spec

----------------------------------------------------------------------------
(* What a step leaves alone                                                *)

\* The steps with which a request begins.
Arrival(h) ==
    \/ UNCHANGED user /\ \E r \in Written, right \in {0, 1} : VerifyOtp(h, r, right)
    \/ \E p \in Phones, u \in Registered : \E guess \in 0..user[u].pin : Login(h, p, guess)
    \/ \E s \in session : Signup(h, s) \/ Reset(h, s) \/ \E n \in session : Change(h, s, n)
    \/ \E u \in Registered : \E guess \in user[u].live \cup {0} : Refresh(h, u, guess)

LEMMA MoveNamed ==
    ASSUME BaseTypes, NEW h \in Handlers, Move(h), ~Arrival(h)
    PROVE  \/ Answer(h) /\ req'[h] = NoRequest
           \/ Named(req[h], req'[h]) /\ req'[h].pc # req[h].pc
  <1>. DEFINE Good == \/ Answer(h) /\ req'[h] = NoRequest
                      \/ Named(req[h], req'[h]) /\ req'[h].pc # req[h].pc
  <1>1. req \in [Handlers -> Request] /\ req[h] \in Request
    BY TypesApart DEF BaseTypes
  <1>2. ASSUME Answer(h) PROVE Good
    BY <1>1, <1>2, AnswerEffect
  <1>3. ASSUME NEW p, To(h, p), p # req[h].pc PROVE Good
    BY <1>1, <1>3 DEF To, Request, Named
  <1>4. ASSUME OtpStep(h) PROVE Good
    <2>1. ASSUME CreateOtp(h) PROVE Good
      BY <1>1, <2>1 DEF CreateOtp, Request, Named
    <2>2. ASSUME FindRecent(h) \/ SendSms(h) \/ VerWrong(h) \/ VerConsume(h) \/ ConsRead(h)
          PROVE  Good
      BY <1>2, <1>3, <2>2 DEF FindRecent, SendSms, VerWrong, VerConsume, ConsRead
    <2>3. ASSUME VerRead(h) PROVE Good
      <3>1. ASSUME NEW p, NEW n, req[h].pc # p,
                   req' = [req EXCEPT ![h].seen = n, ![h].pc = p]
            PROVE  Good
        BY <1>1, <3>1 DEF Request, Named
      <3>2. \/ Answer(h)
            \/ req' = [req EXCEPT ![h].seen = otp[req[h].row].attempts, ![h].pc = "verConsume"]
            \/ req' = [req EXCEPT ![h].seen = otp[req[h].row].attempts, ![h].pc = "verWrong"]
        BY <2>3 DEF VerRead
      <3>. QED
        BY <1>2, <2>3, <3>1, <3>2 DEF VerRead
    <2>4. ASSUME ConsWrite(h) PROVE Good
      BY <1>1, <1>3, <2>4 DEF ConsWrite, Request, Named
    <2>. QED
      BY <1>4, <2>1, <2>2, <2>3, <2>4 DEF OtpStep
  <1>5. ASSUME PinStep(h) PROVE Good
    <2>1. ASSUME LogFind(h) PROVE Good
      <3>1. ASSUME NEW u, req' = [req EXCEPT ![h].user = u, ![h].pc = "pinRead"],
                   req[h].pc = "logFind"
            PROVE  Good
        BY <1>1, <3>1 DEF Request, Named
      <3>. QED
        BY <1>2, <2>1, <3>1 DEF LogFind
    <2>2. ASSUME PinRead(h) PROVE Good
      BY <1>1, <1>2, <2>2 DEF PinRead, Request, Named
    <2>3. ASSUME PinRight(h) \/ PinWrong(h) PROVE Good
      BY <1>2, <1>3, <2>3 DEF PinRight, PinWrong
    <2>4. ASSUME ResetPin(h) PROVE Good
      BY <1>1, <2>4 DEF ResetPin, Request, Named
    <2>. QED
      BY <1>5, <2>1, <2>2, <2>3, <2>4 DEF PinStep
  <1>6. ASSUME OtpReplyLost(h) \/ VerUser(h) \/ CallFails(h) \/ Issue(h) PROVE Good
    BY <1>2, <1>6 DEF OtpReplyLost, VerUser, CallFails, Issue
  <1>7. ASSUME \/ SignFind(h) \/ ChangeChecked(h) \/ ChgDup(h) \/ ChgWrite(h)
               \/ RevokeAll(h) \/ RotRead(h) \/ RotRevoke(h)
        PROVE  Good
    BY <1>2, <1>3, <1>7 DEF SignFind, ChangeChecked, ChgDup, ChgWrite, RevokeAll, RotRead,
       RotRevoke
  <1>8. ASSUME SignCreate(h) PROVE Good
    <2>1. ASSUME NEW u \in Users,
                 req' = [req EXCEPT ![h].pc = "issue", ![h].user = u, ![h].guess = 1],
                 req[h].pc = "signCreate"
          PROVE  Good
      BY <1>1, <2>1 DEF Request, Named
    <2>. QED
      BY <1>2, <1>8, <2>1 DEF SignCreate
  <1>. QED
    BY <1>4, <1>5, <1>6, <1>7, <1>8 DEF Move, OtpMove, PinMove, AccountMove, Arrival

LEMMA ArrivalOperation ==
    ASSUME BaseTypes, NEW h \in Handlers, Arrival(h)
    PROVE  /\ req[h] = NoRequest /\ user' = user
           /\ \/ req'[h].op = "verify" /\ req'[h].pc = "verRead"
              \/ req'[h].op = "login" /\ req'[h].pc = "logFind" /\ req'[h].user = None
              \/ req'[h].op \in Uses /\ req'[h].pc = "consRead"
              \/ req'[h].op = "refresh" /\ req'[h].pc = "rotRead"
  <1>. DEFINE Good == /\ req[h] = NoRequest /\ user' = user
                      /\ \/ req'[h].op = "verify" /\ req'[h].pc = "verRead"
                         \/ req'[h].op = "login" /\ req'[h].pc = "logFind" /\ req'[h].user = None
                         \/ req'[h].op \in Uses /\ req'[h].pc = "consRead"
                         \/ req'[h].op = "refresh" /\ req'[h].pc = "rotRead"
  <1>1. req \in [Handlers -> Request]
    BY TypesApart DEF BaseTypes
  <1>2. ASSUME NEW q, Arrive(h, q) PROVE req[h] = NoRequest /\ req'[h] = q
    BY <1>1, <1>2, IdleIsEmpty DEF Arrive, Busy, BaseTypes
  <1>3. ASSUME NEW r \in Written, NEW right \in {0, 1}, VerifyOtp(h, r, right),
               UNCHANGED user
        PROVE  Good
    <2>. DEFINE q == [NoRequest EXCEPT !.pc = "verRead", !.op = "verify", !.row = r,
                        !.purpose = otp[r].purpose, !.guess = right]
    <2>1. q.op = "verify" /\ q.pc = "verRead"
      BY DEF NoRequest
    <2>2. Arrive(h, q)
      BY <1>3 DEF VerifyOtp
    <2>. HIDE DEF q
    <2>. QED
      BY <1>2, <1>3, <2>1, <2>2
  <1>4. ASSUME NEW p \in Phones, NEW guess, Login(h, p, guess) PROVE Good
    <2>. DEFINE q == [NoRequest EXCEPT !.pc = "logFind", !.op = "login", !.phone = p,
                                       !.guess = guess]
    <2>1. q.op = "login" /\ q.pc = "logFind" /\ q.user = None
      BY DEF NoRequest
    <2>2. Arrive(h, q) /\ UNCHANGED user
      BY <1>4 DEF Login
    <2>. HIDE DEF q
    <2>. QED
      BY <1>2, <2>1, <2>2
  <1>5. ASSUME NEW s \in session, NEW n \in session, Signup(h, s) \/ Reset(h, s) \/ Change(h, s, n)
        PROVE  Good
    <2>1. /\ Arrive(h, Signing(s)) \/ Arrive(h, Replacing(s)) \/ Arrive(h, Changing(s, n))
          /\ user' = user
      BY <1>5 DEF Signup, Reset, Change, Use, Signing, Replacing, Changing
    <2>. QED
      BY <1>2, <2>1, SigningFields, ReplacingFields, ChangingFields DEF Uses
  <1>6. ASSUME NEW u \in Registered, NEW guess \in user[u].live \cup {0}, Refresh(h, u, guess)
        PROVE  Good
    <2>1. Arrive(h, Rotating(u, guess)) /\ user' = user
      BY <1>6 DEF Refresh, Rotating
    <2>. QED
      BY <1>2, <2>1, RotatingFields
  <1>. QED
    BY <1>3, <1>4, <1>5, <1>6 DEF Arrival

\* Outside of pinLogin and resetPin no step counts failures or sets a PIN, and
\* only two give an account a number.
LEMMA AccountStays ==
    ASSUME BaseTypes, NEW h \in Handlers, Move(h), ~SignCreate(h), ~PinStep(h)
    PROVE  \A u \in Users : SameCount(user[u], user'[u]) /\ user'[u].raced = user[u].raced
                              /\ (~ChgWrite(h) => SamePin(user[u], user'[u]))
  <1>. DEFINE Stays(u) == SameCount(user[u], user'[u]) /\ user'[u].raced = user[u].raced
                             /\ (~ChgWrite(h) => SamePin(user[u], user'[u]))
              Same == \A u \in Users : Stays(u)
  <1>1. ASSUME UNCHANGED user PROVE Same
    BY <1>1 DEF SameCount, SamePin
  <1>2. ASSUME NEW u \in Users, OtherUsers(u), Stays(u) PROVE Same
    BY <1>2 DEF OtherUsers, SameCount, SamePin
  <1>3. user \in [Users -> UserRow] /\ req \in [Handlers -> Request]
    BY TypesApart DEF BaseTypes
  <1>4. ASSUME ChgWrite(h) PROVE Same
    <2>1. req[h].user \in Users /\ req[h].phone \in Phones
      <3>1. Fits(req[h], otp, user) /\ req[h].op = "change"
        BY <1>4, OperationOf DEF ChgWrite
      <3>. QED
        BY <1>4, <3>1, UserOf, RowFields DEF ChgWrite, Fits, ChangeFits, KnownRow, BaseTypes
    <2>2. ASSUME user' = [user EXCEPT ![req[h].user].phone = req[h].phone] PROVE Same
      BY <1>2, <1>3, <1>4, <2>1, <2>2, PhoneEffect
    <2>. QED
      BY <1>1, <1>4, <2>2 DEF ChgWrite
  <1>5. ASSUME RotRevoke(h) \/ RevokeAll(h) \/ Issue(h) \/ CallFails(h) PROVE Same
    BY <1>1, <1>2, <1>5, TokenStepsKeep
  <1>. QED
    BY <1>1, <1>4, <1>5 DEF Move, OtpMove, PinMove, AccountMove,
       Login, Signup, Reset, Change, VerUser, SignFind, ChangeChecked, ChgDup, Refresh, RotRead

----------------------------------------------------------------------------
(* Whose number it is                                                      *)

LEMMA PhonesStay ==
    ASSUME BaseTypes, Capacity, NEW h \in Handlers, Move(h), ~SignCreate(h), ~ChgWrite(h)
    PROVE  \A u \in Users : user'[u].phone = user[u].phone
  <1>. DEFINE Same == \A u \in Users : user'[u].phone = user[u].phone
  <1>1. ASSUME UNCHANGED user PROVE Same
    BY <1>1
  <1>2. ASSUME NEW u \in Users, OtherUsers(u), user'[u].phone = user[u].phone PROVE Same
    BY <1>2 DEF OtherUsers
  <1>3. user \in [Users -> UserRow] /\ req \in [Handlers -> Request] /\ now \in Nat
    BY TypesApart DEF BaseTypes
  <1>4. ASSUME LogFind(h) PROVE Same
    <2>1. ASSUME NEW u \in Users, user' = [user EXCEPT ![u].raced = @ \/ LoggingIn(u) # {}]
          PROVE  Same
      <3>1. (LoggingIn(u) # {}) \in BOOLEAN
        OBVIOUS
      <3>. QED
        BY <1>2, <1>3, <2>1, <3>1, RacedEffect DEF SamePin
    <2>. QED
      BY <1>1, <1>4, <2>1 DEF LogFind, Owner
  <1>5. ASSUME PinRight(h) \/ PinWrong(h) PROVE Same
    <2>1. req[h].user \in Users
      BY <1>5, UserOf DEF PinRight, PinWrong
    <2>. QED
      BY <1>2, <1>3, <1>5, <2>1, ClearEffect, FailureEffect DEF PinRight, PinWrong, SamePin
  <1>6. ASSUME ResetPin(h) PROVE Same
    <2>1. req[h].user \in Users
      BY <1>6, UserOf DEF ResetPin
    <2>. QED
      BY <1>2, <1>3, <1>6, <2>1, SetPinEffect DEF ResetPin
  <1>7. ASSUME ~PinStep(h) PROVE Same
    BY <1>7, AccountStays DEF SamePin
  <1>. QED
    BY <1>1, <1>4, <1>5, <1>6, <1>7 DEF PinStep, PinRead

\* In table o a code proved number p and let an operation in.
Proof(p, o) == \E r \in Rows : /\ o[r].phone = p
                               /\ o[r].purpose \in {"SIGNUP", "PHONE_CHANGE"}
                               /\ o[r].entered > 0

OwnNumbers(o, u, home) ==
    \A x \in Users : u[x].phone # None =>
        /\ \A y \in Users : u[y].phone = u[x].phone => y = x
        /\ u[x].phone = home[x] \/ Proof(u[x].phone, o)

LEMMA PhoneProvedAs ==
    /\ PhoneProved <=> OwnNumbers(otp, user, world.home)
    /\ PhoneProved' <=> OwnNumbers(otp', user', world'.home)
  BY DEF PhoneProved, Registered, Owner, Written, OwnNumbers, Proof

LEMMA ProofStays ==
    ASSUME BaseInv, Grows(otp, user, otp', user'), otp' \in [Rows -> OtpRow],
           NEW p, p # None, Proof(p, otp)
    PROVE  Proof(p, otp')
  <1>1. PICK r \in Rows : /\ otp[r].phone = p /\ otp[r].phone # None
                          /\ otp[r].purpose \in {"SIGNUP", "PHONE_CHANGE"}
                          /\ otp[r].entered > 0
    BY DEF Proof
  <1>2. otp'[r] \in OtpRow /\ otp[r].entered \in Nat
    BY RowFields DEF BaseInv
  <1>3. otp'[r].entered \in Nat
    BY <1>2 DEF OtpRow
  <1>. QED
    BY <1>1, <1>2, <1>3 DEF Grows, Proof

\* Number p, which a code proved, goes to account u, which alone may hold it.
LEMMA NumberGiven ==
    ASSUME BaseInv, PhoneProved, NEW u \in Users, NEW p \in Phones,
           Owner(p) \subseteq {u}, Proof(p, otp),
           OtherUsers(u), user'[u].phone = p, UNCHANGED <<world, otp>>
    PROVE  PhoneProved'
  <1>1. OwnNumbers(otp, user, world.home)
    BY PhoneProvedAs
  <1>2. p # None /\ \A y \in Users : user[y].phone = p => y = u
    BY NoneIsNothing DEF Owner
  <1>3. OwnNumbers(otp', user', world'.home)
    BY <1>1, <1>2 DEF OwnNumbers, OtherUsers
  <1>. QED
    BY <1>3, PhoneProvedAs

LEMMA PhoneProvedNext ==
    ASSUME BaseInv, PhoneProved, [Next]_vars
    PROVE  PhoneProved'
  <1>1. ASSUME UNCHANGED <<otp, user, world>>
        PROVE  PhoneProved'
    BY <1>1, PhoneProvedAs
  <1>2. ASSUME NEW h \in Handlers, Move(h)
        PROVE  PhoneProved'
    <2>1. Sound(h)
      BY <1>2, MoveSound DEF BaseInv, BaseTypes
    <2>2. ASSUME \A u \in Users : user'[u].phone = user[u].phone
          PROVE  PhoneProved'
      <3>1. OwnNumbers(otp, user, world.home)
        BY PhoneProvedAs
      <3>2. \A p : p # None /\ Proof(p, otp) => Proof(p, otp')
        BY <2>1, ProofStays DEF Sound
      <3>3. OwnNumbers(otp', user', world'.home)
        BY <2>1, <2>2, <3>1, <3>2 DEF OwnNumbers, Sound
      <3>. QED
        BY <3>3, PhoneProvedAs
    <2>3. ASSUME SignCreate(h)
          PROVE  PhoneProved'
      <3>1. /\ req[h].phone \in Phones /\ Proof(req[h].phone, otp)
        <4>1. Fits(req[h], otp, user) /\ req[h].op = "signup" /\ req[h].pc = "signCreate"
          BY <2>3, OperationOf DEF BaseInv, BaseTypes, SignCreate
        <4>. QED
          BY <4>1, RowFields DEF Fits, SignupFits, KnownRow, Proof, BaseInv
      <3>2. ASSUME NEW u \in Users \ Registered, Owner(req[h].phone) = {},
                   user' = [user EXCEPT ![u] = [NoUser EXCEPT !.phone = req[h].phone, !.pin = 1]]
            PROVE  PhoneProved'
        <4>1. OtherUsers(u) /\ user'[u].phone = req[h].phone
          BY <3>1, <3>2, NewUserEffect, TypesApart DEF BaseInv
        <4>2. UNCHANGED <<world, otp>>
          BY <2>3 DEF SignCreate
        <4>. QED
          BY <3>1, <3>2, <4>1, <4>2, NumberGiven
      <3>. QED
        BY <1>1, <2>3, <3>2 DEF SignCreate
    <2>4. ASSUME ChgWrite(h)
          PROVE  PhoneProved'
      <3>1. /\ req[h].phone \in Phones /\ Proof(req[h].phone, otp) /\ req[h].user \in Users
        <4>1. Fits(req[h], otp, user) /\ req[h].op = "change" /\ req[h].pc = "chgWrite"
          BY <2>4, OperationOf DEF BaseInv, BaseTypes, ChgWrite
        <4>2. req[h].user \in Users
          BY <4>1, UserOf DEF BaseInv, BaseTypes
        <4>. QED
          BY <4>1, <4>2, RowFields DEF Fits, ChangeFits, KnownRow, Proof, BaseInv
      <3>2. ASSUME Owner(req[h].phone) \subseteq {req[h].user},
                   user' = [user EXCEPT ![req[h].user].phone = req[h].phone]
            PROVE  PhoneProved'
        <4>1. OtherUsers(req[h].user) /\ user'[req[h].user].phone = req[h].phone
          BY <3>1, <3>2, PhoneEffect, TypesApart DEF BaseInv
        <4>2. UNCHANGED <<world, otp>>
          BY <2>4 DEF ChgWrite
        <4>. QED
          BY <3>1, <3>2, <4>1, <4>2, NumberGiven
      <3>. QED
        BY <1>1, <2>4, <3>2 DEF ChgWrite
    <2>. QED
      BY <1>2, <2>2, <2>3, <2>4, PhonesStay DEF BaseInv, BaseTypes
  <1>3. CASE UNCHANGED vars
    BY <1>1, <1>3 DEF vars
  <1>4. CASE Next
    BY <1>1, <1>2, <1>4, NextIsMove DEF Tick, SendOtp
  <1>. QED
    BY <1>3, <1>4

\* No number has two accounts, and an account has the number it had at the
\* start or one that a code sent to it proved, whatever signups and changes of
\* number race for it: the code's session let in the request that wrote it.
THEOREM PhoneProvedCorrect == Spec => []PhoneProved
  <1>. DEFINE Inv == BaseInv /\ PhoneProved
  <1>1. Init => Inv
    <2>. SUFFICES ASSUME Init PROVE PhoneProved
      BY BaseInit
    <2>1. world \in Worlds /\ \A u, v \in Users :
              u # v /\ world.home[u] # None => world.home[u] # world.home[v]
      BY RequestAssumption DEF Init, RequestInit
    <2>2. world.home \in [Users -> Phones \cup {None}]
      BY <2>1, RequestAssumption DEF World
    <2>3. ASSUME NEW u \in Users PROVE user[u].phone = world.home[u]
      <3>1. world.home[u] \in Phones \cup {None}
        BY <2>2
      <3>. QED
        BY <3>1, EmptyFields DEF Init, PinInit, NoUser
    <2>4. OwnNumbers(otp, user, world.home)
      BY <2>1, <2>3 DEF OwnNumbers
    <2>. QED
      BY <2>4, PhoneProvedAs
  <1>2. Inv /\ [Next]_vars => Inv'
    BY BaseNext, PhoneProvedNext
  <1>. QED
    BY <1>1, <1>2, PTL DEF Spec

============================================================================

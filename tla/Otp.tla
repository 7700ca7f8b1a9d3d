-------------------------------- MODULE Otp --------------------------------
(***************************************************************************)
(* One-time codes (apps/api/src/auth/otp.service.ts): sending one, checking *)
(* one, and the single use of the session a right code opens.              *)
(*                                                                         *)
(* Not represented: the digits and their HMAC (a code is right or wrong),  *)
(* the format checks, and requests refused before their first call, which  *)
(* change nothing.                                                         *)
(***************************************************************************)
EXTENDS AuthRequests

CONSTANTS
    Ttl,            \* OTP_TTL_SECONDS, in ticks
    Cooldown,       \* OTP_COOLDOWN_SECONDS
    Window,         \* OTP_WINDOW_SECONDS
    WindowLimit,    \* OTP_WINDOW_LIMIT
    AttemptLimit    \* OTP_VERIFY_ATTEMPT_LIMIT

ASSUME OtpAssumption ==
    /\ Ttl \in Nat \ {0} /\ Cooldown \in Nat \ {0} /\ Window \in Nat \ {0}
    /\ WindowLimit \in Nat \ {0} /\ AttemptLimit \in Nat \ {0}
    /\ Cooldown <= Window

VARIABLE otp    \* OtpRequest rows, numbered in the order of their creation

\* sent is the client's knowledge: the answer reached it and so did the SMS.
\* History, read by no step: raced, another send for the phone was in flight;
\* shared, two checks or two uses of the row were; wrong and right, the answers
\* given; entered, how often its session was marked used.
OtpRow == [phone: Phones \cup {None}, purpose: Purposes \cup {None}, created: Nat,
           expires: Nat, consumed: BOOLEAN, attempts: Nat, used: BOOLEAN, sent: BOOLEAN,
           raced: BOOLEAN, shared: BOOLEAN, wrong: Nat, right: Nat, entered: Nat]

NoRow == [phone |-> None, purpose |-> None, created |-> 0, expires |-> 0,
          consumed |-> FALSE, attempts |-> 0, used |-> FALSE, sent |-> FALSE,
          raced |-> FALSE, shared |-> FALSE, wrong |-> 0, right |-> 0, entered |-> 0]

OtpInit == otp = [r \in Rows |-> NoRow]

Written == {r \in Rows : otp[r].phone # None}

----------------------------------------------------------------------------
(* requestOtp.  An operator commented "mutant" is a plausible bug of the    *)
(* definition after it and no part of the model.                           *)

Sending(p) == {h \in Handlers : req[h].op = "send" /\ req[h].phone = p}

\* Bound: a send is for the code the world has next.
NextCode == 1 + Cardinality(Written) + Cardinality({h \in Handlers :
                    req[h].pc \in {"findRecent", "createOtp"}})

SendOtp(h, p, k) ==
    /\ "send" \in world.ops
    /\ NextCode <= Len(world.codes) /\ world.codes[NextCode] = <<p, k>>
    /\ ~Busy(h)
    /\ req' = [g \in Handlers |->
            IF g = h THEN [NoRequest EXCEPT !.pc = "findRecent", !.op = "send", !.phone = p,
                               !.purpose = k, !.at = now, !.shared = Sending(p) # {}]
            ELSE IF g \in Sending(p) THEN [req[g] EXCEPT !.shared = TRUE] ELSE req[g]]
    /\ UNCHANGED <<world, now, otp>>

Recent(h) == {r \in Written : otp[r].phone = req[h].phone
                                /\ otp[r].created > req[h].at - Window}

MayNotSendSoon(h) ==                \* mutant: the window is off by one
    \/ Cardinality(Recent(h)) > WindowLimit
    \/ \E r \in Recent(h) : otp[r].created > req[h].at - Cooldown

MayNotSend(h) ==
    \/ Cardinality(Recent(h)) >= WindowLimit
    \/ \E r \in Recent(h) : otp[r].created > req[h].at - Cooldown

FindRecent(h) ==
    /\ req[h].pc = "findRecent"
    /\ IF MayNotSend(h) THEN Answer(h) ELSE To(h, "createOtp")
    /\ UNCHANGED <<world, now, otp>>

AddRow(h) == LET r == Cardinality(Written) + 1 IN
    otp' = [otp EXCEPT ![r] = [NoRow EXCEPT !.phone = req[h].phone,
                !.purpose = req[h].purpose, !.created = now,
                !.expires = req[h].at + Ttl, !.raced = req[h].shared]]

CreateOtp(h) ==
    /\ req[h].pc = "createOtp"
    /\ AddRow(h)
    /\ req' = [req EXCEPT ![h].pc = "sms", ![h].row = Cardinality(Written) + 1]
    /\ UNCHANGED <<world, now>>

\* The gateway takes the SMS, or it fails and the row stays.
SendSms(h) ==
    /\ req[h].pc = "sms"
    /\ \E sent \in IF world.faults THEN BOOLEAN ELSE {TRUE} :
           otp' = [otp EXCEPT ![req[h].row].sent = sent]
    /\ Answer(h)
    /\ UNCHANGED <<world, now>>

----------------------------------------------------------------------------
(* verifyOtp.  The right code of a row is known to whom the SMS reached.    *)

Verifying(r) == \E h \in Handlers : req[h].op = "verify" /\ req[h].row = r

VerifyOtp(h, r, guess) ==
    /\ otp[r].sent
    /\ guess = 0 => "miss" \in world.ops
    /\ Arrive(h, [NoRequest EXCEPT !.pc = "verRead", !.op = "verify", !.row = r,
                      !.purpose = otp[r].purpose, !.guess = guess])
    /\ otp' = [otp EXCEPT ![r].shared = @ \/ Verifying(r)]
    /\ UNCHANGED <<world, now>>

VerRead(h) == LET row == otp[req[h].row] IN
    /\ req[h].pc = "verRead"
    /\ IF row.consumed \/ row.expires < now THEN Answer(h)
       ELSE req' = [req EXCEPT ![h].seen = row.attempts,
                               ![h].pc = IF req[h].guess = 1 THEN "verConsume" ELSE "verWrong"]
    /\ UNCHANGED <<world, now, otp>>

LocksNextTime(n) == n > AttemptLimit            \* mutant: one answer too many

WillLock(n) == n >= AttemptLimit

\* Both columns are written from the row as it was read.
WriteAttempt(h) ==
    otp' = [otp EXCEPT ![req[h].row].attempts = req[h].seen + 1,
                       ![req[h].row].consumed = WillLock(req[h].seen + 1),
                       ![req[h].row].wrong = IF otp[req[h].row].shared THEN @ ELSE @ + 1]

VerWrong(h) ==
    /\ req[h].pc = "verWrong"
    /\ WriteAttempt(h)
    /\ Answer(h)
    /\ UNCHANGED <<world, now>>

ConsumeCode(h) ==
    otp' = [otp EXCEPT ![req[h].row].consumed = TRUE,
                       ![req[h].row].right = IF otp[req[h].row].shared THEN @ ELSE @ + 1]

VerConsume(h) ==
    /\ req[h].pc = "verConsume"
    /\ ConsumeCode(h)
    /\ To(h, "verUser")
    /\ UNCHANGED <<world, now>>

----------------------------------------------------------------------------
(* consumeSession, once for a signup or a reset and twice for a change of   *)
(* number: the current number's session is in row, the new one's in next.  *)

Uses == {"signup", "reset", "change"}

\* A request still has to use the session of row r.
Using(r) == {h \in Handlers : req[h].op \in Uses
                /\ \/ req[h].pc \in {"consRead", "consWrite"} /\ req[h].row = r
                   \/ req[h].next = r}

Use(h, request) ==
    /\ Arrive(h, request)
    /\ otp' = [r \in Rows |-> IF r \in {request.row, request.next} /\ Using(r) # {}
                              THEN [otp[r] EXCEPT !.shared = TRUE] ELSE otp[r]]

ReadsNothing(h) ==                  \* mutant: sessionConsumedAt is not looked at
    /\ req[h].pc = "consRead"
    /\ To(h, "consWrite")
    /\ UNCHANGED <<world, now, otp>>

ConsRead(h) ==
    /\ req[h].pc = "consRead"
    /\ IF otp[req[h].row].used THEN Answer(h) ELSE To(h, "consWrite")
    /\ UNCHANGED <<world, now, otp>>

MarkUsed(h) == otp' = [otp EXCEPT ![req[h].row].used = TRUE, ![req[h].row].entered = @ + 1]

ConsumesOne(h) ==                   \* mutant: the second session is not consumed
    /\ req[h].pc = "consWrite"
    /\ MarkUsed(h)
    /\ To(h, "entered")
    /\ UNCHANGED <<world, now>>

ConsWrite(h) ==
    /\ req[h].pc = "consWrite"
    /\ MarkUsed(h)
    /\ IF req[h].next = None THEN To(h, "entered")
       ELSE req' = [req EXCEPT ![h].pc = "consRead", ![h].row = req[h].next, ![h].next = None]
    /\ UNCHANGED <<world, now>>

OtpStep(h) == FindRecent(h) \/ CreateOtp(h) \/ SendSms(h) \/ VerRead(h) \/ VerWrong(h)
                \/ VerConsume(h) \/ ConsRead(h) \/ ConsWrite(h)

\* A write commits and the call throws: the reply of the database was lost.
OtpReplyLost(h) ==
    /\ world.faults
    /\ \/ req[h].pc = "createOtp" /\ AddRow(h)
       \/ req[h].pc = "verWrong" /\ WriteAttempt(h)
       \/ req[h].pc = "verConsume" /\ ConsumeCode(h)
       \/ req[h].pc = "consWrite" /\ MarkUsed(h)
    /\ Answer(h)
    /\ UNCHANGED <<world, now>>

----------------------------------------------------------------------------
(* Properties                                                              *)

OtpTypeOK == otp \in [Rows -> OtpRow]

\* The cooldown and the hourly limit hold for every send that no other send
\* for the same phone overlapped, failed ones included: the earlier rows of the
\* phone are a cooldown apart from it, and few enough within the window.
SendsLimited ==
    \A r \in Written : ~otp[r].raced =>
        LET before == {q \in Written : q < r /\ otp[q].phone = otp[r].phone} IN
        /\ \A q \in before : otp[q].created + Cooldown <= otp[r].created
        /\ Cardinality({q \in before : otp[q].created > otp[r].created - Window})
               < WindowLimit

\* A code whose checks did not overlap is spent by its right answer or by its
\* last allowed wrong one, whichever comes first, and by nothing else; the
\* counter is exact until then.
AttemptsCounted ==
    \A r \in Written : ~otp[r].shared =>
        /\ otp[r].attempts = otp[r].wrong
        /\ otp[r].consumed <=> otp[r].right = 1 \/ otp[r].wrong = AttemptLimit
        /\ otp[r].right <= 1 /\ otp[r].wrong <= AttemptLimit

\* A session that two requests did not present together lets one operation in.
EnteredOnce == \A r \in Written : ~otp[r].shared => otp[r].entered <= 1

\* What spec.md:263 says of every session.
SessionSingleUse == \A r \in Written : otp[r].entered <= 1
=============================================================================

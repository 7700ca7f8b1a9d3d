------------------------------ MODULE Accounts ------------------------------
(***************************************************************************)
(* Accounts (apps/api/src/auth/auth.service.ts): signup, PIN login, PIN    *)
(* reset, change of phone number and refresh, each a chain of awaited      *)
(* calls to the OTP service, the PIN service, the user table and the       *)
(* refresh tokens.                                                         *)
(*                                                                         *)
(* Refresh tokens are reduced to the PINs under which those that work were *)
(* issued: which of them is presented and how many there are is left to    *)
(* RefreshTokens, as are the logout, which ends a token, and the days of   *)
(* its expiry, which no world lasts for.                                   *)
(***************************************************************************)
EXTENDS Otp, PinLock

CONSTANT SessionTtl     \* OTP_SESSION_TTL_MIN, in ticks

ASSUME SessionAssumption == SessionTtl \in Nat \ {0}

\* The session tokens that were signed, with what they say.  They are not
\* stored: the client keeps them.
VARIABLE session

vars == <<world, now, req, otp, user, session>>

Session == [row: Rows, phone: Phones, purpose: Purposes, user: Users \cup {None},
            expires: Nat]

Init == RequestInit /\ OtpInit /\ PinInit /\ session = {}

----------------------------------------------------------------------------
(* The end of verifyOtp: the account of the number, if it has one, is put   *)
(* into the session.  A reset of a number without account is refused.      *)

SignedForCaller(h, u) ==            \* mutant: the number of the request, which has none
    session \cup {[row |-> req[h].row, phone |-> req[h].phone,
                   purpose |-> req[h].purpose, user |-> u, expires |-> now + SessionTtl]}

Signed(h, u) ==
    session \cup {[row |-> req[h].row, phone |-> otp[req[h].row].phone,
                   purpose |-> req[h].purpose, user |-> u, expires |-> now + SessionTtl]}

VerUser(h) == LET owner == Owner(otp[req[h].row].phone) IN
    /\ req[h].pc = "verUser"
    /\ IF owner # {} THEN \E u \in owner : session' = Signed(h, u)
       ELSE session' = IF req[h].purpose = "RESET" THEN session ELSE Signed(h, None)
    /\ Answer(h)
    /\ UNCHANGED <<world, now, otp, user>>

----------------------------------------------------------------------------
(* Requests that present sessions.  One of the wrong purpose, or expired,   *)
(* is refused before the first call.                                       *)

Valid(s, k) == s.purpose = k /\ s.expires > now

Signup(h, s) ==
    /\ Valid(s, "SIGNUP")
    /\ Use(h, [NoRequest EXCEPT !.pc = "consRead", !.op = "signup", !.row = s.row,
                                !.phone = s.phone, !.purpose = "SIGNUP"])
    /\ UNCHANGED <<world, now, user, session>>

Reset(h, s) ==
    /\ Valid(s, "RESET") /\ s.user # None
    /\ Use(h, [NoRequest EXCEPT !.pc = "consRead", !.op = "reset", !.row = s.row,
                                !.user = s.user, !.purpose = "RESET"])
    /\ UNCHANGED <<world, now, user, session>>

\* c is the session of the current number, whose account changes, and n that
\* of the new number.
Change(h, c, n) ==
    /\ Valid(c, "PHONE_CHANGE") /\ Valid(n, "PHONE_CHANGE")
    /\ Use(h, [NoRequest EXCEPT !.pc = "consRead", !.op = "change", !.row = c.row,
                                !.next = n.row, !.phone = n.phone, !.user = c.user,
                                !.purpose = "PHONE_CHANGE"])
    /\ UNCHANGED <<world, now, user, session>>

----------------------------------------------------------------------------
(* signupComplete, after its session is consumed                           *)

SignFind(h) ==
    /\ req[h].op = "signup" /\ req[h].pc = "entered"
    /\ IF Owner(req[h].phone) # {} THEN Answer(h) ELSE To(h, "signCreate")
    /\ UNCHANGED <<world, now, otp, user, session>>

\* phoneNumber is unique: a second account of the number is an error.
\* Bound: the ids of Users.
SignCreate(h) ==
    /\ req[h].pc = "signCreate"
    /\ IF Owner(req[h].phone) # {} THEN Answer(h) /\ UNCHANGED user
       ELSE \E u \in Users \ Registered :
                /\ user' = [user EXCEPT ![u] = [NoUser EXCEPT !.phone = req[h].phone, !.pin = 1]]
                /\ req' = [req EXCEPT ![h].pc = "issue", ![h].user = u, ![h].guess = 1]
    /\ UNCHANGED <<world, now, otp, session>>

----------------------------------------------------------------------------
(* changePhone, after both sessions are consumed                           *)

ChangeChecked(h) ==
    /\ req[h].op = "change" /\ req[h].pc = "entered"
    /\ IF req[h].user = None THEN Answer(h) ELSE To(h, "chgDup")
    /\ UNCHANGED <<world, now, otp, user, session>>

ChgDup(h) ==
    /\ req[h].pc = "chgDup"
    /\ IF Owner(req[h].phone) \subseteq {req[h].user} THEN To(h, "chgWrite") ELSE Answer(h)
    /\ UNCHANGED <<world, now, otp, user, session>>

\* The transaction; again the number is unique.
ChgWrite(h) ==
    /\ req[h].pc = "chgWrite"
    /\ IF Owner(req[h].phone) \subseteq {req[h].user}
       THEN user' = [user EXCEPT ![req[h].user].phone = req[h].phone] /\ To(h, "revokeAll")
       ELSE UNCHANGED user /\ Answer(h)
    /\ UNCHANGED <<world, now, otp, session>>

----------------------------------------------------------------------------
(* rotate: a token that works is exchanged for one of the same PIN.  A      *)
(* token that was revoked ends all tokens of its owner; 0 stands for one   *)
(* that was revoked before the request arrived.                            *)

Refresh(h, u, guess) ==
    /\ Arrive(h, [NoRequest EXCEPT !.pc = "rotRead", !.op = "refresh", !.user = u,
                                   !.guess = guess])
    /\ UNCHANGED <<world, now, otp, user, session>>

\* revokedAt is looked at once, here.
RotRead(h) ==
    /\ req[h].pc = "rotRead"
    /\ To(h, IF req[h].guess \in user[req[h].user].live THEN "rotRevoke" ELSE "revokeAll")
    /\ UNCHANGED <<world, now, otp, user, session>>

\* Another token of the PIN may be left.
RotRevoke(h) ==
    /\ req[h].pc = "rotRevoke"
    /\ \E gone \in {{}, {req[h].guess}} : user' = [user EXCEPT ![req[h].user].live = @ \ gone]
    /\ To(h, "issue")
    /\ UNCHANGED <<world, now, otp, session>>

----------------------------------------------------------------------------
(* revokeAllForUser and issuePair                                          *)

\* The PINs of the requests of the account that have been let in, or whose
\* token has passed the check of rotate, and that have no new token yet.
LettingIn(u) == {req[h].guess : h \in {g \in Handlers : req[g].user = u
                    /\ req[g].pc \in {"pinRight", "rotRevoke", "issue"}}}

\* History: the older ones of these PINs get, or keep, tokens.
Stray(u, pins) == user[u].stray \cup (pins \ {user[u].pin})

RevokesReused(h) ==                  \* mutant: only a reused token ends the others
    /\ req[h].pc = "revokeAll"
    /\ user' = IF req[h].op = "refresh" THEN [user EXCEPT ![req[h].user].live = {}] ELSE user
    /\ IF req[h].op = "reset" THEN To(h, "issue") ELSE Answer(h)
    /\ UNCHANGED <<world, now, otp, session>>

RevokeAll(h) ==
    /\ req[h].pc = "revokeAll"
    /\ LET u == req[h].user IN
       user' = [user EXCEPT ![u].live = {},
                   ![u].stray = IF req[h].op = "reset"
                                THEN Stray(u, LettingIn(u) \cup {req[h].guess}) ELSE @]
    /\ IF req[h].op = "reset" THEN To(h, "issue") ELSE Answer(h)
    /\ UNCHANGED <<world, now, otp, session>>

Issue(h) ==
    /\ req[h].pc = "issue"
    /\ user' = [user EXCEPT ![req[h].user].live = @ \cup {req[h].guess}]
    /\ Answer(h)
    /\ UNCHANGED <<world, now, otp, session>>

\* A call throws and had no effect: the request is answered 500.  A reset that
\* ends before its revocation leaves the tokens of older PINs alive.
CallFails(h) ==
    /\ world.faults /\ Busy(h)
    /\ Answer(h)
    /\ LET u == req[h].user IN
       user' = IF req[h].op = "reset" /\ req[h].pc = "revokeAll"
               THEN [user EXCEPT ![u].stray = Stray(u, LettingIn(u) \cup user[u].live)]
               ELSE user
    /\ UNCHANGED <<world, now, otp, session>>

Next ==
    \/ Tick /\ UNCHANGED <<otp, user, session>>
    \/ \E h \in Handlers :
        \/ /\ \/ \E p \in Phones, k \in Purposes : SendOtp(h, p, k)
              \/ \E r \in Written, right \in {0, 1} : VerifyOtp(h, r, right)
              \/ OtpStep(h) \/ OtpReplyLost(h)
           /\ UNCHANGED <<user, session>>
        \/ /\ \/ \E p \in Phones, u \in Registered : \E guess \in 0..user[u].pin : Login(h, p, guess)
              \/ PinStep(h)
           /\ UNCHANGED <<otp, session>>
        \/ \E s \in session : Signup(h, s) \/ Reset(h, s) \/ \E n \in session : Change(h, s, n)
        \/ VerUser(h) \/ SignFind(h) \/ SignCreate(h) \/ ChangeChecked(h) \/ ChgDup(h)
        \/ ChgWrite(h) \/ RevokeAll(h) \/ Issue(h) \/ CallFails(h)
        \/ \E u \in Registered : \E guess \in user[u].live \cup {0} : Refresh(h, u, guess)
        \/ RotRead(h) \/ RotRevoke(h)

Spec == Init /\ [][Next]_vars

----------------------------------------------------------------------------
(* Properties                                                              *)

\* Every variable has its type.
AccountTypeOK ==
    /\ RequestTypeOK /\ OtpTypeOK /\ PinTypeOK
    /\ session \subseteq Session

\* No number has two accounts, and the number of an account was proved by a
\* code that reached it, the session of which let in the signup or the change
\* that gave the account its number.
PhoneProved ==
    \A u \in Registered :
        /\ Owner(user[u].phone) = {u}
        /\ \/ user[u].phone = world.home[u]
           \/ \E r \in Written : /\ otp[r].phone = user[u].phone
                                 /\ otp[r].purpose \in {"SIGNUP", "PHONE_CHANGE"}
                                 /\ otp[r].entered > 0

\* A reset is being finished.
Resetting(u) == \E h \in Handlers : req[h].op = "reset" /\ req[h].user = u
                                      /\ req[h].pc = "revokeAll"

\* A reset locks out everyone who came in with an older PIN, whatever logins,
\* refreshes and other resets interleave with it, but for two: who was being let
\* in, or whose token had passed the check of rotate, as the reset revoked the
\* tokens, and who a reset that broke off forgot.
ResetLocksOut ==
    \A u \in Registered : ~Resetting(u) => user[u].live \subseteq {user[u].pin} \cup user[u].stray

\* A lock ends before its time only by a reset, or by a login that read the
\* account before the lock and has not been answered.
LockHolds ==
    [][\A u \in Users : Locked(u) /\ user'[u].locked # user[u].locked =>
           \/ user'[u].pin # user[u].pin
           \/ \E h \in LoggingIn(u) : /\ req[h].pc \in {"pinRight", "pinWrong"}
                                      /\ user[u].raced
      ]_vars
=============================================================================

------------------------------ MODULE PinLock ------------------------------
(***************************************************************************)
(* PINs (apps/api/src/auth/pin.service.ts): checking one at a login, the   *)
(* count of failures, the lock after too many, and setting a new one.      *)
(*                                                                         *)
(* Not represented: the digits and their hash.  A PIN is named by its       *)
(* number among the PINs its account has had, 0 being one it never had.    *)
(***************************************************************************)
EXTENDS AuthRequests

CONSTANTS
    LockTime,       \* PIN_LOCK_MINUTES, in ticks
    FailLimit       \* PIN_LOCK_THRESHOLD

ASSUME PinAssumption == LockTime \in Nat \ {0} /\ FailLimit \in Nat \ {0}

VARIABLE user   \* User rows

\* live: the PINs under which refresh tokens that still work were issued.
\* locked is pinLockedUntil, 0 for null.
\* History, read by no step: streak, wrong answers since the last right one,
\* lock or reset; raced, a login was in flight with another or with a reset;
\* stray, older PINs whose holder was being let in, or had a token exchanged, as a
\* reset revoked the tokens, or whose tokens a reset that broke off left alive.
UserRow == [phone: Phones \cup {None}, pin: Nat, failed: Nat, locked: Nat,
            live: SUBSET Nat, streak: Nat, raced: BOOLEAN, stray: SUBSET Nat]

NoUser == [phone |-> None, pin |-> 0, failed |-> 0, locked |-> 0, live |-> {},
           streak |-> 0, raced |-> FALSE, stray |-> {}]

PinInit == user = [u \in Users |-> IF world.home[u] = None THEN NoUser
                     ELSE [NoUser EXCEPT !.phone = world.home[u], !.pin = 1, !.live = {1}]]

Registered == {u \in Users : user[u].phone # None}
Owner(p) == {u \in Users : user[u].phone = p /\ p # None}

Locked(u) == user[u].locked > now

----------------------------------------------------------------------------
(* pinLogin and PinService.verify                                          *)

LoggingIn(u) == {h \in Handlers : req[h].op = "login" /\ req[h].user = u}

Login(h, p, guess) ==
    /\ Arrive(h, [NoRequest EXCEPT !.pc = "logFind", !.op = "login", !.phone = p,
                                   !.guess = guess])
    /\ UNCHANGED <<world, now, user>>

LogFind(h) ==
    /\ req[h].pc = "logFind"
    /\ IF Owner(req[h].phone) = {} THEN Answer(h) /\ UNCHANGED user
       ELSE \E u \in Owner(req[h].phone) :
                /\ req' = [req EXCEPT ![h].user = u, ![h].pc = "pinRead"]
                /\ user' = [user EXCEPT ![u].raced = @ \/ LoggingIn(u) # {}]
    /\ UNCHANGED <<world, now>>

PinReadUnlocked(h) ==               \* mutant: the lock is not looked at
    /\ req[h].pc = "pinRead"
    /\ LET u == req[h].user IN
       req' = [req EXCEPT ![h].seen = user[u].failed,
                    ![h].pc = IF req[h].guess = user[u].pin THEN "pinRight" ELSE "pinWrong"]
    /\ UNCHANGED <<world, now, user>>

\* The lock is looked at once, here.
PinRead(h) ==
    /\ req[h].pc = "pinRead"
    /\ LET u == req[h].user IN
       IF Locked(u) THEN Answer(h)
       ELSE req' = [req EXCEPT ![h].seen = user[u].failed,
                    ![h].pc = IF req[h].guess = user[u].pin THEN "pinRight" ELSE "pinWrong"]
    /\ UNCHANGED <<world, now, user>>

ClearFailures(h) ==
    user' = [user EXCEPT ![req[h].user].failed = 0, ![req[h].user].locked = 0,
                         ![req[h].user].streak = 0]

PinRight(h) ==
    /\ req[h].pc = "pinRight"
    /\ ClearFailures(h)
    /\ To(h, "issue")
    /\ UNCHANGED <<world, now>>

PinWillLockLate(n) == n > FailLimit             \* mutant: one failure too many

PinWillLock(n) == n >= FailLimit

\* The count is written from the row as it was read, and no lock is written
\* as null, whatever the row holds by now.
WriteFailure(h) ==
    LET u == req[h].user
        n == req[h].seen + 1
    IN  user' = [user EXCEPT
            ![u].failed = IF PinWillLock(n) THEN 0 ELSE n,
            ![u].locked = IF PinWillLock(n) THEN now + LockTime ELSE 0,
            ![u].streak = IF @ + 1 >= FailLimit THEN 0 ELSE @ + 1]

PinWrong(h) ==
    /\ req[h].pc = "pinWrong"
    /\ WriteFailure(h)
    /\ Answer(h)
    /\ UNCHANGED <<world, now>>

----------------------------------------------------------------------------
(* resetPin: one transaction.                                              *)

SetPin(u) ==
    user' = [user EXCEPT ![u].pin = @ + 1, ![u].failed = 0, ![u].locked = 0,
                         ![u].streak = 0, ![u].raced = @ \/ LoggingIn(u) # {}]

ResetPin(h) ==
    /\ req[h].op = "reset" /\ req[h].pc = "entered"
    /\ SetPin(req[h].user)
    /\ req' = [req EXCEPT ![h].guess = user[req[h].user].pin + 1, ![h].pc = "revokeAll"]
    /\ UNCHANGED <<world, now>>

PinStep(h) == LogFind(h) \/ PinRead(h) \/ PinRight(h) \/ PinWrong(h) \/ ResetPin(h)

----------------------------------------------------------------------------
(* Properties                                                              *)

PinTypeOK == user \in [Users -> UserRow]

\* As long as no login of an account overlaps another or a reset, its stored count is the
\* number of wrong answers in a row, and never the limit.
FailuresCounted ==
    \A u \in Registered : ~user[u].raced =>
        user[u].failed = user[u].streak /\ user[u].streak < FailLimit
=============================================================================

------------------------ MODULE AccountsLimitsProofs ------------------------
(***************************************************************************)
(* Proofs about the limits of Accounts: the count of wrong PINs and the    *)
(* lock, what a reset ends, the single use of a session, the attempts at a *)
(* code and the codes that are sent.  Each holds for the rows that no two  *)
(* requests worked on at once, which the history fields tell.              *)
(***************************************************************************)
EXTENDS AccountsProofs

----------------------------------------------------------------------------
(* The count of wrong PINs                                                 *)

\* An account that is not raced has one login at most; it read the count and
\* found no lock, and both are still so.
LoginAlone(u) == \A g, h \in LoggingIn(u) : g = h

ReadFresh(u) == \A h \in LoggingIn(u) : req[h].pc \in {"pinRight", "pinWrong"} =>
                    req[h].seen = user[u].failed /\ ~Locked(u)

Counted(u) == user[u].failed = user[u].streak /\ user[u].streak < FailLimit

LoginGood(u) == ~user[u].raced => LoginAlone(u) /\ ReadFresh(u) /\ Counted(u)

LoginInv == \A u \in Users : LoginGood(u)

\* Only the steps of pinLogin work on a login.
LEMMA OtherOperation ==
    ASSUME BaseTypes, NEW h \in Handlers, Move(h), ~PinStep(h)
    PROVE  \/ req'[h].op # "login"
           \/ req'[h].user = None
  <1>1. CASE Arrival(h)
    BY <1>1, ArrivalOperation DEF Uses
  <1>2. CASE ~Arrival(h)
    <2>1. \/ Answer(h) /\ req'[h] = NoRequest
          \/ req'[h].op = req[h].op
      BY <1>2, MoveNamed DEF Named
    <2>2. ASSUME ~Answer(h) PROVE req[h].op # "login"
      <3>1. OtpStep(h) => req[h].pc \in {"findRecent", "createOtp", "sms", "verRead",
                              "verWrong", "verConsume", "consRead", "consWrite"}
        BY DEF OtpStep, FindRecent, CreateOtp, SendSms, VerRead, VerWrong, VerConsume,
           ConsRead, ConsWrite
      <3>2. AccountMove(h) => Arrival(h) \/ req[h].pc \in {"entered", "signCreate", "chgDup",
                                  "chgWrite", "revokeAll", "rotRead", "rotRevoke"}
        BY <2>2 DEF AccountMove, Arrival, VerUser, SignFind, SignCreate, ChangeChecked, ChgDup,
           ChgWrite, RevokeAll, Issue, CallFails, RotRead, RotRevoke
      <3>3. OtpMove(h) \/ PinMove(h) => Arrival(h) \/ OtpStep(h)
        BY <2>2 DEF OtpMove, PinMove, Arrival, OtpReplyLost
      <3>. QED
        BY <1>2, <3>1, <3>2, <3>3, OperationOf DEF Move, Uses
    <2>3. ASSUME Answer(h) PROVE req'[h].user = None
      BY <2>3, AnswerEffect, TypesApart DEF BaseTypes
    <2>. QED
      BY <2>1, <2>2, <2>3
  <1>. QED
    BY <1>1, <1>2

LEMMA LoginLeft ==
    ASSUME BaseInv, NEW u \in Users, LoginGood(u), NEW h \in Handlers, Others(h),
           UNCHANGED now, SameCount(user[u], user'[u]), user'[u].raced = user[u].raced,
           req'[h].op # "login" \/ req'[h].user # u
    PROVE  LoginGood(u)'
  <1>1. LoggingIn(u)' \subseteq LoggingIn(u) /\ h \notin LoggingIn(u)'
    BY DEF LoggingIn, Others
  <1>2. \A g \in LoggingIn(u)' : req'[g] = req[g]
    BY <1>1 DEF LoggingIn, Others
  <1>. QED
    BY <1>1, <1>2 DEF LoginGood, LoginAlone, ReadFresh, Counted, SameCount, Locked

\* Other accounts than the one a step works on.
LEMMA LoginElsewhere ==
    ASSUME BaseInv, NEW u \in Users, LoginGood(u), NEW h \in Handlers, Others(h),
           UNCHANGED now, user'[u] = user[u],
           req'[h].op # "login" \/ req'[h].user # u
    PROVE  LoginGood(u)'
  BY LoginLeft DEF SameCount

LEMMA LoginNext ==
    ASSUME BaseInv, LoginInv, [Next]_vars
    PROVE  LoginInv'
  <1>1. ASSUME UNCHANGED user, now' \in Nat, now' >= now, req' \in [Handlers -> Request],
               \A g \in Handlers : /\ req'[g].op = "login" => req[g].op = "login" /\ 
                                        req'[g].user = req[g].user /\ req'[g].pc = req[g].pc
                                        /\ req'[g].seen = req[g].seen
        PROVE  LoginInv'
    <2>1. ASSUME NEW u \in Users PROVE LoginGood(u)'
      <3>1. \A g \in LoggingIn(u)' : /\ g \in LoggingIn(u) /\ req'[g].pc = req[g].pc
                                     /\ req'[g].seen = req[g].seen
        BY <1>1 DEF LoggingIn
      <3>2. ~Locked(u) => ~Locked(u)'
        BY <1>1, UserFields, TypesApart DEF Locked, BaseInv
      <3>3. LoginGood(u)
        BY DEF LoginInv
      <3>. QED
        BY <1>1, <3>1, <3>2, <3>3 DEF LoginGood, LoginAlone, ReadFresh, Counted
    <2>. QED
      BY <2>1 DEF LoginInv
  <1>2. ASSUME Tick, UNCHANGED <<otp, user, session>> PROVE LoginInv'
    BY <1>1, <1>2, TypesApart DEF Tick, BaseInv
  <1>3. ASSUME NEW h \in Handlers, NEW p \in Phones, NEW k \in Purposes, SendOtp(h, p, k),
               UNCHANGED user
        PROVE  LoginInv'
    <2>1. now' = now /\ now \in Nat /\ req' \in [Handlers -> Request]
      BY <1>3, SendOtpEffect, TypesApart DEF SendOtp, BaseInv
    <2>2. /\ req'[h].op = "send"
          /\ \A g \in Handlers \ {h} : Alike(req[g], req'[g])
      BY <1>3, SendOtpEffect, TypesApart DEF BaseInv
    <2>. QED
      BY <1>1, <1>3, <2>1, <2>2 DEF Alike
  <1>4. ASSUME UNCHANGED vars PROVE LoginInv'
    BY <1>1, <1>4, TypesApart DEF vars, BaseInv
  <1>5. ASSUME NEW h \in Handlers, Move(h) PROVE LoginInv'
    <2>1. /\ Sound(h) /\ Others(h) /\ now' = now /\ now \in Nat
          /\ user \in [Users -> UserRow] /\ req \in [Handlers -> Request]
      BY <1>5, MoveSound, TypesApart DEF BaseInv, BaseTypes, Sound
    <2>2. ASSUME Answer(h) \/ req'[h].op # "login" \/ req'[h].user = None,
                 NEW v \in Users, user'[v] = user[v]
          PROVE  LoginGood(v)'
      <3>1. req'[h].op # "login" \/ req'[h].user # v
        BY <2>1, <2>2, AnswerEffect, NoneIsNothing
      <3>. QED
        BY <2>1, <2>2, <3>1, LoginElsewhere DEF LoginInv
    <2>3. ASSUME ~PinStep(h), ~SignCreate(h) PROVE LoginInv'
      <3>1. ASSUME NEW v \in Users PROVE LoginGood(v)'
        <4>1. req'[h].op # "login" \/ req'[h].user # v
          BY <1>5, <2>3, OtherOperation, NoneIsNothing DEF BaseInv, BaseTypes
        <4>2. SameCount(user[v], user'[v]) /\ user'[v].raced = user[v].raced
          BY <1>5, <2>3, AccountStays DEF BaseInv, BaseTypes
        <4>. QED
          BY <2>1, <4>1, <4>2, LoginLeft DEF LoginInv
      <3>. QED
        BY <3>1 DEF LoginInv
    <2>4. ASSUME SignCreate(h) PROVE LoginInv'
      <3>1. req'[h].op # "login" \/ req'[h].user = None
        BY <1>5, <2>4, OtherOperation, OperationOf DEF BaseInv, BaseTypes, SignCreate, PinStep,
           LogFind, PinRead, PinRight, PinWrong, ResetPin
      <3>2. ASSUME UNCHANGED user PROVE LoginInv'
        BY <2>2, <3>1, <3>2 DEF LoginInv
      <3>3. ASSUME NEW v \in Users \ Registered,
                   user' = [user EXCEPT ![v] = [NoUser EXCEPT !.phone = req[h].phone, !.pin = 1]]
            PROVE  LoginInv'
        <4>1. req[h].phone \in Phones
          BY <2>4, OperationOf, RowFields DEF BaseInv, BaseTypes, SignCreate, Fits, SignupFits,
             KnownRow
        <4>2. OtherUsers(v) /\ user'[v].failed = 0 /\ user'[v].streak = 0
          BY <2>1, <3>3, <4>1, NewUserEffect
        <4>3. LoggingIn(v)' = {}
          <5>1. ASSUME NEW g \in LoggingIn(v)' PROVE FALSE
            <6>1. g \in Handlers /\ req'[g].op = "login" /\ req'[g].user = v /\ v # None
              BY <5>1, NoneIsNothing DEF LoggingIn
            <6>2. req'[g] = req[g]
              BY <2>1, <3>1, <6>1 DEF Others
            <6>. QED
              BY <3>3, <6>1, <6>2, OperationOf, NoneIsNothing DEF BaseInv, BaseTypes, Fits,
                 LoginFits, RefreshFits, KnownUser, Registered
          <5>. QED
            BY <5>1
        <4>4. LoginGood(v)'
          BY <4>2, <4>3, PinAssumption DEF LoginGood, LoginAlone, ReadFresh, Counted
        <4>5. \A w \in Users \ {v} : LoginGood(w)'
          BY <2>2, <3>1, <4>2 DEF OtherUsers
        <4>. QED
          BY <4>4, <4>5 DEF LoginInv
      <3>. QED
        BY <2>4, <3>2, <3>3 DEF SignCreate
    <2>5. ASSUME LogFind(h) PROVE LoginInv'
      <3>1. req[h].op = "login"
        BY <2>5, OperationOf DEF BaseInv, BaseTypes, LogFind
      <3>2. ASSUME Answer(h), UNCHANGED user PROVE LoginInv'
        BY <2>2, <3>2 DEF LoginInv
      <3>3. ASSUME NEW v \in Users, req' = [req EXCEPT ![h].user = v, ![h].pc = "pinRead"],
                   user' = [user EXCEPT ![v].raced = @ \/ LoggingIn(v) # {}]
            PROVE  LoginInv'
        <4>1. /\ OtherUsers(v) /\ SameCount(user[v], user'[v])
              /\ (user'[v].raced <=> user[v].raced \/ LoggingIn(v) # {})
          <5>1. (LoggingIn(v) # {}) \in BOOLEAN
            OBVIOUS
          <5>. QED
            BY <2>1, <3>3, <5>1, RacedEffect
        <4>2. req[h] \in Request
          BY <2>1
        <4>3. req'[h].user = v /\ req'[h].pc = "pinRead"
          BY <2>1, <3>3, <4>2 DEF Request
        <4>4. LoginGood(v)'
          <5>1. CASE LoggingIn(v) # {}
            BY <4>1, <5>1 DEF LoginGood
          <5>2. CASE LoggingIn(v) = {}
            <6>1. \A g \in LoggingIn(v)' : g = h
              BY <2>1, <5>2 DEF LoggingIn, Others
            <6>2. LoginGood(v)
              BY DEF LoginInv
            <6>. QED
              BY <4>1, <4>3, <6>1, <6>2 DEF LoginGood, LoginAlone, ReadFresh, Counted,
                 SameCount
          <5>. QED
            BY <5>1, <5>2
        <4>5. \A w \in Users \ {v} : LoginGood(w)'
          BY <2>1, <4>1, <4>3, LoginElsewhere DEF LoginInv, OtherUsers
        <4>. QED
          BY <4>4, <4>5 DEF LoginInv
      <3>. QED
        BY <2>5, <3>2, <3>3 DEF LogFind, Owner
    <2>6. ASSUME PinRead(h) PROVE LoginInv'
      <3>1. PICK u \in Users : u = req[h].user /\ req[h].op = "login" /\ UNCHANGED user
        BY <2>6, UserOf, OperationOf DEF PinRead, BaseInv, BaseTypes
      <3>2. ASSUME Answer(h) PROVE LoginInv'
        BY <2>2, <3>1, <3>2 DEF LoginInv
      <3>3. ASSUME NEW p \in {"pinRight", "pinWrong"}, ~Locked(u),
                   req' = [req EXCEPT ![h].seen = user[u].failed, ![h].pc = p]
            PROVE  LoginInv'
        <4>1. PICK n \in Nat : n = user[u].failed
          BY <3>1, UserFields DEF BaseInv
        <4>2. /\ req'[h].pc = p /\ req'[h].seen = user[u].failed /\ req'[h].user = u
              /\ req'[h].op = "login"
          <5>. DEFINE q == [req[h] EXCEPT !.seen = n, !.pc = p]
          <5>1. req[h] \in Request /\ req' = [req EXCEPT ![h] = q]
            BY <2>1, <3>3, <4>1
          <5>2. q.pc = p /\ q.seen = n /\ q.user = req[h].user /\ q.op = req[h].op
            BY <5>1 DEF Request
          <5>. HIDE DEF q
          <5>3. req'[h] = q
            BY <2>1, <5>1
          <5>. QED
            BY <3>1, <4>1, <5>2, <5>3
        <4>3. LoginGood(u)'
          <5>1. LoggingIn(u)' = LoggingIn(u) /\ h \in LoggingIn(u)
            BY <2>1, <3>1, <4>2 DEF LoggingIn, Others
          <5>2. LoginGood(u)
            BY <3>1 DEF LoginInv
          <5>. QED
            BY <2>1, <3>1, <3>3, <4>2, <5>1, <5>2 DEF LoginGood, LoginAlone, ReadFresh,
               Counted, Locked, Others
        <4>4. \A w \in Users \ {u} : LoginGood(w)'
          BY <2>1, <3>1, <4>2, LoginElsewhere DEF LoginInv
        <4>. QED
          BY <4>3, <4>4 DEF LoginInv
      <3>. QED
        BY <2>6, <3>1, <3>2, <3>3 DEF PinRead
    <2>7. ASSUME PinRight(h) PROVE LoginInv'
      <3>1. PICK u \in Users : u = req[h].user /\ req[h].op = "login"
        BY <2>7, UserOf, OperationOf DEF PinRight, BaseInv, BaseTypes
      <3>2. /\ OtherUsers(u) /\ user'[u].failed = 0 /\ user'[u].streak = 0
            /\ user'[u].raced = user[u].raced
        BY <2>1, <2>7, <3>1, ClearEffect DEF PinRight
      <3>3. req'[h].pc = "issue" /\ req'[h].user = u /\ req'[h].op = "login"
        BY <2>1, <2>7, <3>1, ToEffect DEF PinRight, ReqPC, Named
      <3>4. LoginGood(u)'
        <4>1. LoggingIn(u)' = LoggingIn(u) /\ h \in LoggingIn(u)
          BY <2>1, <3>1, <3>3 DEF LoggingIn, Others
        <4>2. LoginGood(u)
          BY <3>1 DEF LoginInv
        <4>. QED
          BY <3>2, <3>3, <4>1, <4>2, PinAssumption DEF LoginGood, LoginAlone, ReadFresh, Counted
      <3>5. \A w \in Users \ {u} : LoginGood(w)'
        BY <2>1, <3>1, <3>2, <3>3, LoginElsewhere DEF LoginInv, OtherUsers
      <3>. QED
        BY <3>4, <3>5 DEF LoginInv
    <2>8. ASSUME PinWrong(h) PROVE LoginInv'
      <3>1. PICK u \in Users : u = req[h].user /\ req[h].op = "login"
        BY <2>8, UserOf, OperationOf DEF PinWrong, BaseInv, BaseTypes
      <3>2. LET n == req[h].seen + 1 IN
            /\ OtherUsers(u) /\ user'[u].failed = (IF n >= FailLimit THEN 0 ELSE n)
            /\ user'[u].streak = (IF user[u].streak + 1 >= FailLimit THEN 0
                                                                    ELSE user[u].streak + 1)
            /\ user'[u].raced = user[u].raced
        BY <2>1, <2>8, <3>1, FailureEffect DEF PinWrong
      <3>3. req'[h].op = None /\ req'[h].user = None /\ Answer(h)
        BY <2>1, <2>8, AnswerEffect DEF PinWrong
      <3>4. LoginGood(u)'
        <4>1. ASSUME ~user[u].raced
              PROVE  /\ LoggingIn(u)' = {} /\ req[h].seen = user[u].failed
                     /\ user[u].failed = user[u].streak
          <5>1. LoginAlone(u) /\ ReadFresh(u) /\ Counted(u)
            BY <3>1, <4>1 DEF LoginInv, LoginGood
          <5>2. h \in LoggingIn(u) /\ LoggingIn(u)' \subseteq LoggingIn(u) \ {h}
            BY <2>1, <3>1, <3>3, NoneIsNothing DEF LoggingIn, Others, Operations
          <5>. QED
            BY <2>8, <5>1, <5>2 DEF LoginAlone, ReadFresh, Counted, PinWrong
        <4>2. user[u].streak \in Nat
          BY <3>1, UserFields DEF BaseInv
        <4>. QED
          BY <3>2, <4>1, <4>2, PinAssumption DEF LoginGood, LoginAlone, ReadFresh, Counted
      <3>5. \A w \in Users \ {u} : LoginGood(w)'
        BY <2>2, <3>2, <3>3 DEF OtherUsers
      <3>. QED
        BY <3>4, <3>5 DEF LoginInv
    <2>9. ASSUME ResetPin(h) PROVE LoginInv'
      <3>1. PICK u \in Users : u = req[h].user /\ req[h].op = "reset"
        BY <2>9, UserOf DEF ResetPin, BaseInv, BaseTypes
      <3>2. /\ OtherUsers(u) /\ user'[u].failed = 0 /\ user'[u].streak = 0
            /\ (user'[u].raced <=> user[u].raced \/ LoggingIn(u) # {})
        BY <2>1, <2>9, <3>1, SetPinEffect DEF ResetPin
      <3>3. req'[h].op = "reset"
        <4>1. req[h] \in Request
          BY <2>1
        <4>. QED
          BY <2>1, <2>9, <3>1, <4>1 DEF ResetPin, Request
      <3>4. LoginGood(u)'
        <4>1. LoggingIn(u)' \subseteq LoggingIn(u)
          BY <2>1, <3>3 DEF LoggingIn, Others
        <4>. QED
          BY <3>2, <4>1, PinAssumption DEF LoginGood, LoginAlone, ReadFresh, Counted
      <3>5. \A w \in Users \ {u} : LoginGood(w)'
        BY <2>2, <3>2, <3>3 DEF OtherUsers
      <3>. QED
        BY <3>4, <3>5 DEF LoginInv
    <2>. QED
      BY <2>3, <2>4, <2>5, <2>6, <2>7, <2>8, <2>9 DEF PinStep
  <1>6. CASE Next
    BY <1>2, <1>3, <1>5, <1>6, NextIsMove
  <1>. QED
    BY <1>4, <1>6

LEMMA LoginInit ==
    ASSUME Init
    PROVE  LoginInv
  <1>1. ASSUME NEW u \in Users
        PROVE  user[u].failed = 0 /\ user[u].streak = 0 /\ LoggingIn(u) = {}
    <2>1. user[u].failed = 0 /\ user[u].streak = 0
      BY DEF Init, PinInit, NoUser
    <2>2. \A h \in Handlers : req[h].op = None
      BY EmptyFields DEF Init, RequestInit
    <2>. QED
      BY <2>1, <2>2, NoneIsNothing DEF LoggingIn, Operations
  <1>. QED
    BY <1>1, PinAssumption DEF LoginInv, LoginGood, LoginAlone, ReadFresh, Counted

LEMMA LoginCorrect == Spec => [](BaseInv /\ LoginInv)
  <1>1. Init => BaseInv /\ LoginInv
    BY BaseInit, LoginInit
  <1>2. (BaseInv /\ LoginInv) /\ [Next]_vars => (BaseInv /\ LoginInv)'
    BY BaseNext, LoginNext
  <1>. QED
    BY <1>1, <1>2, PTL DEF Spec

\* As long as no login of an account overlaps another or a reset, the count
\* that pin.service keeps is the number of wrong answers in a row and stays
\* below the threshold, over any number of logins, locks and failed calls.
THEOREM FailuresCountedCorrect == Spec => []FailuresCounted
  <1>1. BaseInv /\ LoginInv => FailuresCounted
    BY DEF LoginInv, LoginGood, Counted, FailuresCounted, Registered
  <1>. QED
    BY <1>1, LoginCorrect, PTL

\* What LockHolds says of a step.
LEMMA LockStep ==
    ASSUME BaseInv, LoginInv, [Next]_vars, NEW u \in Users, Locked(u),
           user'[u].locked # user[u].locked
    PROVE  \/ user'[u].pin # user[u].pin
           \/ \E h \in LoggingIn(u) : req[h].pc \in {"pinRight", "pinWrong"} /\ user[u].raced
  <1>1. ~UNCHANGED user
    OBVIOUS
  <1>2. PICK h \in Handlers : Move(h)
    BY <1>1, NextIsMove DEF vars
  <1>3. /\ user \in [Users -> UserRow] /\ req \in [Handlers -> Request] /\ now \in Nat
    BY TypesApart DEF BaseInv
  <1>4. CASE ~PinStep(h) /\ ~SignCreate(h)
    BY <1>2, <1>4, AccountStays DEF SameCount, BaseInv, BaseTypes
  <1>5. CASE SignCreate(h)
    <2>1. PICK v \in Users \ Registered :
              user' = [user EXCEPT ![v] = [NoUser EXCEPT !.phone = req[h].phone, !.pin = 1]]
      BY <1>1, <1>5 DEF SignCreate
    <2>2. u # v => user'[u] = user[u]
      BY <1>3, <2>1
    <2>3. user[v] = NoUser
      BY <2>1 DEF BaseInv, Blank, Registered
    <2>. QED
      BY <1>3, <2>2, <2>3, EmptyFields DEF Locked
  <1>6. CASE LogFind(h)
    <2>1. ASSUME NEW v \in Users, user' = [user EXCEPT ![v].raced = @ \/ LoggingIn(v) # {}]
          PROVE  FALSE
      <3>1. (LoggingIn(v) # {}) \in BOOLEAN
        OBVIOUS
      <3>2. OtherUsers(v) /\ SameCount(user[v], user'[v])
        BY <1>3, <2>1, <3>1, RacedEffect
      <3>. QED
        BY <3>2 DEF OtherUsers, SameCount
    <2>. QED
      BY <1>1, <1>6, <2>1 DEF LogFind, Owner
  <1>7. CASE PinRight(h) \/ PinWrong(h)
    <2>1. /\ req[h].user \in Users /\ req[h].op = "login"
          /\ req[h].pc \in {"pinRight", "pinWrong"}
      BY <1>7, UserOf, OperationOf DEF PinRight, PinWrong, BaseInv, BaseTypes
    <2>2. OtherUsers(req[h].user)
      BY <1>3, <1>7, <2>1, ClearEffect, FailureEffect DEF PinRight, PinWrong
    <2>3. req[h].user = u /\ h \in LoggingIn(u)
      BY <2>1, <2>2 DEF OtherUsers, LoggingIn
    <2>4. user[u].raced
      BY <2>1, <2>3 DEF LoginInv, LoginGood, ReadFresh
    <2>. QED
      BY <2>1, <2>3, <2>4
  <1>8. CASE ResetPin(h)
    <2>1. req[h].user \in Users
      BY <1>8, UserOf DEF ResetPin, BaseInv, BaseTypes
    <2>2. OtherUsers(req[h].user) /\ user'[req[h].user].pin = user[req[h].user].pin + 1
      BY <1>3, <1>8, <2>1, SetPinEffect DEF ResetPin
    <2>3. user[u].pin \in Nat
      BY UserFields DEF BaseInv
    <2>. QED
      BY <2>2, <2>3 DEF OtherUsers
  <1>. QED
    BY <1>1, <1>4, <1>5, <1>6, <1>7, <1>8 DEF PinStep, PinRead

\* A lock ends before its time only by a reset of the PIN, or by a login that
\* read the account before the lock was set and overlapped another one.
THEOREM LockHoldsCorrect == Spec => LockHolds
  <1>1. BaseInv /\ LoginInv /\ [Next]_vars =>
            [\A u \in Users : Locked(u) /\ user'[u].locked # user[u].locked =>
                \/ user'[u].pin # user[u].pin
                \/ \E h \in LoggingIn(u) : /\ req[h].pc \in {"pinRight", "pinWrong"}
                                           /\ user[u].raced]_vars
    BY LockStep
  <1>. QED
    BY <1>1, LoginCorrect, PTL DEF Spec, LockHolds

----------------------------------------------------------------------------
(* What a reset ends                                                       *)

\* q has been let in, or its token has passed the check of rotate: the places
\* of LettingIn.
LetIn(q) == q.pc \in {"pinRight", "rotRevoke", "issue"}

\* The PINs of which an account has tokens, or will have when the requests go
\* on, and those of which it may have: its PIN, and the older ones that the
\* history excepts.
Tokens(u)    == LettingIn(u) \cup user[u].live
KnownPins(u) == {user[u].pin} \cup user[u].stray

\* While a reset is between its PIN and its revocation there may be tokens, and
\* requests, of older PINs; its revocation ends the tokens and records the requests.
ResetGood(u) == ~Resetting(u) => Tokens(u) \subseteq KnownPins(u)

ResetInv == \A u \in Users : ResetGood(u)

LEMMA LettingInOf ==
    ASSUME NEW u, NEW h \in Handlers, Others(h)
    PROVE  /\ ~(LetIn(req'[h]) /\ req'[h].user = u) => LettingIn(u)' \subseteq LettingIn(u)
           /\ LettingIn(u)' \subseteq LettingIn(u) \cup {req'[h].guess}
           /\ LetIn(req[h]) /\ req[h].user = u => req[h].guess \in LettingIn(u)
  BY DEF LettingIn, LetIn, Others

\* Finishes account u's reset: it is the one that is between its two writes.
Finishing(h, u) == req[h].op = "reset" /\ req[h].user = u /\ req[h].pc = "revokeAll"

\* A step of h gives account u no token, and lets no request in, but with a PIN
\* it may have, unless a reset is being finished after the step.
LEMMA ResetKept ==
    ASSUME NEW u \in Users, ResetGood(u), NEW h \in Handlers, Others(h),
           \/ Resetting(u)'
           \/ Tokens(u)' \subseteq KnownPins(u)'
           \/ /\ ~Finishing(h, u) /\ KnownPins(u) \subseteq KnownPins(u)'
              /\ Tokens(u)' \subseteq Tokens(u) \cup KnownPins(u)
    PROVE  ResetGood(u)'
  <1>1. CASE Resetting(u)' \/ Tokens(u)' \subseteq KnownPins(u)'
    BY <1>1 DEF ResetGood
  <1>2. ASSUME ~Finishing(h, u), KnownPins(u) \subseteq KnownPins(u)',
               Tokens(u)' \subseteq Tokens(u) \cup KnownPins(u), ~Resetting(u)'
        PROVE  Tokens(u)' \subseteq KnownPins(u)'
    <2>1. ~Resetting(u)
      BY <1>2 DEF Resetting, Finishing, Others
    <2>. QED
      BY <1>2, <2>1 DEF ResetGood
  <1>. QED
    BY <1>1, <1>2 DEF ResetGood

\* A step that leaves the tokens and the PIN of u alone, and lets no request in.
LEMMA ResetElsewhere ==
    ASSUME NEW u \in Users, ResetGood(u), NEW h \in Handlers, Others(h), ~Finishing(h, u),
           user'[u].pin = user[u].pin, SameTokens(user[u], user'[u]),
           ~(LetIn(req'[h]) /\ req'[h].user = u)
    PROVE  ResetGood(u)'
  <1>1. KnownPins(u)' = KnownPins(u) /\ Tokens(u)' \subseteq Tokens(u)
    BY LettingInOf DEF KnownPins, Tokens, SameTokens
  <1>. QED
    BY <1>1, ResetKept

LEMMA TokensGiven ==
    ASSUME BaseTypes, NEW h \in Handlers, req[h].user \in Users, NEW live, NEW stray,
           NewTokens(h, live, stray)
    PROVE  LET u == req[h].user IN
           /\ OtherUsers(u) /\ user'[u].pin = user[u].pin
           /\ user'[u].live = live /\ user'[u].stray = stray
  <1>1. user \in [Users -> UserRow] /\ user[req[h].user] \in UserRow
    BY TypesApart DEF BaseTypes
  <1>. QED
    BY <1>1 DEF NewTokens, OtherUsers, UserRow

\* Few steps let a request in or change tokens.
LetsIn(h) == PinRead(h) \/ PinRight(h) \/ SignCreate(h) \/ ResetPin(h) \/ RevokeAll(h)
               \/ Issue(h) \/ CallFails(h) \/ RotRead(h) \/ RotRevoke(h)

LEMMA TokensStay ==
    ASSUME BaseTypes, NEW h \in Handlers, Move(h), ~LetsIn(h)
    PROVE  \A u \in Users : user'[u].pin = user[u].pin /\ SameTokens(user[u], user'[u])
  <1>. DEFINE Same == \A u \in Users : user'[u].pin = user[u].pin /\ SameTokens(user[u], user'[u])
  <1>1. ASSUME UNCHANGED user PROVE Same
    BY <1>1 DEF SameTokens
  <1>2. ASSUME NEW u \in Users, OtherUsers(u), user'[u].pin = user[u].pin,
               SameTokens(user[u], user'[u])
        PROVE  Same
    BY <1>2 DEF OtherUsers, SameTokens
  <1>3. user \in [Users -> UserRow] /\ req \in [Handlers -> Request] /\ now \in Nat
    BY TypesApart DEF BaseTypes
  <1>4. ASSUME LogFind(h) PROVE Same
    <2>1. ASSUME NEW u \in Users, user' = [user EXCEPT ![u].raced = @ \/ LoggingIn(u) # {}]
          PROVE  Same
      <3>1. (LoggingIn(u) # {}) \in BOOLEAN
        OBVIOUS
      <3>. QED
        BY <1>2, <1>3, <2>1, <3>1, RacedEffect DEF SamePin
    <2>. QED
      BY <1>1, <1>4, <2>1 DEF LogFind, Owner
  <1>5. ASSUME PinWrong(h) PROVE Same
    <2>1. req[h].user \in Users
      BY <1>5, UserOf DEF PinWrong
    <2>. QED
      BY <1>2, <1>3, <1>5, <2>1, FailureEffect DEF PinWrong, SamePin
  <1>6. ASSUME ChgWrite(h) PROVE Same
    <2>1. req[h].user \in Users /\ req[h].phone \in Phones
      <3>1. Fits(req[h], otp, user) /\ req[h].op = "change"
        BY <1>6, OperationOf DEF ChgWrite
      <3>. QED
        BY <1>6, <3>1, UserOf, RowFields DEF ChgWrite, Fits, ChangeFits, KnownRow, BaseTypes
    <2>2. ASSUME user' = [user EXCEPT ![req[h].user].phone = req[h].phone] PROVE Same
      BY <1>2, <1>3, <2>1, <2>2, PhoneEffect
    <2>. QED
      BY <1>1, <1>6, <2>2 DEF ChgWrite
  <1>. QED
    BY <1>1, <1>4, <1>5, <1>6 DEF LetsIn, Move, OtpMove, PinMove, AccountMove, PinStep,
       Login, Signup, Reset, Change, VerUser, SignFind, ChangeChecked, ChgDup, Refresh

LEMMA LetInPlaces ==
    ASSUME BaseTypes, NEW h \in Handlers, Move(h), ~LetsIn(h)
    PROVE  /\ ~LetIn(req'[h])
           /\ req[h].pc # "revokeAll"
  <1>. DEFINE Good == ~LetIn(req'[h]) /\ req[h].pc # "revokeAll"
  <1>1. req \in [Handlers -> Request] /\ req[h] \in Request
    BY TypesApart DEF BaseTypes
  <1>2. ASSUME Answer(h), req[h].pc # "revokeAll" PROVE Good
    BY <1>1, <1>2, AnswerEffect DEF LetIn
  <1>3. ASSUME NEW p \in ReqPC, To(h, p), p \notin {"pinRight", "rotRevoke", "issue"},
               req[h].pc # "revokeAll"
        PROVE  Good
    BY <1>1, <1>3, ToEffect DEF LetIn
  <1>4. ASSUME Arrival(h) PROVE Good
    BY <1>4, ArrivalOperation, EmptyFields DEF LetIn, Uses
  <1>5. ASSUME OtpStep(h) PROVE Good
    <2>1. ASSUME CreateOtp(h) PROVE Good
      BY <1>1, <2>1 DEF CreateOtp, Request, LetIn
    <2>2. ASSUME FindRecent(h) \/ SendSms(h) \/ VerWrong(h) \/ VerConsume(h) \/ ConsRead(h)
          PROVE  Good
      BY <1>2, <1>3, <2>2
      DEF FindRecent, SendSms, VerWrong, VerConsume, ConsRead, ReqPC
    <2>3. ASSUME VerRead(h) PROVE Good
      <3>1. ASSUME NEW p, NEW n, p \in {"verConsume", "verWrong"},
                   req' = [req EXCEPT ![h].seen = n, ![h].pc = p]
            PROVE  Good
        BY <1>1, <2>3, <3>1 DEF Request, LetIn, VerRead
      <3>2. \/ Answer(h)
            \/ req' = [req EXCEPT ![h].seen = otp[req[h].row].attempts, ![h].pc = "verConsume"]
            \/ req' = [req EXCEPT ![h].seen = otp[req[h].row].attempts, ![h].pc = "verWrong"]
        BY <2>3 DEF VerRead
      <3>. QED
        BY <1>2, <2>3, <3>1, <3>2 DEF VerRead
    <2>4. ASSUME ConsWrite(h) PROVE Good
      BY <1>1, <1>3, <2>4 DEF ConsWrite, Request, LetIn, ReqPC
    <2>. QED
      BY <1>5, <2>1, <2>2, <2>3, <2>4 DEF OtpStep
  <1>6. ASSUME OtpReplyLost(h) PROVE Good
    BY <1>2, <1>6 DEF OtpReplyLost
  <1>7. ASSUME LogFind(h) PROVE Good
    <2>1. ASSUME NEW v \in Users, req' = [req EXCEPT ![h].user = v, ![h].pc = "pinRead"]
          PROVE  Good
      BY <1>1, <1>7, <2>1 DEF Request, LetIn, LogFind
    <2>. QED
      BY <1>2, <1>7, <2>1 DEF LogFind, Owner
  <1>8. ASSUME PinWrong(h) \/ VerUser(h) PROVE Good
    BY <1>2, <1>8 DEF PinWrong, VerUser
  <1>9. ASSUME SignFind(h) \/ ChangeChecked(h) \/ ChgDup(h) PROVE Good
    BY <1>2, <1>3, <1>9 DEF SignFind, ChangeChecked, ChgDup, ReqPC
  <1>10. ASSUME ChgWrite(h) PROVE Good
    BY <1>2, <1>3, <1>10 DEF ChgWrite, ReqPC
  <1>. QED
    BY <1>4, <1>5, <1>6, <1>7, <1>8, <1>9, <1>10
    DEF LetsIn, Move, OtpMove, PinMove, AccountMove, PinStep, Arrival

LEMMA ResetNext ==
    ASSUME BaseInv, ResetInv, [Next]_vars
    PROVE  ResetInv'
  <1>1. ASSUME UNCHANGED user, \A g \in Handlers :
                   \/ Alike(req[g], req'[g])
                   \/ req[g].pc # "revokeAll" /\ ~LetIn(req'[g])
        PROVE  ResetInv'
    <2>1. ASSUME NEW u \in Users PROVE ResetGood(u)'
      <3>1. LettingIn(u)' \subseteq LettingIn(u)
        BY <1>1 DEF Alike, LetIn, LettingIn
      <3>2. Resetting(u) => Resetting(u)'
        BY <1>1 DEF Alike, Resetting
      <3>. QED
        BY <1>1, <3>1, <3>2 DEF ResetInv, ResetGood, Tokens, KnownPins
    <2>. QED
      BY <2>1 DEF ResetInv
  <1>2. ASSUME UNCHANGED <<req, user>> PROVE ResetInv'
    BY <1>1, <1>2 DEF Alike
  <1>3. ASSUME NEW h \in Handlers, NEW p \in Phones, NEW k \in Purposes, SendOtp(h, p, k),
               UNCHANGED user
        PROVE  ResetInv'
    <2>1. /\ req[h].pc = "idle" /\ req'[h].pc = "findRecent"
          /\ \A g \in Handlers \ {h} : Alike(req[g], req'[g])
      BY <1>3, SendOtpEffect, TypesApart DEF BaseInv
    <2>. QED
      BY <1>1, <1>3, <2>1 DEF LetIn
  <1>4. ASSUME NEW h \in Handlers, Move(h) PROVE ResetInv'
    <2>. USE DEF BaseInv, BaseTypes
    <2>1. /\ Others(h) /\ user \in [Users -> UserRow] /\ req \in [Handlers -> Request]
          /\ req[h] \in Request
      BY <1>4, MoveSound, TypesApart DEF Sound
    <2>2. ASSUME ~LetsIn(h) PROVE ResetInv'
      <3>1. ~LetIn(req'[h]) /\ req[h].pc # "revokeAll"
        BY <1>4, <2>2, LetInPlaces
      <3>2. \A u \in Users : user'[u].pin = user[u].pin /\ SameTokens(user[u], user'[u])
        BY <1>4, <2>2, TokensStay
      <3>. QED
        BY <2>1, <3>1, <3>2, ResetElsewhere DEF ResetInv, Finishing
    \* A step of h for account u, whose request goes on for it.
    <2>3. ASSUME NEW u \in Users, req[h].user = u, OtherUsers(u), ResetGood(u)',
                 LetIn(req'[h]) => req'[h].user = u
          PROVE  ResetInv'
      <3>1. ASSUME NEW v \in Users, v # u PROVE ResetGood(v)'
        BY <2>1, <2>3, <3>1, ResetElsewhere DEF ResetInv, OtherUsers, Finishing, SameTokens
      <3>. QED
        BY <2>3, <3>1 DEF ResetInv
    <2>4. ASSUME req[h].pc \in {"pinRead", "pinRight", "rotRead", "rotRevoke", "issue", "revokeAll"}
          PROVE  req[h].user \in Users /\ ResetGood(req[h].user)
      BY <2>4, UserOf DEF ResetInv
    \* A step that lets the request of h in, or on, with a PIN its account may have.
    <2>5. ASSUME NEW u \in Users, req[h].user = u, ResetGood(u), OtherUsers(u),
                 req[h].pc # "revokeAll", user'[u].pin = user[u].pin,
                 user'[u].stray = user[u].stray, req'[h].user = u,
                 user'[u].live \subseteq Tokens(u),
                 LetIn(req'[h]) => req'[h].guess \in Tokens(u) \cup KnownPins(u)
          PROVE  ResetInv'
      <3>1. KnownPins(u)' = KnownPins(u) /\ ~Finishing(h, u)
        BY <2>5 DEF KnownPins, Finishing
      <3>2. Tokens(u)' \subseteq Tokens(u) \cup KnownPins(u)
        BY <2>1, <2>5, LettingInOf DEF Tokens
      <3>3. ResetGood(u)'
        BY <2>1, <2>5, <3>1, <3>2, ResetKept
      <3>. QED
        BY <2>3, <2>5, <3>3
    \* A step that answers the request of h and takes tokens away at most.
    <2>6. ASSUME NEW u \in Users, req[h].user = u, ResetGood(u), OtherUsers(u), Answer(h),
                 ~Finishing(h, u), user'[u].pin = user[u].pin,
                 user'[u].stray = user[u].stray, user'[u].live \subseteq Tokens(u)
          PROVE  ResetInv'
      <3>1. KnownPins(u)' = KnownPins(u) /\ ~LetIn(req'[h])
        BY <2>1, <2>6, AnswerEffect DEF KnownPins, LetIn
      <3>2. Tokens(u)' \subseteq Tokens(u)
        BY <2>1, <2>6, <3>1, LettingInOf DEF Tokens
      <3>3. ResetGood(u)'
        BY <2>1, <2>6, <3>1, <3>2, ResetKept
      <3>. QED
        BY <2>3, <2>6, <3>1, <3>3
    <2>7. ASSUME PinRead(h) PROVE ResetInv'
      <3>1. PICK u \in Users : u = req[h].user /\ ResetGood(u) /\ user' = user
        BY <2>4, <2>7 DEF PinRead
      <3>2. ASSUME Answer(h) PROVE ResetInv'
        BY <2>6, <2>7, <3>1, <3>2 DEF PinRead, OtherUsers, Finishing, Tokens
      <3>3. ASSUME NEW p \in {"pinRight", "pinWrong"}, NEW n \in Nat,
                   p = "pinRight" => req[h].guess = user[u].pin,
                   req' = [req EXCEPT ![h].seen = n, ![h].pc = p]
            PROVE  ResetInv'
        <4>1. req'[h].pc = p /\ req'[h].user = u /\ req'[h].guess = req[h].guess
          BY <2>1, <3>1, <3>3 DEF Request
        <4>2. LetIn(req'[h]) => req'[h].guess \in KnownPins(u)
          BY <3>3, <4>1 DEF LetIn, KnownPins
        <4>. QED
          BY <2>5, <2>7, <3>1, <4>1, <4>2 DEF PinRead, OtherUsers, Tokens
      <3>4. user[u].failed \in Nat
        BY <3>1, UserFields
      <3>5. \/ Answer(h)
            \/ req' = [req EXCEPT ![h].seen = user[u].failed, ![h].pc = "pinRight"]
                 /\ req[h].guess = user[u].pin
            \/ req' = [req EXCEPT ![h].seen = user[u].failed, ![h].pc = "pinWrong"]
        BY <2>7, <3>1 DEF PinRead
      <3>. QED
        BY <3>2, <3>3, <3>4, <3>5
    <2>8. ASSUME PinRight(h) PROVE ResetInv'
      <3>1. PICK u \in Users : u = req[h].user /\ ResetGood(u) /\ req[h].pc = "pinRight"
        BY <2>4, <2>8 DEF PinRight
      <3>2. OtherUsers(u) /\ SamePin(user[u], user'[u]) /\ SameTokens(user[u], user'[u])
        BY <2>1, <2>8, <3>1, ClearEffect DEF PinRight
      <3>3. req'[h].user = u /\ req'[h].guess = req[h].guess
        BY <2>1, <2>8, <3>1, ToEffect DEF PinRight, ReqPC
      <3>4. req[h].guess \in Tokens(u)
        BY <2>1, <3>1, LettingInOf DEF Tokens, LetIn
      <3>. QED
        BY <2>5, <3>1, <3>2, <3>3, <3>4 DEF SamePin, SameTokens, Tokens
    <2>9. ASSUME SignCreate(h) PROVE ResetInv'
      <3>1. ASSUME Answer(h), UNCHANGED user PROVE ResetInv'
        BY <1>1, <2>1, <2>9, <3>1, AnswerEffect DEF LetIn, Others, Alike, SignCreate
      <3>2. ASSUME NEW v \in Users \ Registered,
                   user' = [user EXCEPT ![v] = [NoUser EXCEPT !.phone = req[h].phone, !.pin = 1]],
                   req' = [req EXCEPT ![h].pc = "issue", ![h].user = v, ![h].guess = 1]
            PROVE  ResetInv'
        <4>1. req[h].phone \in Phones
          BY <2>9, OperationOf, RowFields DEF SignCreate, Fits, SignupFits, KnownRow
        <4>2. /\ OtherUsers(v) /\ user'[v].pin = 1 /\ user'[v].live = {}
          BY <2>1, <3>2, <4>1, NewUserEffect
        <4>3. req'[h].user = v /\ req'[h].guess = 1
          BY <2>1, <3>2 DEF Request
        <4>4. LettingIn(v) = {}
          <5>1. ASSUME NEW g \in Handlers, LetIn(req[g]) PROVE user[req[g].user].phone # None
            BY <5>1, UserOf DEF LetIn
          <5>. QED
            BY <3>2, <5>1 DEF Registered, LettingIn, LetIn
        <4>5. Tokens(v)' \subseteq KnownPins(v)'
          BY <2>1, <4>2, <4>3, <4>4, LettingInOf DEF Tokens, KnownPins
        <4>6. ResetGood(v)'
          BY <4>5 DEF ResetGood
        <4>7. ASSUME NEW w \in Users, w # v PROVE ResetGood(w)'
          BY <2>1, <2>9, <4>2, <4>3, <4>7, ResetElsewhere
          DEF ResetInv, OtherUsers, SignCreate, Finishing, SameTokens
        <4>. QED
          BY <4>6, <4>7 DEF ResetInv
      <3>. QED
        BY <2>9, <3>1, <3>2 DEF SignCreate
    <2>10. ASSUME ResetPin(h) PROVE ResetInv'
      <3>1. PICK u \in Users : u = req[h].user /\ req[h].op = "reset"
        BY <2>10, UserOf DEF ResetPin
      <3>2. PICK pin \in Nat : pin = user[u].pin + 1
        BY <3>1, UserFields
      <3>3. OtherUsers(u)
        BY <2>1, <2>10, <3>1, SetPinEffect DEF ResetPin
      <3>4. req'[h].pc = "revokeAll" /\ req'[h].user = u /\ req'[h].op = "reset"
        <4>1. req' = [req EXCEPT ![h].guess = pin, ![h].pc = "revokeAll"]
          BY <2>10, <3>1, <3>2 DEF ResetPin
        <4>. QED
          BY <2>1, <3>1, <4>1 DEF Request
      <3>5. ResetGood(u)'
        BY <3>4 DEF ResetGood, Resetting
      <3>. QED
        BY <2>3, <3>1, <3>3, <3>4, <3>5
    <2>11. ASSUME RotRead(h) PROVE ResetInv'
      <3>1. PICK u \in Users : u = req[h].user /\ ResetGood(u) /\ user' = user
        BY <2>4, <2>11 DEF RotRead
      <3>2. PICK p \in {"rotRevoke", "revokeAll"} :
                To(h, p) /\ (p = "rotRevoke" => req[h].guess \in user[u].live)
        BY <2>11, <3>1 DEF RotRead
      <3>3. req'[h].pc = p /\ req'[h].user = u /\ req'[h].guess = req[h].guess
        BY <2>1, <3>1, <3>2, ToEffect DEF ReqPC
      <3>4. LetIn(req'[h]) => req'[h].guess \in Tokens(u)
        BY <3>2, <3>3 DEF LetIn, Tokens
      <3>. QED
        BY <2>5, <2>11, <3>1, <3>3, <3>4 DEF RotRead, OtherUsers, Tokens
    <2>12. ASSUME RotRevoke(h) PROVE ResetInv'
      <3>1. PICK u \in Users : u = req[h].user /\ ResetGood(u) /\ req[h].pc = "rotRevoke"
        BY <2>4, <2>12 DEF RotRevoke
      <3>2. PICK live \in SUBSET user[u].live : NewTokens(h, live, user[u].stray)
        BY <2>12, <3>1, TokenSteps
      <3>3. /\ OtherUsers(u) /\ user'[u].pin = user[u].pin
            /\ user'[u].live = live /\ user'[u].stray = user[u].stray
        BY <3>1, <3>2, TokensGiven
      <3>4. req'[h].user = u /\ req'[h].guess = req[h].guess
        BY <2>1, <2>12, <3>1, ToEffect DEF RotRevoke, ReqPC
      <3>5. req[h].guess \in Tokens(u)
        BY <2>1, <3>1, LettingInOf DEF Tokens, LetIn
      <3>. QED
        BY <2>5, <3>1, <3>2, <3>3, <3>4, <3>5 DEF Tokens
    <2>13. ASSUME Issue(h) PROVE ResetInv'
      <3>1. PICK u \in Users : u = req[h].user /\ ResetGood(u) /\ req[h].pc = "issue"
        BY <2>4, <2>13 DEF Issue
      <3>2. NewTokens(h, user[u].live \cup {req[h].guess}, user[u].stray)
        BY <2>13, <3>1, TokenSteps
      <3>3. /\ OtherUsers(u) /\ user'[u].pin = user[u].pin
            /\ user'[u].live = user[u].live \cup {req[h].guess}
            /\ user'[u].stray = user[u].stray
        BY <3>1, <3>2, TokensGiven
      <3>4. req[h].guess \in Tokens(u)
        BY <2>1, <3>1, LettingInOf DEF Tokens, LetIn
      <3>. QED
        BY <2>6, <2>13, <3>1, <3>3, <3>4 DEF Tokens, Issue, Finishing
    <2>14. ASSUME RevokeAll(h) PROVE ResetInv'
      <3>1. PICK u \in Users : u = req[h].user /\ ResetGood(u)
        BY <2>4, <2>14 DEF RevokeAll
      <3>2. CASE req[h].op = "reset"
        <4>. DEFINE stray == Stray(u, LettingIn(u) \cup {req[h].guess})
        <4>0. NewTokens(h, {}, stray)
          BY <2>14, <3>1, <3>2, TokenSteps
        <4>1. /\ OtherUsers(u) /\ user'[u].pin = user[u].pin /\ user'[u].live = {}
              /\ user'[u].stray = stray
          BY <3>1, <4>0, TokensGiven
        <4>2. req'[h].user = u /\ req'[h].guess = req[h].guess
          BY <2>1, <2>14, <3>1, <3>2, ToEffect DEF RevokeAll, ReqPC
        <4>3. Tokens(u)' \subseteq KnownPins(u)'
          BY <2>1, <4>1, <4>2, LettingInOf DEF Tokens, KnownPins, Stray
        <4>4. ResetGood(u)'
          BY <4>3 DEF ResetGood
        <4>. QED
          BY <2>3, <3>1, <4>1, <4>2, <4>4
      <3>3. CASE req[h].op # "reset"
        <4>0. NewTokens(h, {}, user[u].stray)
          BY <2>14, <3>1, <3>3, TokenSteps
        <4>1. /\ OtherUsers(u) /\ user'[u].pin = user[u].pin /\ user'[u].live = {}
              /\ user'[u].stray = user[u].stray
          BY <3>1, <4>0, TokensGiven
        <4>. QED
          BY <2>6, <2>14, <3>1, <3>3, <4>1 DEF RevokeAll, Finishing
      <3>. QED
        BY <3>2, <3>3
    <2>15. ASSUME CallFails(h) PROVE ResetInv'
      <3>1. Answer(h) /\ ~LetIn(req'[h])
        BY <2>1, <2>15, AnswerEffect DEF CallFails, LetIn
      <3>2. CASE req[h].op = "reset" /\ req[h].pc = "revokeAll"
        <4>1. PICK u \in Users : u = req[h].user /\ ResetGood(u)
          BY <2>4, <3>2
        <4>. DEFINE stray == Stray(u, LettingIn(u) \cup user[u].live)
        <4>0. NewTokens(h, user[u].live, stray)
          BY <2>15, <3>2, <4>1, TokenSteps
        <4>2. /\ OtherUsers(u) /\ user'[u].pin = user[u].pin
              /\ user'[u].live = user[u].live /\ user'[u].stray = stray
          BY <4>0, <4>1, TokensGiven
        <4>3. Tokens(u)' \subseteq KnownPins(u)'
          BY <2>1, <3>1, <4>2, LettingInOf DEF Tokens, KnownPins, Stray
        <4>4. ResetGood(u)'
          BY <4>3 DEF ResetGood
        <4>. QED
          BY <2>3, <3>1, <4>1, <4>2, <4>4
      <3>3. CASE ~(req[h].op = "reset" /\ req[h].pc = "revokeAll")
        BY <2>1, <2>15, <3>1, <3>3, ResetElsewhere DEF CallFails, ResetInv, Finishing, SameTokens
      <3>. QED
        BY <3>2, <3>3
    <2>. QED
      BY <2>2, <2>7, <2>8, <2>9, <2>10, <2>11, <2>12, <2>13, <2>14, <2>15 DEF LetsIn
  <1>5. CASE Next
    BY <1>2, <1>3, <1>4, <1>5, NextIsMove DEF Tick
  <1>. QED
    BY <1>2, <1>5 DEF vars

LEMMA ResetInit ==
    ASSUME Init
    PROVE  ResetInv
  <1>1. ASSUME NEW u \in Users PROVE LettingIn(u) = {}
    BY EmptyFields DEF Init, RequestInit, LettingIn
  <1>2. ASSUME NEW u \in Users PROVE user[u].live \subseteq {user[u].pin}
    BY DEF Init, PinInit, NoUser
  <1>. QED
    BY <1>1, <1>2 DEF ResetInv, ResetGood, Tokens, KnownPins

\* After a PIN reset no refresh token works that was issued under an older
\* PIN, however the reset interleaves with logins, signups, refreshes, other
\* resets and failed calls, but for two: who was being let in, or whose token had
\* passed the check of rotate, at the revocation, and whose tokens a reset left
\* that broke off before it revoked.
THEOREM ResetLocksOutCorrect == Spec => []ResetLocksOut
  <1>1. Init => BaseInv /\ ResetInv
    BY BaseInit, ResetInit
  <1>2. (BaseInv /\ ResetInv) /\ [Next]_vars => (BaseInv /\ ResetInv)'
    BY BaseNext, ResetNext
  <1>3. ResetInv => ResetLocksOut
    BY DEF ResetInv, ResetGood, Tokens, KnownPins, ResetLocksOut, Registered
  <1>. QED
    BY <1>1, <1>2, <1>3, PTL DEF Spec

----------------------------------------------------------------------------
(* What a step leaves of the codes                                         *)

\* Only its own use changes what a row says of the uses of its session, only
\* an answer what it says of the checks; a row stays the code it is, and an
\* overlap stays one.
LEMMA RowsStay ==
    ASSUME BaseInv, NEW h \in Handlers, Move(h)
    PROVE  \A r \in Rows :
               /\ otp[r].shared => otp'[r].shared
               /\ req[h].pc # "consWrite" => SameUses(otp[r], otp'[r])
               /\ req[h].pc \notin {"verWrong", "verConsume"} => SameChecks(otp[r], otp'[r])
               /\ ~Adds(h) => SameCode(otp[r], otp'[r])
  <1>. DEFINE Stays(r) == /\ otp[r].shared => otp'[r].shared
                          /\ ~Adds(h) => SameCode(otp[r], otp'[r])
                          /\ req[h].pc # "consWrite" => SameUses(otp[r], otp'[r])
                          /\ req[h].pc \notin {"verWrong", "verConsume"}
                                => SameChecks(otp[r], otp'[r])
              Same == \A r \in Rows : Stays(r)
  <1>1. ASSUME UNCHANGED otp PROVE Same
    BY <1>1 DEF SameUses, SameChecks, SameCode
  <1>2. ASSUME NEW r \in Rows, OtherRows(r), Stays(r) PROVE Same
    BY <1>2 DEF OtherRows, SameUses, SameChecks, SameCode
  <1>3. otp \in [Rows -> OtpRow] /\ req \in [Handlers -> Request]
    BY TypesApart DEF BaseInv
  <1>4. ASSUME NEW r \in Written, NEW guess \in {0, 1}, VerifyOtp(h, r, guess) PROVE Same
    <2>1. r \in Rows /\ Verifying(r) \in BOOLEAN
      BY DEF Written, Verifying
    <2>. QED
      BY <1>2, <1>3, <1>4, <2>1, SharedEffect DEF VerifyOtp
  <1>5. ASSUME Adds(h) PROVE Same
    <2>1. PICK r \in Rows : r = Cardinality(Written) + 1 /\ otp[r] = NoRow
      BY <1>5, NextRow DEF BaseInv, Adds
    <2>2. req[h].phone \in Phones /\ req[h].purpose \in Purposes
      BY <1>5, OperationOf DEF Adds, BaseInv, BaseTypes, Fits, SendFits
    <2>3. /\ OtherRows(r)
          /\ ~otp'[r].consumed /\ otp'[r].attempts = 0 /\ otp'[r].wrong = 0
          /\ otp'[r].right = 0 /\ ~otp'[r].used /\ otp'[r].entered = 0
          /\ otp' \in [Rows -> OtpRow]
      BY <1>5, <2>1, <2>2, AddRowEffect DEF BaseInv, Adds
    <2>4. otp'[r].consumed = FALSE /\ otp'[r].used = FALSE
      BY <2>3 DEF OtpRow
    <2>5. SameUses(NoRow, otp'[r]) /\ SameChecks(NoRow, otp'[r]) /\ ~NoRow.shared
      BY <2>3, <2>4 DEF NoRow, SameUses, SameChecks
    <2>. QED
      BY <1>2, <1>5, <2>1, <2>3, <2>5
  <1>6. ASSUME SendSms(h) PROVE Same
    <2>1. req[h].row \in Rows
      BY <1>6, RowOf DEF SendSms, BaseInv, BaseTypes
    <2>2. PICK sent \in BOOLEAN : otp' = [otp EXCEPT ![req[h].row].sent = sent]
      BY <1>6 DEF SendSms
    <2>. QED
      BY <1>2, <1>3, <2>1, <2>2, SentEffect
  <1>7. ASSUME req[h].pc = "verWrong", WriteAttempt(h) PROVE Same
    <2>1. req[h].row \in Rows
      BY <1>7, OperationOf, RowOf DEF BaseInv, BaseTypes
    <2>. QED
      BY <1>2, <1>3, <1>7, <2>1, AttemptEffect
  <1>8. ASSUME req[h].pc = "verConsume", ConsumeCode(h) PROVE Same
    <2>1. req[h].row \in Rows
      BY <1>8, OperationOf, RowOf DEF BaseInv, BaseTypes
    <2>. QED
      BY <1>2, <1>3, <1>8, <2>1, ConsumeEffect
  <1>9. ASSUME req[h].pc = "consWrite", MarkUsed(h) PROVE Same
    <2>1. req[h].row \in Rows
      BY <1>9, OperationOf, RowOf DEF BaseInv, BaseTypes
    <2>. QED
      BY <1>2, <1>3, <1>9, <2>1, MarkEffect
  <1>10. ASSUME NEW s \in session, NEW n \in session,
                Signup(h, s) \/ Reset(h, s) \/ Change(h, s, n)
         PROVE  Same
    <2>1. ASSUME NEW q, Use(h, q) PROVE Same
      BY <1>3, <2>1, UseEffect DEF Use
    <2>. QED
      BY <1>10, <2>1 DEF Signup, Reset, Change
  <1>11. ASSUME OtpStep(h) \/ OtpReplyLost(h) PROVE Same
    BY <1>1, <1>5, <1>6, <1>7, <1>8, <1>9, <1>11
    DEF OtpStep, OtpReplyLost, Adds, FindRecent, CreateOtp, VerRead, VerWrong, VerConsume,
        ConsRead, ConsWrite
  <1>12. ASSUME OtpMove(h) PROVE Same
    BY <1>4, <1>11, <1>12 DEF OtpMove
  <1>13. ASSUME AccountMove(h) PROVE Same
    <2>1. ASSUME NEW s \in session, Signup(h, s) \/ Reset(h, s) PROVE Same
      BY <1>10, <2>1
    <2>. QED
      BY <1>1, <1>10, <1>13, <2>1 DEF AccountMove, VerUser, SignFind, SignCreate,
         ChangeChecked, ChgDup, ChgWrite, RevokeAll, Issue, CallFails, Refresh, RotRead, RotRevoke
  <1>. QED
    BY <1>1, <1>12, <1>13 DEF Move, PinMove

----------------------------------------------------------------------------
(* The single use of a session                                             *)

\* A session whose uses did not overlap has one request at most that still has
\* to use it, it was marked once if it is used, and who is about to mark it
\* read that it is not.
UseAlone(r) == \A g, h \in Using(r) : g = h

UseExact(r) == otp[r].entered = IF otp[r].used THEN 1 ELSE 0

UseFresh(r) == \A h \in Using(r) : req[h].pc = "consWrite" /\ req[h].row = r => ~otp[r].used

UseGood(r) == ~otp[r].shared => UseAlone(r) /\ UseExact(r) /\ UseFresh(r)

UseInv == \A r \in Rows : UseGood(r)

\* A step of h that begins no use of row r, and marks nothing.
LEMMA UseStays ==
    ASSUME NEW r \in Rows, UseGood(r), NEW h \in Handlers, Others(h),
           otp[r].shared => otp'[r].shared, SameUses(otp[r], otp'[r]),
           h \in Using(r)' => /\ h \in Using(r)
                              /\ req'[h].pc = "consWrite" => ~otp[r].used
    PROVE  UseGood(r)'
  <1>1. ASSUME NEW g \in Using(r)'
        PROVE  /\ g \in Using(r)
               /\ req'[g].pc = "consWrite" /\ req'[g].row = r =>
                      req[g] = req'[g] \/ ~otp[r].used
    BY <1>1 DEF Using, Others
  <1>. QED
    BY <1>1 DEF UseGood, UseAlone, UseExact, UseFresh, SameUses

\* The requests that begin to use a session.
Presents(h) == \E s \in session : Signup(h, s) \/ Reset(h, s) \/ \E n \in session : Change(h, s, n)

LEMMA UsePlaces ==
    ASSUME BaseInv, NEW h \in Handlers, Move(h), ~Presents(h), ~ConsRead(h), ~ConsWrite(h)
    PROVE  \A r \in Rows : h \notin Using(r)'
  <1>. DEFINE Good == req'[h].pc \notin {"consRead", "consWrite"} \/ req'[h].op \notin Uses
  <1>1. req \in [Handlers -> Request] /\ req[h] \in Request
    BY TypesApart DEF BaseInv
  <1>2. ASSUME Answer(h) PROVE Good
    BY <1>1, <1>2, AnswerEffect
  <1>3. ASSUME NEW p \in ReqPC, To(h, p), p \notin {"consRead", "consWrite"} PROVE Good
    BY <1>1, <1>3, ToEffect
  <1>4. ASSUME OtpStep(h) \/ OtpReplyLost(h) \/ VerUser(h) PROVE Good
    <2>1. ASSUME req[h].op \in {"send", "verify"}, ~Arrival(h) PROVE Good
      <3>1. Answer(h) \/ req'[h].op = req[h].op
        BY <2>1, MoveNamed DEF Named, BaseInv, BaseTypes
      <3>. QED
        BY <1>2, <2>1, <3>1 DEF Uses
    <2>2. Busy(h)
      BY <1>4 DEF OtpStep, OtpReplyLost, VerUser, FindRecent, CreateOtp, SendSms, VerRead,
         VerWrong, VerConsume, ConsRead, ConsWrite, Busy
    <2>3. ~Arrival(h)
      BY <2>2 DEF Arrival, Arrive, Use, VerifyOtp, Login, Signup, Reset, Change, Refresh
    <2>4. ASSUME OtpStep(h) \/ VerUser(h) PROVE Good
      BY <2>1, <2>3, <2>4, OperationOf DEF BaseInv, BaseTypes, OtpStep, VerUser, FindRecent,
         CreateOtp, SendSms, VerRead, VerWrong, VerConsume
    <2>. QED
      BY <1>2, <1>4, <2>4 DEF OtpReplyLost
  <1>5. ASSUME PinStep(h) PROVE Good
    <2>1. ASSUME LogFind(h) \/ PinRead(h) \/ PinRight(h) \/ PinWrong(h) PROVE Good
      <3>1. req[h].op = "login" /\ Busy(h)
        BY <2>1, OperationOf DEF BaseInv, BaseTypes, LogFind, PinRead, PinRight, PinWrong, Busy
      <3>2. ~Arrival(h)
        BY <3>1 DEF Arrival, Arrive, Use, VerifyOtp, Login, Signup, Reset, Change, Refresh
      <3>. QED
        BY <1>2, <3>1, <3>2, MoveNamed DEF Named, BaseInv, BaseTypes, Uses
    <2>2. ASSUME ResetPin(h) PROVE Good
      BY <1>1, <2>2 DEF ResetPin, Request
    <2>. QED
      BY <1>5, <2>1, <2>2 DEF PinStep
  <1>6. ASSUME SignCreate(h) PROVE Good
    <2>1. ASSUME NEW u \in Users,
                 req' = [req EXCEPT ![h].pc = "issue", ![h].user = u, ![h].guess = 1]
          PROVE  Good
      BY <1>1, <2>1 DEF Request
    <2>2. Answer(h) \/ \E u \in Users :
              req' = [req EXCEPT ![h].pc = "issue", ![h].user = u, ![h].guess = 1]
      BY <1>6 DEF SignCreate
    <2>. QED
      BY <1>2, <2>1, <2>2
  <1>7. ASSUME SignFind(h) \/ ChangeChecked(h) \/ ChgDup(h) \/ ChgWrite(h) \/ RevokeAll(h)
                 \/ Issue(h) \/ CallFails(h) \/ RotRead(h) \/ RotRevoke(h)
        PROVE  Good
    BY <1>2, <1>3, <1>7 DEF SignFind, ChangeChecked, ChgDup, ChgWrite, RevokeAll, Issue,
       CallFails, RotRead, RotRevoke, ReqPC
  <1>8. ASSUME Arrival(h) PROVE Good
    <2>1. \/ \E r \in Written, right \in {0, 1} : VerifyOtp(h, r, right)
          \/ \E p \in Phones, u \in Registered : \E guess \in 0..user[u].pin : Login(h, p, guess)
          \/ \E u \in Registered : \E guess \in user[u].live \cup {0} : Refresh(h, u, guess)
      BY <1>8 DEF Arrival, Presents
    <2>2. ASSUME NEW r \in Written, NEW right \in {0, 1}, VerifyOtp(h, r, right) PROVE Good
      BY <1>1, <2>2 DEF VerifyOtp, Arrive, NoRequest, Uses
    <2>3. ASSUME NEW p \in Phones, NEW guess, Login(h, p, guess) PROVE Good
      BY <1>1, <2>3 DEF Login, Arrive, NoRequest, Uses
    <2>4. ASSUME NEW u \in Registered, NEW guess, Refresh(h, u, guess) PROVE Good
      BY <1>1, <2>4 DEF Refresh, Arrive, NoRequest, Uses
    <2>. QED
      BY <2>1, <2>2, <2>3, <2>4
  <1>9. Good
    BY <1>4, <1>5, <1>6, <1>7, <1>8 DEF Move, OtpMove, PinMove, AccountMove, Arrival, Presents
  <1>10. Fits(req'[h], otp', user')
    BY MoveSound DEF Sound, BaseInv, BaseTypes
  <1>11. req'[h].op \in Uses => \/ req'[h].pc \in {"consRead", "consWrite"}
                                \/ req'[h].next = None
    BY <1>10 DEF Fits, SignupFits, ResetFits, ChangeFits, Uses
  <1>. QED
    BY <1>9, <1>11, NoneIsNothing DEF Using

LEMMA UseNext ==
    ASSUME BaseInv, UseInv, [Next]_vars
    PROVE  UseInv'
  <1>1. ASSUME UNCHANGED otp, \A g \in Handlers :
                   \/ Alike(req[g], req'[g])
                   \/ req'[g].op \notin Uses
        PROVE  UseInv'
    <2>1. ASSUME NEW r \in Rows, NEW g \in Using(r)'
          PROVE  /\ g \in Using(r)
                 /\ req'[g].pc = req[g].pc /\ req'[g].row = req[g].row
      BY <1>1, <2>1 DEF Using, Alike
    <2>2. ASSUME NEW r \in Rows PROVE UseGood(r)'
      BY <1>1, <2>1 DEF UseInv, UseGood, UseAlone, UseExact, UseFresh
    <2>. QED
      BY <2>2 DEF UseInv
  <1>2. ASSUME UNCHANGED <<req, otp>> PROVE UseInv'
    BY <1>1, <1>2 DEF Alike
  <1>3. ASSUME NEW h \in Handlers, NEW p \in Phones, NEW k \in Purposes, SendOtp(h, p, k)
        PROVE  UseInv'
    <2>1. /\ req'[h].op \notin Uses
          /\ \A g \in Handlers \ {h} : Alike(req[g], req'[g])
      BY <1>3, SendOtpEffect, TypesApart DEF BaseInv, Uses
    <2>. QED
      BY <1>1, <1>3, <2>1 DEF SendOtp
  <1>4. ASSUME NEW h \in Handlers, Move(h) PROVE UseInv'
    <2>1. /\ Others(h) /\ otp \in [Rows -> OtpRow] /\ req \in [Handlers -> Request]
          /\ req[h] \in Request
      BY <1>4, MoveSound, TypesApart DEF BaseInv, BaseTypes, Sound
    <2>2. \A r \in Rows : /\ otp[r].shared => otp'[r].shared
                          /\ req[h].pc # "consWrite" => SameUses(otp[r], otp'[r])
      BY <1>4, RowsStay
    <2>3. ASSUME ~Presents(h), req[h].pc \notin {"consRead", "consWrite"} PROVE UseInv'
      <3>1. \A r \in Rows : h \notin Using(r)'
        BY <1>4, <2>3, UsePlaces DEF ConsRead, ConsWrite
      <3>. QED
        BY <2>1, <2>2, <2>3, <3>1, UseStays DEF UseInv
    <2>4. ASSUME Answer(h) PROVE \A r \in Rows : h \notin Using(r)'
      BY <2>1, <2>4, AnswerEffect, NoneIsNothing DEF Using, Uses, Operations
    <2>5. ASSUME ConsRead(h) PROVE UseInv'
      <3>1. CASE Answer(h)
        BY <2>1, <2>2, <2>4, <2>5, <3>1, UseStays DEF UseInv, ConsRead
      <3>2. CASE To(h, "consWrite") /\ ~otp[req[h].row].used
        <4>1. /\ req'[h].pc = "consWrite" /\ req'[h].row = req[h].row
              /\ req'[h].next = req[h].next /\ req'[h].op = req[h].op
          BY <2>1, <3>2, ToEffect DEF ReqPC, Named
        <4>2. ASSUME NEW r \in Rows PROVE UseGood(r)'
          <5>1. h \in Using(r)' => h \in Using(r)
            BY <2>5, <4>1 DEF Using, ConsRead
          <5>2. UseGood(r) /\ SameUses(otp[r], otp'[r])
            BY <2>2, <2>5 DEF UseInv, ConsRead
          <5>3. \A g \in Using(r)' : g \in Using(r) /\ (g # h => req'[g] = req[g])
            BY <2>1, <5>1 DEF Using, Others
          <5>. QED
            BY <2>2, <3>2, <4>1, <5>2, <5>3 DEF UseGood, UseAlone, UseExact, UseFresh, SameUses
        <4>. QED
          BY <4>2 DEF UseInv
      <3>. QED
        BY <2>5, <3>1, <3>2 DEF ConsRead
    \* The mark, after which the request has the second session to use, or none.
    <2>6. ASSUME req[h].pc = "consWrite", MarkUsed(h),
                 \A r \in Rows : h \in Using(r)' => req'[h].pc # "consWrite" /\ h \in Using(r)
          PROVE  UseInv'
      <3>1. PICK r \in Rows : r = req[h].row /\ req[h].op \in Uses
        BY <2>6, RowOf, OperationOf DEF BaseInv, BaseTypes
      <3>2. /\ OtherRows(r) /\ otp'[r].shared = otp[r].shared /\ otp'[r].used
            /\ otp'[r].entered = otp[r].entered + 1
        BY <2>1, <2>6, <3>1, MarkEffect
      <3>3. UseGood(r)'
        <4>1. UseGood(r) /\ h \in Using(r)
          BY <2>6, <3>1 DEF UseInv, Using
        <4>2. \A g \in Using(r)' : g \in Using(r)
          BY <2>1, <2>6 DEF Using, Others
        <4>. QED
          BY <2>6, <3>1, <3>2, <4>1, <4>2 DEF UseGood, UseAlone, UseExact, UseFresh
      <3>4. ASSUME NEW s \in Rows \ {r} PROVE UseGood(s)'
        BY <2>1, <2>6, <3>2, UseStays DEF UseInv, OtherRows, SameUses
      <3>. QED
        BY <3>3, <3>4 DEF UseInv
    <2>7. ASSUME ConsWrite(h) PROVE UseInv'
      <3>1. CASE req[h].next = None
        <4>1. req'[h].pc = "entered" /\ req'[h].next = None
          BY <2>1, <2>7, <3>1, ToEffect DEF ConsWrite, ReqPC
        <4>2. \A r \in Rows : h \notin Using(r)'
          BY <4>1, NoneIsNothing DEF Using
        <4>. QED
          BY <2>6, <2>7, <4>2 DEF ConsWrite
      <3>2. CASE req[h].next # None
        <4>1. PICK n \in Rows : n = req[h].next
          BY <2>1, <3>2, RequestTypes
        <4>2. req' = [req EXCEPT ![h].pc = "consRead", ![h].row = n, ![h].next = None]
          BY <2>7, <3>2, <4>1 DEF ConsWrite
        <4>3. /\ req'[h].pc = "consRead" /\ req'[h].row = n /\ req'[h].next = None
              /\ req'[h].op = req[h].op
          BY <2>1, <4>2 DEF Request
        <4>4. \A r \in Rows : h \in Using(r)' => req'[h].pc # "consWrite" /\ h \in Using(r)
          BY <4>1, <4>3, NoneIsNothing DEF Using
        <4>. QED
          BY <2>6, <2>7, <4>4 DEF ConsWrite
      <3>. QED
        BY <3>1, <3>2
    <2>8. ASSUME req[h].pc \in {"consRead", "consWrite"}, ~ConsRead(h), ~ConsWrite(h),
                 ~Presents(h)
          PROVE  UseInv'
      <3>1. Busy(h) /\ req[h].op \in Uses
        BY <2>8, OperationOf DEF BaseInv, BaseTypes, Busy
      <3>2. OtpReplyLost(h) \/ CallFails(h)
        <4>1. ~Arrival(h)
          BY <3>1 DEF Arrival, Arrive, Use, VerifyOtp, Login, Signup, Reset, Change, Refresh
        <4>. QED
          BY <1>4, <2>8, <4>1 DEF Move, OtpMove, PinMove, AccountMove, Arrival, OtpStep,
             PinStep, FindRecent, CreateOtp, SendSms, VerRead, VerWrong, VerConsume, LogFind,
             PinRead, PinRight, PinWrong, ResetPin, VerUser, SignFind, SignCreate,
             ChangeChecked, ChgDup, ChgWrite, RevokeAll, Issue, RotRead, RotRevoke
      <3>3. ASSUME OtpReplyLost(h) PROVE UseInv'
        <4>1. Answer(h) /\ req[h].pc = "consWrite" /\ MarkUsed(h)
          BY <2>8, <3>3 DEF OtpReplyLost
        <4>. QED
          BY <2>4, <2>6, <4>1
      <3>4. ASSUME CallFails(h) PROVE UseInv'
        <4>1. Answer(h) /\ otp' = otp
          BY <3>4 DEF CallFails
        <4>. QED
          BY <2>1, <2>4, <4>1, UseStays DEF UseInv, SameUses
      <3>. QED
        BY <3>2, <3>3, <3>4
    <2>9. ASSUME Presents(h) PROVE UseInv'
      <3>1. ASSUME NEW q \in Request, Use(h, q), q.pc = "consRead" PROVE UseInv'
        <4>1. req'[h] = q
          BY <2>1, <3>1, ArriveEffect DEF Use
        <4>2. ASSUME NEW r \in Rows PROVE UseGood(r)'
          <5>1. CASE r \in {q.row, q.next} /\ Using(r) # {}
            BY <2>1, <3>1, <5>1, UseEffect DEF Use, UseGood
          <5>2. CASE r \in {q.row, q.next} /\ Using(r) = {}
            <6>1. otp'[r] = otp[r]
              BY <2>1, <3>1, <5>2, UseEffect DEF Use
            <6>2. \A g \in Using(r)' : g = h
              BY <2>1, <5>2 DEF Using, Others
            <6>. QED
              BY <3>1, <4>1, <6>1, <6>2 DEF UseInv, UseGood, UseAlone, UseExact, UseFresh
          <5>3. CASE r \notin {q.row, q.next}
            <6>1. otp'[r] = otp[r]
              BY <2>1, <3>1, <5>3, UseEffect DEF Use
            <6>2. h \notin Using(r)'
              BY <4>1, <5>3 DEF Using
            <6>. QED
              BY <2>1, <6>1, <6>2, UseStays DEF UseInv, SameUses
          <5>. QED
            BY <5>1, <5>2, <5>3
        <4>. QED
          BY <4>2 DEF UseInv
      <3>2. ASSUME NEW s \in session, Signup(h, s) PROVE UseInv'
        BY <3>1, <3>2, SigningFields DEF Signup, Signing, BaseInv, BaseTypes
      <3>3. ASSUME NEW s \in session, Reset(h, s) PROVE UseInv'
        BY <3>1, <3>3, ReplacingFields DEF Reset, Replacing, BaseInv, BaseTypes
      <3>4. ASSUME NEW s \in session, NEW n \in session, Change(h, s, n) PROVE UseInv'
        BY <3>1, <3>4, ChangingFields DEF Change, Changing, BaseInv, BaseTypes
      <3>. QED
        BY <2>9, <3>2, <3>3, <3>4 DEF Presents
    <2>. QED
      BY <2>3, <2>5, <2>7, <2>8, <2>9
  <1>5. CASE Next
    BY <1>2, <1>3, <1>4, <1>5, NextIsMove DEF Tick
  <1>. QED
    BY <1>2, <1>5 DEF vars

LEMMA UseInit ==
    ASSUME Init
    PROVE  UseInv
  <1>1. ASSUME NEW r \in Rows
        PROVE  ~otp[r].used /\ otp[r].entered = 0 /\ Using(r) = {}
    <2>1. ~otp[r].used /\ otp[r].entered = 0
      BY DEF Init, OtpInit, NoRow
    <2>2. \A h \in Handlers : req[h].op = None
      BY EmptyFields DEF Init, RequestInit
    <2>. QED
      BY <2>1, <2>2, NoneIsNothing DEF Using, Uses, Operations
  <1>. QED
    BY <1>1 DEF UseInv, UseGood, UseAlone, UseExact, UseFresh

\* A session that no two requests presented at once lets one signup, reset or
\* change of number in, over any number of sessions, requests and failed calls,
\* a lost reply to the mark included.
THEOREM EnteredOnceCorrect == Spec => []EnteredOnce
  <1>1. Init => BaseInv /\ UseInv
    BY BaseInit, UseInit
  <1>2. (BaseInv /\ UseInv) /\ [Next]_vars => (BaseInv /\ UseInv)'
    BY BaseNext, UseNext
  <1>3. UseInv => EnteredOnce
    BY DEF UseInv, UseGood, UseExact, EnteredOnce, Written
  <1>. QED
    BY <1>1, <1>2, <1>3, PTL DEF Spec

----------------------------------------------------------------------------
(* The attempts at a code                                                  *)

\* A code whose checks did not overlap has one request at most that checks it;
\* if that one is about to answer, the code is not spent and the request knows
\* how many wrong answers it got.
Checking(r) == {h \in Handlers : req[h].op = "verify" /\ req[h].row = r}

CheckAlone(r) == \A g, h \in Checking(r) : g = h

CheckExact(r) ==
    /\ otp[r].attempts = otp[r].wrong
    /\ otp[r].consumed <=> otp[r].right = 1 \/ otp[r].wrong = AttemptLimit
    /\ otp[r].right <= 1 /\ otp[r].wrong <= AttemptLimit

CheckFresh(r) == \A h \in Checking(r) : req[h].pc \in {"verWrong", "verConsume"} =>
                    ~otp[r].consumed /\ req[h].seen = otp[r].attempts

CheckGood(r) == ~otp[r].shared => CheckAlone(r) /\ CheckExact(r) /\ CheckFresh(r)

CheckInv == \A r \in Rows : CheckGood(r)

LEMMA CheckStays ==
    ASSUME NEW r \in Rows, CheckGood(r), NEW h \in Handlers, Others(h),
           otp[r].shared => otp'[r].shared, SameChecks(otp[r], otp'[r]),
           h \in Checking(r)' => /\ h \in Checking(r)
                                 /\ req'[h].pc \in {"verWrong", "verConsume"} =>
                                        ~otp[r].consumed /\ req'[h].seen = otp[r].attempts
    PROVE  CheckGood(r)'
  <1>1. ASSUME NEW g \in Checking(r)'
        PROVE  /\ g \in Checking(r)
               /\ req'[g].pc \in {"verWrong", "verConsume"} =>
                      \/ req[g] = req'[g]
                      \/ ~otp[r].consumed /\ req'[g].seen = otp[r].attempts
    BY <1>1 DEF Checking, Others
  <1>. QED
    BY <1>1 DEF CheckGood, CheckAlone, CheckExact, CheckFresh, SameChecks

\* Only the steps of verifyOtp work on a check.
LEMMA CheckPlaces ==
    ASSUME BaseInv, NEW h \in Handlers, Move(h), ~VerRead(h), ~VerConsume(h),
           ~\E r \in Written, right \in {0, 1} : VerifyOtp(h, r, right)
    PROVE  req'[h].op # "verify"
  <1>. DEFINE Good == req'[h].op # "verify"
  <1>1. req \in [Handlers -> Request] /\ req[h] \in Request
    BY TypesApart DEF BaseInv
  <1>2. ASSUME Answer(h) PROVE Good
    BY <1>1, <1>2, AnswerEffect, NoneIsNothing DEF Operations
  <1>3. ASSUME Arrival(h) PROVE Good
    <2>1. ASSUME NEW p \in Phones, NEW guess, Login(h, p, guess) PROVE Good
      BY <1>1, <2>1 DEF Login, Arrive, NoRequest
    <2>2. ASSUME NEW s \in session, Signup(h, s) \/ Reset(h, s) PROVE Good
      BY <1>1, <2>2 DEF Signup, Reset, Use, Arrive, NoRequest
    <2>3. ASSUME NEW s \in session, NEW n \in session, Change(h, s, n) PROVE Good
      BY <1>1, <2>3 DEF Change, Use, Arrive, NoRequest
    <2>4. ASSUME NEW u \in Registered, NEW guess, Refresh(h, u, guess) PROVE Good
      BY <1>1, <2>4 DEF Refresh, Arrive, NoRequest
    <2>. QED
      BY <1>3, <2>1, <2>2, <2>3, <2>4 DEF Arrival
  <1>4. ASSUME ~Arrival(h) PROVE Good
    <2>1. Answer(h) \/ req'[h].op = req[h].op
      BY <1>4, MoveNamed DEF Named, BaseInv, BaseTypes
    <2>2. ASSUME req[h].op = "verify", ~Answer(h) PROVE FALSE
      <3>1. req[h].pc \in {"verRead", "verWrong", "verConsume", "verUser"}
        BY <2>2, OperationOf DEF BaseInv, BaseTypes, Fits, VerifyFits
      <3>2. OtpMove(h) => OtpStep(h) \/ OtpReplyLost(h)
        BY <1>4 DEF OtpMove, Arrival
      <3>3. ~OtpStep(h) /\ ~OtpReplyLost(h)
        BY <2>2, <3>1 DEF OtpStep, OtpReplyLost, FindRecent, CreateOtp, SendSms, VerWrong,
           ConsRead, ConsWrite
      <3>4. ~PinMove(h)
        BY <1>4, <3>1 DEF PinMove, Arrival, PinStep, LogFind, PinRead, PinRight, PinWrong, ResetPin
      <3>5. ~AccountMove(h)
        BY <1>4, <2>2, <3>1 DEF AccountMove, Arrival, VerUser, SignFind, SignCreate, ChangeChecked,
           ChgDup, ChgWrite, RevokeAll, Issue, CallFails, RotRead, RotRevoke
      <3>. QED
        BY <3>2, <3>3, <3>4, <3>5 DEF Move
    <2>. QED
      BY <1>2, <2>1, <2>2
  <1>. QED
    BY <1>3, <1>4

LEMMA CheckNext ==
    ASSUME BaseInv, CheckInv, [Next]_vars
    PROVE  CheckInv'
  <1>1. ASSUME UNCHANGED otp, \A g \in Handlers :
                   \/ Alike(req[g], req'[g])
                   \/ req'[g].op # "verify"
        PROVE  CheckInv'
    <2>1. ASSUME NEW r \in Rows, NEW g \in Checking(r)'
          PROVE  /\ g \in Checking(r)
                 /\ req'[g].pc = req[g].pc /\ req'[g].seen = req[g].seen
      BY <1>1, <2>1 DEF Checking, Alike
    <2>2. ASSUME NEW r \in Rows PROVE CheckGood(r)'
      BY <1>1, <2>1 DEF CheckInv, CheckGood, CheckAlone, CheckExact, CheckFresh
    <2>. QED
      BY <2>2 DEF CheckInv
  <1>2. ASSUME UNCHANGED <<req, otp>> PROVE CheckInv'
    BY <1>1, <1>2 DEF Alike
  <1>3. ASSUME NEW h \in Handlers, NEW p \in Phones, NEW k \in Purposes, SendOtp(h, p, k)
        PROVE  CheckInv'
    <2>1. /\ req'[h].op # "verify"
          /\ \A g \in Handlers \ {h} : Alike(req[g], req'[g])
      BY <1>3, SendOtpEffect, TypesApart DEF BaseInv
    <2>. QED
      BY <1>1, <1>3, <2>1 DEF SendOtp
  <1>4. ASSUME NEW h \in Handlers, Move(h) PROVE CheckInv'
    <2>1. /\ Others(h) /\ otp \in [Rows -> OtpRow] /\ req \in [Handlers -> Request]
          /\ req[h] \in Request
      BY <1>4, MoveSound, TypesApart DEF BaseInv, BaseTypes, Sound
    <2>2. \A r \in Rows : /\ otp[r].shared => otp'[r].shared
                          /\ req[h].pc \notin {"verWrong", "verConsume"}
                                => SameChecks(otp[r], otp'[r])
      BY <1>4, RowsStay
    <2>3. ASSUME req'[h].op # "verify", req[h].pc \notin {"verWrong", "verConsume"}
          PROVE  CheckInv'
      <3>1. \A r \in Rows : h \notin Checking(r)'
        BY <2>3 DEF Checking
      <3>. QED
        BY <2>1, <2>2, <2>3, <3>1, CheckStays DEF CheckInv
    <2>4. ASSUME Answer(h) PROVE req'[h].op # "verify"
      BY <2>1, <2>4, AnswerEffect, NoneIsNothing DEF Operations
    <2>5. ASSUME NEW r \in Written, NEW guess \in {0, 1}, VerifyOtp(h, r, guess) PROVE CheckInv'
      <3>1. r \in Rows /\ Verifying(r) \in BOOLEAN
        BY DEF Written, Verifying
      <3>2. /\ OtherRows(r) /\ SameChecks(otp[r], otp'[r])
            /\ otp'[r].shared <=> otp[r].shared \/ Verifying(r)
        BY <2>1, <2>5, <3>1, SharedEffect DEF VerifyOtp
      <3>3. req'[h].op = "verify" /\ req'[h].row = r /\ req'[h].pc = "verRead"
        BY <2>1, <2>5, <3>1 DEF VerifyOtp, Arrive, NoRequest
      <3>4. CheckGood(r)'
        <4>1. CASE Verifying(r)
          BY <3>2, <4>1 DEF CheckGood
        <4>2. CASE ~Verifying(r)
          <5>1. \A g \in Checking(r)' : g = h
            BY <2>1, <4>2 DEF Checking, Verifying, Others
          <5>. QED
            BY <3>1, <3>2, <3>3, <4>2, <5>1
            DEF CheckInv, CheckGood, CheckAlone, CheckExact, CheckFresh, SameChecks
        <4>. QED
          BY <4>1, <4>2
      <3>5. ASSUME NEW s \in Rows \ {r} PROVE CheckGood(s)'
        <4>1. h \notin Checking(s)' /\ otp'[s] = otp[s]
          BY <3>2, <3>3 DEF Checking, OtherRows
        <4>. QED
          BY <2>1, <4>1, CheckStays DEF CheckInv, SameChecks
      <3>. QED
        BY <3>4, <3>5 DEF CheckInv
    <2>6. ASSUME VerRead(h) PROVE CheckInv'
      <3>1. CASE Answer(h)
        BY <2>3, <2>4, <2>6, <3>1 DEF VerRead
      <3>2. ASSUME NEW p \in {"verConsume", "verWrong"}, ~otp[req[h].row].consumed,
                   req' = [req EXCEPT ![h].seen = otp[req[h].row].attempts, ![h].pc = p]
            PROVE  CheckInv'
        <4>1. PICK r \in Rows : r = req[h].row /\ req[h].op = "verify"
          BY <2>6, RowOf, OperationOf DEF BaseInv, BaseTypes, VerRead
        <4>2. PICK n \in Nat : n = otp[r].attempts
          BY RowFields DEF BaseInv
        <4>3. req'[h].seen = n /\ req'[h].pc = p /\ req'[h].row = r /\ req'[h].op = "verify"
          <5>1. req' = [req EXCEPT ![h].seen = n, ![h].pc = p]
            BY <3>2, <4>1, <4>2
          <5>. QED
            BY <2>1, <4>1, <5>1 DEF Request
        <4>4. ASSUME NEW s \in Rows PROVE CheckGood(s)'
          <5>1. h \in Checking(s)' => s = r /\ h \in Checking(s)
            BY <4>1, <4>3 DEF Checking
          <5>2. SameChecks(otp[s], otp'[s])
            BY <2>2, <2>6 DEF VerRead
          <5>. QED
            BY <2>1, <2>2, <3>2, <4>1, <4>2, <4>3, <5>1, <5>2, CheckStays DEF CheckInv
        <4>. QED
          BY <4>4 DEF CheckInv
      <3>3. \/ Answer(h)
            \/ /\ ~otp[req[h].row].consumed
               /\ req' = [req EXCEPT ![h].seen = otp[req[h].row].attempts, ![h].pc = "verConsume"]
            \/ /\ ~otp[req[h].row].consumed
               /\ req' = [req EXCEPT ![h].seen = otp[req[h].row].attempts, ![h].pc = "verWrong"]
        BY <2>6 DEF VerRead
      <3>. QED
        BY <3>1, <3>2, <3>3
    \* The answer, with the count that the request read.
    <2>7. ASSUME \/ req[h].pc = "verWrong" /\ WriteAttempt(h)
                 \/ req[h].pc = "verConsume" /\ ConsumeCode(h),
                 req'[h].op = "verify" =>
                     req'[h].row = req[h].row /\ req'[h].pc \notin {"verWrong", "verConsume"}
          PROVE  CheckInv'
      <3>1. PICK r \in Rows : r = req[h].row /\ req[h].op = "verify"
        BY <2>7, RowOf, OperationOf DEF BaseInv, BaseTypes
      <3>2. CheckGood(r) /\ h \in Checking(r)
        BY <3>1 DEF CheckInv, Checking
      <3>3. /\ otp[r].attempts \in Nat /\ otp[r].wrong \in Nat /\ otp[r].right \in Nat
            /\ AttemptLimit \in Nat
        BY RowFields, OtpAssumption DEF BaseInv
      <3>4. \A g \in Checking(r)' : g \in Checking(r) /\ (g # h => req'[g] = req[g])
        BY <2>1, <2>7, <3>1 DEF Checking, Others
      <3>5. OtherRows(r) /\ CheckGood(r)'
        <4>1. CASE req[h].pc = "verWrong" /\ WriteAttempt(h)
          <5>1. /\ OtherRows(r)
                /\ otp'[r].shared = otp[r].shared /\ otp'[r].right = otp[r].right
                /\ otp'[r].attempts = req[h].seen + 1
                /\ (otp'[r].consumed <=> req[h].seen + 1 >= AttemptLimit)
                /\ ~otp[r].shared => otp'[r].wrong = otp[r].wrong + 1
            BY <2>1, <3>1, <4>1, AttemptEffect
          <5>2. ASSUME ~otp[r].shared
                PROVE  /\ ~otp[r].consumed /\ req[h].seen = otp[r].wrong
                       /\ otp[r].attempts = otp[r].wrong
                       /\ otp[r].right # 1 /\ otp[r].right <= 1
                       /\ otp[r].wrong < AttemptLimit /\ CheckAlone(r)
            BY <3>2, <3>3, <4>1, <5>2 DEF CheckGood, CheckExact, CheckFresh
          <5>3. ASSUME ~otp[r].shared PROVE CheckExact(r)'
            BY <3>3, <5>1, <5>2, <5>3 DEF CheckExact
          <5>4. ASSUME ~otp[r].shared PROVE CheckAlone(r)' /\ CheckFresh(r)'
            BY <2>7, <3>2, <3>4, <5>2, <5>4 DEF CheckAlone, CheckFresh, Checking
          <5>. QED
            BY <5>1, <5>3, <5>4 DEF CheckGood
        <4>2. CASE req[h].pc = "verConsume" /\ ConsumeCode(h)
          <5>1. /\ OtherRows(r)
                /\ otp'[r].shared = otp[r].shared /\ otp'[r].wrong = otp[r].wrong
                /\ otp'[r].attempts = otp[r].attempts /\ otp'[r].consumed
                /\ ~otp[r].shared => otp'[r].right = otp[r].right + 1
            BY <2>1, <3>1, <4>2, ConsumeEffect
          <5>2. ASSUME ~otp[r].shared
                PROVE  /\ ~otp[r].consumed
                       /\ otp[r].attempts = otp[r].wrong
                       /\ otp[r].right # 1 /\ otp[r].right <= 1
                       /\ otp[r].wrong <= AttemptLimit /\ CheckAlone(r)
            BY <3>2, <3>3, <4>2, <5>2 DEF CheckGood, CheckExact, CheckFresh
          <5>3. ASSUME ~otp[r].shared PROVE CheckExact(r)'
            BY <3>3, <5>1, <5>2, <5>3 DEF CheckExact
          <5>4. ASSUME ~otp[r].shared PROVE CheckAlone(r)' /\ CheckFresh(r)'
            BY <2>7, <3>2, <3>4, <5>2, <5>4 DEF CheckAlone, CheckFresh, Checking
          <5>. QED
            BY <5>1, <5>3, <5>4 DEF CheckGood
        <4>. QED
          BY <2>7, <4>1, <4>2
      <3>6. ASSUME NEW s \in Rows \ {r} PROVE CheckGood(s)'
        <4>1. h \notin Checking(s)' /\ otp'[s] = otp[s]
          BY <2>7, <3>1, <3>5 DEF Checking, OtherRows
        <4>. QED
          BY <2>1, <4>1, CheckStays DEF CheckInv, SameChecks
      <3>. QED
        BY <3>5, <3>6 DEF CheckInv
    <2>8. ASSUME VerConsume(h) PROVE CheckInv'
      <3>1. req'[h].pc = "verUser" /\ req'[h].row = req[h].row
        BY <2>1, <2>8, ToEffect DEF VerConsume, ReqPC
      <3>. QED
        BY <2>7, <2>8, <3>1 DEF VerConsume
    <2>9. ASSUME req[h].pc \in {"verWrong", "verConsume"}, ~VerConsume(h) PROVE CheckInv'
      <3>1. Busy(h)
        BY <2>9 DEF Busy
      <3>2. VerWrong(h) \/ OtpReplyLost(h) \/ CallFails(h)
        <4>1. ~Arrival(h)
          BY <3>1 DEF Arrival, Arrive, Use, VerifyOtp, Login, Signup, Reset, Change, Refresh
        <4>2. req[h].op = "verify"
          BY <2>9, OperationOf DEF BaseInv, BaseTypes
        <4>. QED
          BY <1>4, <2>9, <4>1, <4>2 DEF Move, OtpMove, PinMove, AccountMove, Arrival, OtpStep,
             PinStep, FindRecent, CreateOtp, SendSms, VerRead, ConsRead, ConsWrite, LogFind,
             PinRead, PinRight, PinWrong, ResetPin, VerUser, SignFind, SignCreate,
             ChangeChecked, ChgDup, ChgWrite, RevokeAll, Issue, RotRead, RotRevoke
      <3>3. ASSUME VerWrong(h) \/ OtpReplyLost(h) PROVE CheckInv'
        <4>1. Answer(h)
          BY <3>3 DEF VerWrong, OtpReplyLost
        <4>2. \/ req[h].pc = "verWrong" /\ WriteAttempt(h)
              \/ req[h].pc = "verConsume" /\ ConsumeCode(h)
          BY <2>9, <3>3 DEF VerWrong, OtpReplyLost
        <4>. QED
          BY <2>4, <2>7, <4>1, <4>2
      <3>4. ASSUME CallFails(h) PROVE CheckInv'
        <4>1. Answer(h) /\ otp' = otp
          BY <3>4 DEF CallFails
        <4>2. \A r \in Rows : h \notin Checking(r)'
          BY <2>4, <4>1 DEF Checking
        <4>. QED
          BY <2>1, <4>1, <4>2, CheckStays DEF CheckInv, SameChecks
      <3>. QED
        BY <3>2, <3>3, <3>4
    <2>. QED
      BY <1>4, <2>3, <2>5, <2>6, <2>8, <2>9, CheckPlaces
  <1>5. CASE Next
    BY <1>2, <1>3, <1>4, <1>5, NextIsMove DEF Tick
  <1>. QED
    BY <1>2, <1>5 DEF vars

LEMMA CheckInit ==
    ASSUME Init
    PROVE  CheckInv
  <1>1. ASSUME NEW r \in Rows
        PROVE  /\ ~otp[r].consumed /\ otp[r].attempts = 0 /\ otp[r].wrong = 0
               /\ otp[r].right = 0 /\ Checking(r) = {}
    <2>1. /\ ~otp[r].consumed /\ otp[r].attempts = 0 /\ otp[r].wrong = 0
          /\ otp[r].right = 0
      BY DEF Init, OtpInit, NoRow
    <2>2. \A h \in Handlers : req[h].op = None
      BY EmptyFields DEF Init, RequestInit
    <2>. QED
      BY <2>1, <2>2, NoneIsNothing DEF Checking, Operations
  <1>2. ASSUME NEW r \in Rows PROVE CheckExact(r)
    <2>1. AttemptLimit \in Nat /\ AttemptLimit # 0
      BY OtpAssumption
    <2>2. otp[r].right <= 1 /\ otp[r].wrong <= AttemptLimit
      BY <1>1, <2>1
    <2>3. ~otp[r].consumed /\ otp[r].right # 1 /\ otp[r].wrong # AttemptLimit
      BY <1>1, <2>1
    <2>. QED
      BY <1>1, <2>2, <2>3 DEF CheckExact
  <1>3. ASSUME NEW r \in Rows PROVE CheckAlone(r) /\ CheckFresh(r)
    BY <1>1 DEF CheckAlone, CheckFresh
  <1>. QED
    BY <1>2, <1>3 DEF CheckInv, CheckGood

\* A code whose checks did not overlap is spent by its right answer or by the
\* last wrong one allowed, and by nothing else, and its counter is exact until
\* then, whatever else is in flight and whatever calls fail.
THEOREM AttemptsCountedCorrect == Spec => []AttemptsCounted
  <1>1. Init => BaseInv /\ CheckInv
    BY BaseInit, CheckInit
  <1>2. (BaseInv /\ CheckInv) /\ [Next]_vars => (BaseInv /\ CheckInv)'
    BY BaseNext, CheckNext
  <1>3. CheckInv => AttemptsCounted
    BY DEF CheckInv, CheckGood, CheckExact, AttemptsCounted, Written
  <1>. QED
    BY <1>1, <1>2, <1>3, PTL DEF Spec

----------------------------------------------------------------------------
(* The codes that are sent                                                 *)

\* In table o: the codes of number p in the window before time t, and whether
\* they refuse another one.
Lately(p, t, o) == {r \in Rows : /\ o[r].phone # None /\ o[r].phone = p
                                 /\ o[r].created > t - Window}

Refused(p, t, o) == \/ Cardinality(Lately(p, t, o)) >= WindowLimit
                    \/ \E r \in Lately(p, t, o) : o[r].created > t - Cooldown

\* The rows before row r of its number, and the limits for row r.
Before(r, o) == {q \in Rows : o[q].phone # None /\ q < r /\ o[q].phone = o[r].phone}

Limited(r, o) ==
    /\ \A q \in Before(r, o) : o[q].created + Cooldown <= o[r].created
    /\ Cardinality({q \in Before(r, o) : o[q].created > o[r].created - Window}) < WindowLimit

AllLimited(o) == \A r \in Rows : o[r].phone # None /\ ~o[r].raced => Limited(r, o)

LEMMA SendsLimitedAs ==
    /\ SendsLimited <=> AllLimited(otp)
    /\ \A h \in Handlers : MayNotSend(h) <=> Refused(req[h].phone, req[h].at, otp)
  <1>1. \A r \in Written : Before(r, otp) = {q \in Written : q < r /\ otp[q].phone = otp[r].phone}
    BY DEF Before, Written
  <1>2. \A h \in Handlers : Lately(req[h].phone, req[h].at, otp) = Recent(h)
    BY DEF Lately, Recent, Written
  <1>. QED
    BY <1>1, <1>2 DEF SendsLimited, AllLimited, Limited, MayNotSend, Refused, Written

\* Tables that have the same codes refuse the same and are limited alike.
LEMMA SameCodes ==
    ASSUME NEW o, NEW x, \A r \in Rows : SameCode(o[r], x[r])
    PROVE  /\ AllLimited(o) => AllLimited(x)
           /\ \A p, t : Refused(p, t, x) => Refused(p, t, o)
  <1>1. \A r \in Rows : Before(r, x) = Before(r, o)
    BY DEF Before, SameCode
  <1>2. ASSUME NEW r \in Rows, Limited(r, o) PROVE Limited(r, x)
    <2>1. {q \in Before(r, x) : x[q].created > x[r].created - Window}
            = {q \in Before(r, o) : o[q].created > o[r].created - Window}
      BY <1>1 DEF Before, SameCode
    <2>2. \A q \in Before(r, x) : x[q].created + Cooldown <= x[r].created
      BY <1>1, <1>2 DEF Limited, Before, SameCode
    <2>. QED
      BY <1>2, <2>1, <2>2 DEF Limited
  <1>3. \A p, t : Lately(p, t, x) = Lately(p, t, o)
    BY DEF Lately, SameCode
  <1>4. \A p, t : \A r \in Lately(p, t, o) : x[r].created = o[r].created
    BY DEF Lately, SameCode
  <1>. QED
    BY <1>2, <1>3, <1>4 DEF AllLimited, Refused, SameCode

\* A send that met no other for its number is alone with it, and about to
\* write its code it is still not refused.
SendAlone(h) == \A g \in Sending(req[h].phone) : g = h

SendClear(h) == req[h].pc = "createOtp" => ~Refused(req[h].phone, req[h].at, otp)

SendGood(h) == req[h].op = "send" =>
    /\ req[h].at <= now
    /\ ~req[h].shared => SendAlone(h) /\ SendClear(h)

SendInv == AllLimited(otp) /\ \A h \in Handlers : SendGood(h)

\* Only SendOtp begins a send.
LEMMA SendNamed ==
    ASSUME BaseInv, NEW h \in Handlers, Move(h), req'[h].op = "send"
    PROVE  Named(req[h], req'[h])
  <1>1. CASE Arrival(h)
    BY <1>1, ArrivalOperation DEF Uses, BaseInv, BaseTypes
  <1>2. CASE ~Arrival(h)
    BY <1>2, MoveNamed, EmptyFields, NoneIsNothing DEF Operations, BaseInv, BaseTypes
  <1>. QED
    BY <1>1, <1>2

\* A code that is written alone keeps the limits.
LEMMA RowAdded ==
    ASSUME BaseInv, SendInv, NEW h \in Handlers, Adds(h)
    PROVE  /\ AllLimited(otp')
           /\ \A g \in Handlers \ {h} : \A t : req[g].phone # req[h].phone
                  /\ Refused(req[g].phone, t, otp') => Refused(req[g].phone, t, otp)
  <1>1. PICK n \in Rows : n = Cardinality(Written) + 1 /\ otp[n] = NoRow /\ n \notin Written
                            /\ \A q \in Written : q < n
    BY NextRow DEF BaseInv, Adds
  <1>2. /\ req[h].phone \in Phones /\ req[h].purpose \in Purposes /\ req[h].op = "send"
        /\ req[h].phone # None
    BY OperationOf, NoneIsNothing DEF Adds, BaseInv, BaseTypes, Fits, SendFits
  <1>3. /\ OtherRows(n) /\ otp'[n].phone = req[h].phone /\ otp'[n].created = now
        /\ otp'[n].raced = req[h].shared
    BY <1>1, <1>2, AddRowEffect DEF BaseInv, Adds
  <1>4. /\ n \in Nat /\ Rows \subseteq Nat /\ IsFiniteSet(Rows)
    <2>1. MaxRows \in Nat
      BY RequestAssumption
    <2>2. IsFiniteSet(1..MaxRows)
      BY <2>1, FS_Interval
    <2>. QED
      BY <2>1, <2>2 DEF Rows
  <1>5. ASSUME NEW r \in Written, Limited(r, otp) PROVE Limited(r, otp')
    <2>1. r \in Rows /\ r < n /\ otp'[r] = otp[r]
      BY <1>1, <1>3, <1>5 DEF Written, OtherRows
    <2>2. \A q \in Rows : q < r => otp'[q] = otp[q]
      BY <1>3, <1>4, <2>1 DEF OtherRows
    <2>3. Before(r, otp') = Before(r, otp)
      BY <2>1, <2>2 DEF Before
    <2>4. \A q \in Before(r, otp) : otp'[q] = otp[q]
      BY <2>2 DEF Before
    <2>5. {q \in Before(r, otp') : otp'[q].created > otp'[r].created - Window}
            = {q \in Before(r, otp) : otp[q].created > otp[r].created - Window}
      BY <2>1, <2>3, <2>4
    <2>. QED
      BY <1>5, <2>1, <2>3, <2>4, <2>5 DEF Limited
  <1>6. ASSUME ~req[h].shared PROVE Limited(n, otp')
    <2>1. /\ req[h].at <= now /\ ~Refused(req[h].phone, req[h].at, otp)
          /\ req[h].at \in Nat /\ now \in Nat
      BY <1>2, <1>6, RequestTypes, TypesApart
      DEF SendInv, SendGood, SendClear, Adds, BaseInv
    <2>2. PICK t \in Nat : t = req[h].at
      BY <2>1
    <2>3. /\ Cooldown \in Nat /\ Window \in Nat /\ WindowLimit \in Nat /\ Cooldown <= Window
      BY OtpAssumption
    <2>4. \A q \in Before(n, otp') : /\ q \in Rows /\ otp[q].phone = req[h].phone
                                     /\ otp[q].phone # None /\ otp'[q] = otp[q]
                                     /\ otp[q].created \in Nat
      BY <1>2, <1>3, <1>4, RowFields DEF Before, OtherRows, BaseInv
    <2>5. \A q \in Before(n, otp') : otp[q].created > t - Window => otp[q].created <= t - Cooldown
      BY <2>1, <2>2, <2>3, <2>4 DEF Refused, Lately
    <2>6. \A q \in Before(n, otp') : otp'[q].created + Cooldown <= otp'[n].created
      BY <1>3, <2>1, <2>2, <2>3, <2>4, <2>5
    <2>7. {q \in Before(n, otp') : otp'[q].created > otp'[n].created - Window}
            \subseteq Lately(req[h].phone, t, otp)
      BY <1>3, <2>1, <2>2, <2>3, <2>4 DEF Lately
    <2>8. IsFiniteSet(Lately(req[h].phone, t, otp))
      BY <1>4, FS_Subset DEF Lately
    <2>9. /\ Cardinality({q \in Before(n, otp') : otp'[q].created > otp'[n].created - Window})
               <= Cardinality(Lately(req[h].phone, t, otp))
          /\ Cardinality({q \in Before(n, otp') : otp'[q].created > otp'[n].created - Window})
               \in Nat
      BY <2>7, <2>8, FS_Subset, FS_CardinalityType
    <2>10. Cardinality(Lately(req[h].phone, t, otp)) \in Nat
             /\ ~(Cardinality(Lately(req[h].phone, t, otp)) >= WindowLimit)
      BY <2>1, <2>2, <2>8, FS_CardinalityType DEF Refused
    <2>11. Cardinality({q \in Before(n, otp') : otp'[q].created > otp'[n].created - Window})
             < WindowLimit
      BY <2>3, <2>9, <2>10
    <2>. QED
      BY <2>6, <2>11 DEF Limited
  <1>7. AllLimited(otp')
    <2>1. ASSUME NEW r \in Rows, otp'[r].phone # None, ~otp'[r].raced PROVE Limited(r, otp')
      <3>1. CASE r = n
        BY <1>3, <1>6, <2>1, <3>1
      <3>2. CASE r # n
        <4>1. otp'[r] = otp[r]
          BY <1>3, <3>2 DEF OtherRows
        <4>2. Limited(r, otp) /\ r \in Written
          BY <2>1, <4>1 DEF SendInv, AllLimited, Written
        <4>. QED
          BY <1>5, <4>2
      <3>. QED
        BY <3>1, <3>2
    <2>. QED
      BY <2>1 DEF AllLimited
  <1>8. ASSUME NEW g \in Handlers \ {h}, NEW t, req[g].phone # req[h].phone,
               Refused(req[g].phone, t, otp')
        PROVE  Refused(req[g].phone, t, otp)
    <2>1. \A r \in Rows : \/ otp'[r] = otp[r]
                          \/ otp'[r].phone # req[g].phone /\ otp[r].phone = None
      BY <1>1, <1>3, <1>8, EmptyFields DEF OtherRows
    <2>2. /\ Lately(req[g].phone, t, otp') = Lately(req[g].phone, t, otp)
          /\ \A r \in Lately(req[g].phone, t, otp) : otp'[r] = otp[r]
      BY <2>1 DEF Lately
    <2>. QED
      BY <1>8, <2>2 DEF Refused
  <1>. QED
    BY <1>7, <1>8

LEMMA SendNext ==
    ASSUME BaseInv, SendInv, [Next]_vars
    PROVE  SendInv'
  <1>. DEFINE Good == SendInv'
  <1>1. ASSUME UNCHANGED <<req, otp>>, now' >= now, now' \in Nat PROVE Good
    <2>1. ASSUME NEW h \in Handlers, req[h].op = "send" PROVE SendGood(h)'
      <3>1. req[h].at <= now' /\ SendGood(h)
        BY <1>1, <2>1, RequestTypes, TypesApart DEF SendInv, SendGood, BaseInv
      <3>. QED
        BY <1>1, <2>1, <3>1 DEF SendGood, SendAlone, SendClear, Sending
    <2>. QED
      BY <1>1, <2>1 DEF SendInv, SendGood
  <1>2. ASSUME NEW h \in Handlers, NEW p \in Phones, NEW k \in Purposes, SendOtp(h, p, k)
        PROVE  Good
    <2>1. now \in Nat /\ req \in [Handlers -> Request]
      BY TypesApart DEF BaseInv
    <2>2. /\ req'[h].pc = "findRecent" /\ req'[h].op = "send" /\ req'[h].phone = p
          /\ req'[h].at = now /\ (req'[h].shared <=> Sending(p) # {})
          /\ \A g \in Handlers \ {h} :
                /\ g \notin Sending(p) => req'[g] = req[g]
                /\ g \in Sending(p) => req'[g].shared
                /\ Alike(req[g], req'[g])
      BY <1>2, <2>1, SendOtpEffect
    <2>3. now' = now /\ otp' = otp
      BY <1>2 DEF SendOtp
    <2>4. SendGood(h)'
      <3>1. ASSUME Sending(p) = {} PROVE SendAlone(h)'
        BY <2>2, <3>1 DEF SendAlone, Sending, Alike
      <3>. QED
        BY <2>1, <2>2, <2>3, <3>1 DEF SendGood, SendClear
    <2>5. ASSUME NEW g \in Handlers \ {h}, req'[g].op = "send" PROVE SendGood(g)'
      <3>1. /\ req[g].op = "send" /\ req'[g].phone = req[g].phone /\ req'[g].pc = req[g].pc
            /\ req'[g].at = req[g].at /\ SendGood(g)
        BY <2>2, <2>5 DEF Alike, SendInv
      <3>2. CASE g \in Sending(p)
        BY <2>2, <2>3, <3>1, <3>2 DEF SendGood
      <3>3. CASE g \notin Sending(p)
        <4>1. req[g].phone # p /\ req'[g] = req[g]
          BY <2>2, <3>1, <3>3 DEF Sending
        <4>2. Sending(req[g].phone)' = Sending(req'[g].phone)
          <5>1. \A x \in Handlers : /\ req'[x].op = "send" /\ req'[x].phone = req'[g].phone
                                    <=> req[x].op = "send" /\ req[x].phone = req[g].phone
            <6>1. req[h].op # "send"
              BY <1>2, IdleIsEmpty, NoneIsNothing DEF SendOtp, Busy, BaseInv, Operations
            <6>. QED
              BY <2>2, <3>1, <4>1, <6>1 DEF Alike
          <5>. QED
            BY <4>1, <5>1 DEF Sending
        <4>. QED
          BY <2>3, <3>1, <4>1, <4>2 DEF SendGood, SendAlone, SendClear
      <3>. QED
        BY <3>2, <3>3
    <2>. QED
      BY <2>3, <2>4, <2>5 DEF SendInv, SendGood
  <1>3. ASSUME NEW h \in Handlers, Move(h) PROVE Good
    <2>1. /\ Others(h) /\ req \in [Handlers -> Request] /\ now \in Nat /\ now' = now
      BY <1>3, MoveSound, TypesApart DEF BaseInv, BaseTypes, Sound
    <2>2. req'[h].op = "send" => Named(req[h], req'[h])
      BY <1>3, SendNamed
    <2>3. \A p : \A g \in Handlers : req'[g].op = "send" /\ req'[g].phone = p
                                        => req[g].op = "send" /\ req[g].phone = p
      BY <2>1, <2>2 DEF Others, Named
    <2>4. /\ AllLimited(otp')
          /\ \A g \in Handlers \ {h} : SendGood(g) /\ req[g].op = "send" /\ ~req[g].shared
                 /\ Refused(req[g].phone, req[g].at, otp')
                    => Refused(req[g].phone, req[g].at, otp)
      <3>1. CASE Adds(h)
        <4>1. req[h].op = "send"
          BY <3>1, OperationOf DEF Adds, BaseInv, BaseTypes
        <4>2. \A g \in Handlers \ {h} : SendGood(g) /\ req[g].op = "send" /\ ~req[g].shared
                 => req[g].phone # req[h].phone
          BY <4>1 DEF SendGood, SendAlone, Sending
        <4>. QED
          BY <3>1, <4>2, RowAdded
      <3>2. CASE ~Adds(h)
        BY <1>3, <3>2, RowsStay, SameCodes DEF SendInv
      <3>. QED
        BY <3>1, <3>2
    <2>5. ASSUME NEW g \in Handlers \ {h}, req'[g].op = "send" PROVE SendGood(g)'
      <3>1. req'[g] = req[g] /\ SendGood(g)
        BY <2>1 DEF Others, SendInv
      <3>2. SendAlone(g) => SendAlone(g)'
        BY <2>3, <3>1 DEF SendAlone, Sending
      <3>. QED
        BY <2>1, <2>4, <2>5, <3>1, <3>2 DEF SendGood, SendClear
    <2>6. ASSUME req'[h].op = "send" PROVE SendGood(h)'
      <3>1. /\ req[h].op = "send" /\ req'[h].phone = req[h].phone /\ req'[h].at = req[h].at
            /\ req'[h].shared = req[h].shared /\ SendGood(h)
        BY <2>2, <2>6 DEF Named, SendInv
      <3>2. SendAlone(h) => SendAlone(h)'
        BY <2>3, <3>1 DEF SendAlone, Sending
      <3>3. SendClear(h)'
        <4>1. ASSUME req'[h].pc = "createOtp" PROVE ~MayNotSend(h) /\ otp' = otp
          BY <1>3, <4>1, MovePlaces DEF FindRecent, BaseInv, BaseTypes
        <4>. QED
          BY <3>1, <4>1, SendsLimitedAs DEF SendClear
      <3>. QED
        BY <2>1, <2>6, <3>1, <3>2, <3>3 DEF SendGood
    <2>. QED
      BY <2>4, <2>5, <2>6 DEF SendInv, SendGood
  <1>4. ASSUME Tick PROVE now' >= now /\ now' \in Nat
    BY <1>4, TypesApart DEF Tick, BaseInv
  <1>5. CASE Next
    BY <1>1, <1>2, <1>3, <1>4, <1>5, NextIsMove DEF Tick
  <1>6. CASE UNCHANGED vars
    BY <1>1, <1>6, TypesApart DEF vars, BaseInv
  <1>. QED
    BY <1>5, <1>6

LEMMA SendInit ==
    ASSUME Init
    PROVE  SendInv
  <1>1. \A r \in Rows : otp[r].phone = None
    BY EmptyFields DEF Init, OtpInit
  <1>2. \A h \in Handlers : req[h].op # "send"
    BY EmptyFields, NoneIsNothing DEF Init, RequestInit, Operations
  <1>. QED
    BY <1>1, <1>2 DEF SendInv, AllLimited, SendGood

\* A code that no other send for its number overlapped was sent a cooldown
\* after every earlier one, and with fewer than the hourly limit before it in
\* the window, failed sends included, whatever else is in flight.
THEOREM SendsLimitedCorrect == Spec => []SendsLimited
  <1>1. Init => BaseInv /\ SendInv
    BY BaseInit, SendInit
  <1>2. (BaseInv /\ SendInv) /\ [Next]_vars => (BaseInv /\ SendInv)'
    BY BaseNext, SendNext
  <1>3. SendInv => SendsLimited
    BY SendsLimitedAs DEF SendInv
  <1>. QED
    BY <1>1, <1>2, <1>3, PTL DEF Spec

============================================================================

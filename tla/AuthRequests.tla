---------------------------- MODULE AuthRequests ----------------------------
(***************************************************************************)
(* The requests of the my-closet authentication API that are in flight,    *)
(* and the clock.  A request runs one step per awaited database or SMS     *)
(* call, so the requests of all devices interleave between those calls.    *)
(* Otp, PinLock and Accounts hold the steps; this module holds what they   *)
(* share.                                                                  *)
(***************************************************************************)
EXTENDS Integers, FiniteSets, Sequences

CONSTANTS
    Users,      \* account ids
    Phones,     \* phone numbers
    MaxRows,    \* bound: rows of the OtpRequest table
    Handlers,   \* requests that can be in flight together
    Worlds,     \* what may happen in a behaviour: see World
    None        \* null

Rows == 1..MaxRows

Purposes == {"SIGNUP", "RESET", "PHONE_CHANGE"}

Operations == {"send", "verify", "signup", "reset", "change", "login", "refresh"}

\* A world bounds one family of behaviours: the requests that arrive in it
\* ("miss" stands for wrong codes), the codes that are sent and in which order,
\* how far the clock goes, the numbers that accounts have at the start, and
\* whether calls may fail.
World == [ops: SUBSET (Operations \cup {"miss"}),
          codes: Seq(Phones \X Purposes), time: Nat, home: [Users -> Phones \cup {None}],
          faults: BOOLEAN]

ASSUME RequestAssumption ==
    /\ MaxRows \in Nat \ {0}
    /\ None \notin Users \cup Phones \cup Operations \cup Purposes \cup Int
    /\ IsFiniteSet(Handlers)
    /\ Worlds \subseteq World /\ \A w \in Worlds : Len(w.codes) <= MaxRows
    /\ \A w \in Worlds, u, v \in Users :
           u # v /\ w.home[u] # None => w.home[u] # w.home[v]

VARIABLES
    world,      \* the world of the behaviour, never changed
    now,        \* the clock, in ticks
    req         \* the requests being served

requestVars == <<world, now, req>>

ReqPC == {"idle", "findRecent", "createOtp", "sms", "verRead", "verWrong",
          "verConsume", "verUser", "consRead", "consWrite", "entered",
          "signCreate", "revokeAll", "chgDup", "chgWrite",
          "logFind", "pinRead", "pinRight", "pinWrong", "rotRead", "rotRevoke",
          "issue"}

\* row, next: the OTP requests of the codes or sessions presented; seen: what
\* an earlier step read; at: when it read it; guess: the PIN, named by how many
\* PINs the account had before it (0 is a PIN it never had), of a refresh that
\* of the token it presents, or 1 for a right code and 0 for a wrong one.
\* shared, a history field no step reads, says that a request for the same
\* phone, code or account was in flight with it.
Request == [pc: ReqPC, op: Operations \cup {None},
            row: Rows \cup {None}, next: Rows \cup {None},
            phone: Phones \cup {None}, purpose: Purposes \cup {None},
            user: Users \cup {None}, seen: Nat, at: Nat, guess: Nat, shared: BOOLEAN]

NoRequest == [pc |-> "idle", op |-> None, row |-> None, next |-> None, phone |-> None,
              purpose |-> None, user |-> None, seen |-> 0, at |-> 0, guess |-> 0,
              shared |-> FALSE]

RequestInit ==
    /\ world \in Worlds
    /\ now = 0
    /\ req = [h \in Handlers |-> NoRequest]

Busy(h) == req[h].pc # "idle"

\* A request of the world arrives at the free handler h.
Arrive(h, r) ==
    /\ r.op \in world.ops
    /\ ~Busy(h)
    /\ req' = [req EXCEPT ![h] = r]

\* It goes on to its next call, or it is answered.
To(h, pc)  == req' = [req EXCEPT ![h].pc = pc]
Answer(h)  == req' = [req EXCEPT ![h] = NoRequest]

\* The bound on time: only the waiting for a cooldown, an expiry or the end of
\* a lock is of interest, so a world lasts a few ticks.
Tick ==
    /\ now < world.time
    /\ now' = now + 1
    /\ UNCHANGED <<world, req>>

RequestTypeOK ==
    /\ world \in Worlds
    /\ now \in 0..world.time
    /\ req \in [Handlers -> Request]
=============================================================================

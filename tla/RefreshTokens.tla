--------------------------- MODULE RefreshTokens ---------------------------
(***************************************************************************)
(* Refresh tokens of the my-closet API (apps/api/src/auth/jwt.service.ts): *)
(* issuing, rotating and revoking them.  A request is served by a handler, *)
(* one step per awaited database call; requests of all devices interleave. *)
(*                                                                         *)
(* Not represented: the secret and its hash (a presented token is one that *)
(* was issued), deviceId (stored and never read), and what the requests do *)
(* besides their tokens.  A token that was never issued is refused without *)
(* any change: a stuttering step.                                          *)
(***************************************************************************)
EXTENDS Integers, FiniteSets

CONSTANTS
    Users,          \* account ids
    MaxTokens,      \* bound: rows of the RefreshToken table
    Handlers,       \* requests that can be in flight together
    None            \* null

ASSUME TokenAssumption ==
    /\ MaxTokens \in Nat \ {0}
    /\ None \notin Users \cup Int

VARIABLES
    token,      \* RefreshToken rows, numbered in the order of their creation
    serve       \* the requests being served

tokenVars == <<token, serve>>

Tokens == 1..MaxTokens

\* Two fields are history, no column records them and no action reads them:
\* parent, the token a row was issued in exchange for, and shared, that two
\* refresh requests of the token were in flight together.
TokenRow == [state: {"ABSENT", "LIVE", "REVOKED"}, user: Users \cup {None},
             expired: BOOLEAN, parent: Tokens \cup {None}, shared: BOOLEAN]

NoToken == [state |-> "ABSENT", user |-> None, expired |-> FALSE, parent |-> None,
            shared |-> FALSE]

Operation == {"refresh", "logout", "login", "changePhone", "resetPin"}

ServePC == {"idle", "read", "revokeOld", "revokeAll", "revokeOne", "issue",
            "ok", "refused", "error"}

\* given is the token a request presents, issued the one it was answered with.
ServeState == [pc: ServePC, op: Operation \cup {None}, user: Users \cup {None},
               given: Tokens \cup {None}, issued: Tokens \cup {None}]

NoRequest == [pc |-> "idle", op |-> None, user |-> None, given |-> None,
              issued |-> None]

TokenInit ==
    /\ token = [t \in Tokens |-> NoToken]
    /\ serve = [h \in Handlers |-> NoRequest]

Issued == {t \in Tokens : token[t].state # "ABSENT"}
Live   == {t \in Tokens : token[t].state = "LIVE"}
Heirs(t) == {x \in Tokens : token[x].parent = t}

Ended == {"idle", "ok", "refused", "error"}

\* Bound: a request starts only while a row is left for the token it may
\* issue; a logout issues none.
RowLeft == Cardinality({h \in Handlers : serve[h].pc \notin Ended
                                           /\ serve[h].op # "logout"})
             < Cardinality(Tokens \ Issued)

\* A refresh of token t is being served.
Refreshing(t) == \E h \in Handlers : serve[h].op = "refresh"
                     /\ serve[h].given = t /\ serve[h].pc \notin Ended

----------------------------------------------------------------------------
(* Requests arrive.  Signup and PIN login issue a token to the user they    *)
(* have just created or checked.                                           *)

Arrive(h, op, u, t, pc) ==
    /\ serve[h].pc = "idle"
    /\ op = "logout" \/ RowLeft
    /\ serve' = [serve EXCEPT ![h] =
            [pc |-> pc, op |-> op, user |-> u, given |-> t, issued |-> None]]

Login(h, u) == Arrive(h, "login", u, None, "issue") /\ UNCHANGED token

Refresh(h, t) ==
    /\ t \in Issued
    /\ Arrive(h, "refresh", token[t].user, t, "read")
    /\ token' = [token EXCEPT ![t].shared = @ \/ Refreshing(t)]

\* u is the owner of the access token, t whatever token the body names.
Logout(h, u, t) ==
    /\ t \in Issued
    /\ Arrive(h, "logout", u, t, "read")
    /\ UNCHANGED token

ChangePhone(h, u) == Arrive(h, "changePhone", u, None, "revokeAll") /\ UNCHANGED token

ResetPin(h, u) == Arrive(h, "resetPin", u, None, "revokeAll") /\ UNCHANGED token

----------------------------------------------------------------------------
(* They are served.  An operator commented "mutant" is a plausible bug of   *)
(* the definition after it and no part of the model.                       *)

To(h, pc) == serve' = [serve EXCEPT ![h].pc = pc]

Revoke(S) == token' = [t \in Tokens |-> IF t \in S /\ token[t].state = "LIVE"
                                        THEN [token[t] EXCEPT !.state = "REVOKED"]
                                        ELSE token[t]]

\* revokeAllForUser
RevokeAllForUser(h) == Revoke({t \in Tokens : token[t].user = serve[h].user})

\* A new row, the next free one.
Create(h, t) ==
    /\ t \notin Issued /\ 1..(t - 1) \subseteq Issued
    /\ token' = [token EXCEPT ![t] =
            [state |-> "LIVE", user |-> serve[h].user, expired |-> FALSE,
             parent |-> serve[h].given, shared |-> FALSE]]

\* A revoked token was presented: its owner's tokens will all be revoked.
RotateReused(h) ==
    /\ serve[h].pc = "read" /\ serve[h].op = "refresh"
    /\ token[serve[h].given].state = "REVOKED"
    /\ To(h, "revokeAll")
    /\ UNCHANGED token

RotateExpired(h) ==
    /\ serve[h].pc = "read" /\ serve[h].op = "refresh"
    /\ token[serve[h].given].state = "LIVE"
    /\ token[serve[h].given].expired
    /\ To(h, "refused")
    /\ UNCHANGED token

RotateUnchecked(h) ==               \* mutant: revokedAt is not looked at
    /\ serve[h].pc = "read" /\ serve[h].op = "refresh"
    /\ ~token[serve[h].given].expired
    /\ To(h, "revokeOld")
    /\ UNCHANGED token

RotateStale(h) ==                   \* mutant: expiresAt is not looked at
    /\ serve[h].pc = "read" /\ serve[h].op = "refresh"
    /\ token[serve[h].given].state = "LIVE"
    /\ To(h, "revokeOld")
    /\ UNCHANGED token

RotateAccepted(h) ==
    /\ serve[h].pc = "read" /\ serve[h].op = "refresh"
    /\ token[serve[h].given].state = "LIVE"
    /\ ~token[serve[h].given].expired
    /\ To(h, "revokeOld")
    /\ UNCHANGED token

RevokeNothing(h) ==                 \* mutant: the old token stays usable
    /\ serve[h].pc = "revokeOld"
    /\ To(h, "issue")
    /\ UNCHANGED token

RevokeOld(h) ==
    /\ serve[h].pc = "revokeOld"
    /\ Revoke({serve[h].given})
    /\ To(h, "issue")

\* issuePair
Issue(h) ==
    /\ serve[h].pc = "issue"
    /\ \E t \in Tokens :
        /\ Create(h, t)
        /\ serve' = [serve EXCEPT ![h].pc = "ok", ![h].issued = t]

\* The end of a phone change, the middle of a PIN reset,
\* and the answer to a reused token.
RevokeAll(h) ==
    /\ serve[h].pc = "revokeAll"
    /\ RevokeAllForUser(h)
    /\ To(h, CASE serve[h].op = "refresh"     -> "refused"
               [] serve[h].op = "changePhone" -> "ok"
               [] serve[h].op = "resetPin"    -> "issue")

\* revokeOne: a token of somebody else, or one revoked before, is left alone.
LogoutRead(h) ==
    /\ serve[h].pc = "read" /\ serve[h].op = "logout"
    /\ LET row == token[serve[h].given] IN
       To(h, IF row.user = serve[h].user /\ row.state = "LIVE"
             THEN "revokeOne" ELSE "ok")
    /\ UNCHANGED token

RevokeOne(h) ==
    /\ serve[h].pc = "revokeOne"
    /\ Revoke({serve[h].given})
    /\ To(h, "ok")

\* A database call throws and had no effect: 500.
CallFails(h) ==
    /\ serve[h].pc \notin Ended
    /\ To(h, "error")
    /\ UNCHANGED token

\* A write commits, and the call throws: the reply was lost.
ReplyLost(h) ==
    /\ \/ serve[h].pc \in {"revokeOld", "revokeOne"} /\ Revoke({serve[h].given})
       \/ serve[h].pc = "revokeAll" /\ RevokeAllForUser(h)
       \/ serve[h].pc = "issue" /\ \E t \in Tokens : Create(h, t)
    /\ To(h, "error")

\* The answer leaves.
Answer(h) ==
    /\ serve[h].pc \in Ended \ {"idle"}
    /\ serve' = [serve EXCEPT ![h] = NoRequest]
    /\ UNCHANGED token

ServeStep(h) ==
    \/ RotateReused(h) \/ RotateExpired(h) \/ RotateAccepted(h) \/ RevokeOld(h)
    \/ Issue(h) \/ RevokeAll(h) \/ LogoutRead(h) \/ RevokeOne(h)

\* expiresAt passes.
Expire(t) ==
    /\ token[t].state = "LIVE" /\ ~token[t].expired
    /\ token' = [token EXCEPT ![t].expired = TRUE]
    /\ UNCHANGED serve

TokenNext ==
    \/ \E h \in Handlers :
        \/ \E u \in Users : \/ Login(h, u) \/ ChangePhone(h, u) \/ ResetPin(h, u)
                            \/ \E t \in Tokens : Logout(h, u, t)
        \/ \E t \in Tokens : Refresh(h, t)
        \/ ServeStep(h) \/ CallFails(h) \/ ReplyLost(h) \/ Answer(h)
    \/ \E t \in Tokens : Expire(t)

TokenSpec == TokenInit /\ [][TokenNext]_tokenVars

----------------------------------------------------------------------------
(* Properties                                                              *)

\* The rows and the requests have their types, and every issued token its owner.
TokenTypeOK ==
    /\ token \in [Tokens -> TokenRow]
    /\ serve \in [Handlers -> ServeState]
    /\ \A t \in Issued : token[t].user \in Users

\* The token has passed the check of rotate and its exchange is under way.
Exchanging(t) == \E h \in Handlers : serve[h].op = "refresh"
                     /\ serve[h].given = t /\ serve[h].pc \in {"revokeOld", "issue"}

\* A token that was not refreshed by two requests at once is exchanged at
\* most once and is revoked by then, so that each login has one usable token
\* at most, whatever logouts, resets and failures interleave.
OneHeir ==
    \A t \in Tokens : ~token[t].shared =>
        /\ \A x, y \in Heirs(t) : x = y
        /\ Heirs(t) # {} => token[t].state = "REVOKED" /\ ~Exchanging(t)

\* A logout, a reset or the detection of a reuse is final for every token no
\* exchange of which is under way: it never becomes usable, is never
\* exchanged and gets no heir.
RevokedIsFinal ==
    [][\A t \in Tokens : token[t].state = "REVOKED" /\ ~Exchanging(t) =>
            /\ token'[t].state = "REVOKED"
            /\ ~Exchanging(t)'
            /\ Heirs(t)' = Heirs(t)]_tokenVars

\* What token t is good for, as the ledger has it.
RightOf(t) ==
    IF token[t].state = "ABSENT" THEN "none"
    ELSE IF token[t].shared THEN "contested"
    ELSE IF Exchanging(t) THEN "exchanging"
    ELSE IF token[t].state = "LIVE" /\ ~token[t].expired THEN "usable"
    ELSE IF Heirs(t) # {} THEN "spent" ELSE "ended"

Rights  == [t \in Tokens |-> RightOf(t)]
Parents == [t \in Tokens |-> token[t].parent]

Ledger == INSTANCE TokenLedger WITH right <- Rights, from <- Parents

\* Requests served call by call, that interleave, fail and lose replies, do to
\* each token only what the ledger lets happen to it in one piece.
TokenLedgerSpec == Ledger!LedgerSpec
============================================================================

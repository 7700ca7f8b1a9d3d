------------------------ MODULE RefreshTokensProofs ------------------------
(***************************************************************************)
(* Proofs about RefreshTokens, for every set of users and requests and any *)
(* number of tokens.                                                       *)
(***************************************************************************)
EXTENDS RefreshTokens, TLAPS

----------------------------------------------------------------------------
(* The inductive invariant                                                 *)

\* h is refreshing a token.
Refreshes(h) == serve[h].op = "refresh" /\ serve[h].pc \notin Ended

\* What a request at each place of its code carries.
ServeShape ==
    \A h \in Handlers :
        /\ serve[h].pc \notin Ended => serve[h].user \in Users
        /\ serve[h].pc \in {"read", "revokeOld", "revokeOne"} => serve[h].given \in Issued
        /\ serve[h].pc = "read" => serve[h].op \in {"refresh", "logout"}
        /\ serve[h].pc = "revokeOld" => serve[h].op = "refresh"
        /\ serve[h].pc = "revokeAll" => serve[h].op \in {"refresh", "changePhone", "resetPin"}
        /\ serve[h].op = "resetPin" => serve[h].given = None
        /\ Refreshes(h) => serve[h].given \in Issued
        /\ serve[h].pc = "issue" => IF serve[h].op = "refresh" THEN serve[h].given \in Issued
                                                               ELSE serve[h].given = None

\* An heir is a row of its own, of an older row.
HeirShape ==
    \A t \in Tokens : /\ t \notin Issued => token[t].parent = None
                      /\ token[t].parent # None => token[t].parent \in Issued

\* At most one request refreshes a token that is not shared, and by the time
\* it issues the heir it has revoked the old one.
OneRefresh ==
    \A h \in Handlers :
        Refreshes(h) /\ ~token[serve[h].given].shared =>
            /\ \A g \in Handlers :
                    Refreshes(g) /\ serve[g].given = serve[h].given => g = h
            /\ serve[h].pc = "issue" => token[serve[h].given].state = "REVOKED"

TInv == TokenTypeOK /\ ServeShape /\ HeirShape

LEMMA NoneIsNoToken == None \notin Tokens
  BY TokenAssumption DEF Tokens

----------------------------------------------------------------------------
(* What the writes do                                                      *)

LEMMA RevokeEffect ==
    ASSUME TokenTypeOK, NEW S, Revoke(S)
    PROVE  /\ token' \in [Tokens -> TokenRow]
           /\ Issued' = Issued
           /\ \A t \in Tokens : /\ token'[t].user = token[t].user
                                /\ token'[t].parent = token[t].parent
                                /\ token'[t].shared = token[t].shared
                                /\ token'[t].state = token[t].state
                                    \/ (token[t].state = "LIVE"
                                         /\ token'[t].state = "REVOKED")
                                /\ t \in S => token'[t].state # "LIVE"
  <1>1. ASSUME NEW t \in Tokens
        PROVE  /\ token[t] \in TokenRow
               /\ token'[t] = token[t] \/ (token[t].state = "LIVE" /\ token'[t]
                                            = [token[t] EXCEPT !.state = "REVOKED"])
               /\ t \in S => token[t].state # "LIVE"
                                \/ token'[t] = [token[t] EXCEPT !.state = "REVOKED"]
    BY DEF TokenTypeOK, Revoke
  <1>2. ASSUME NEW t \in Tokens
        PROVE  /\ token'[t] \in TokenRow
               /\ token'[t].user = token[t].user
               /\ token'[t].parent = token[t].parent
               /\ token'[t].shared = token[t].shared
               /\ token'[t].state = token[t].state
                    \/ (token[t].state = "LIVE" /\ token'[t].state = "REVOKED")
               /\ t \in S => token'[t].state # "LIVE"
    <2>. DEFINE row == [token[t] EXCEPT !.state = "REVOKED"]
    <2>1. /\ row \in TokenRow /\ row.user = token[t].user /\ row.state = "REVOKED"
          /\ row.parent = token[t].parent /\ row.shared = token[t].shared
      BY <1>1 DEF TokenRow
    <2>. HIDE DEF row
    <2>2. token'[t] = token[t] \/ (token[t].state = "LIVE" /\ token'[t] = row)
      BY <1>1 DEF row
    <2>3. t \in S => token[t].state # "LIVE" \/ token'[t] = row
      BY <1>1 DEF row
    <2>4. /\ token'[t] \in TokenRow
          /\ token'[t].user = token[t].user
          /\ token'[t].parent = token[t].parent
          /\ token'[t].shared = token[t].shared
          /\ token'[t].state = token[t].state
               \/ (token[t].state = "LIVE" /\ token'[t].state = "REVOKED")
      BY <1>1, <2>1, <2>2
    <2>5. t \in S => token'[t].state # "LIVE"
      BY <2>1, <2>3, <2>4
    <2>. QED
      BY <2>4, <2>5
  <1>3. token' \in [Tokens -> TokenRow]
    BY <1>2 DEF Revoke
  <1>. QED
    BY <1>2, <1>3 DEF Issued

LEMMA CreateEffect ==
    ASSUME TokenTypeOK, NEW h \in Handlers, NEW t \in Tokens, Create(h, t),
           serve[h].user \in Users
    PROVE  /\ token' \in [Tokens -> TokenRow]
           /\ Issued' = Issued \cup {t} /\ t \notin Issued
           /\ token'[t].user \in Users /\ token'[t].parent = serve[h].given
           /\ \A x \in Tokens \ {t} : token'[x] = token[x]
  <1>1. serve[h].given \in Tokens \cup {None}
    BY DEF TokenTypeOK, ServeState
  <1>2. token'[t] = [state |-> "LIVE", user |-> serve[h].user, expired |-> FALSE,
                     parent |-> serve[h].given, shared |-> FALSE]
    BY DEF Create, TokenTypeOK
  <1>3. token'[t] \in TokenRow /\ token'[t].state = "LIVE"
        /\ token'[t].user \in Users /\ token'[t].parent = serve[h].given
    BY <1>1, <1>2 DEF TokenRow
  <1>4. \A x \in Tokens \ {t} : token'[x] = token[x]
    BY DEF Create, TokenTypeOK
  <1>5. token' \in [Tokens -> TokenRow]
    BY <1>3, <1>4 DEF Create, TokenTypeOK
  <1>6. t \notin Issued
    BY DEF Create
  <1>. QED
    BY <1>3, <1>4, <1>5, <1>6 DEF Issued

LEMMA RefreshEffect ==
    ASSUME TokenTypeOK, NEW h \in Handlers, NEW t \in Tokens, Refresh(h, t)
    PROVE  /\ token' \in [Tokens -> TokenRow]
           /\ \A x \in Tokens : /\ token'[x].state = token[x].state
                                /\ token'[x].user = token[x].user
                                /\ token'[x].parent = token[x].parent
                                /\ token[x].shared => token'[x].shared
           /\ Refreshing(t) => token'[t].shared
  <1>. DEFINE mark == token[t].shared \/ Refreshing(t)
              row == [token[t] EXCEPT !.shared = mark]
  <1>1. token' = [token EXCEPT ![t] = row]
    BY DEF Refresh
  <1>2. mark \in BOOLEAN
    BY DEF TokenTypeOK, TokenRow, Refreshing
  <1>3. token[t] \in TokenRow
    BY DEF TokenTypeOK
  <1>. HIDE DEF mark
  <1>4. /\ row \in TokenRow /\ row.state = token[t].state /\ row.user = token[t].user
        /\ row.parent = token[t].parent /\ row.shared = mark
    BY <1>2, <1>3 DEF TokenRow
  <1>. HIDE DEF row
  <1>5. /\ token' \in [Tokens -> TokenRow] /\ token'[t] = row
        /\ \A x \in Tokens \ {t} : token'[x] = token[x]
    BY <1>1, <1>4 DEF TokenTypeOK
  <1>6. /\ token[t].shared => row.shared
        /\ Refreshing(t) => row.shared
    BY <1>4 DEF mark
  <1>. QED
    BY <1>4, <1>5, <1>6

LEMMA ToEffect ==
    ASSUME TokenTypeOK, NEW h \in Handlers, NEW pc \in ServePC, To(h, pc)
    PROVE  /\ serve' \in [Handlers -> ServeState]
           /\ serve'[h].pc = pc /\ serve'[h].op = serve[h].op
           /\ serve'[h].user = serve[h].user /\ serve'[h].given = serve[h].given
           /\ \A g \in Handlers \ {h} : serve'[g] = serve[g]
  <1>1. serve[h] \in ServeState
    BY DEF TokenTypeOK
  <1>2. serve' = [serve EXCEPT ![h] = [serve[h] EXCEPT !.pc = pc]]
    BY DEF To
  <1>3. serve'[h] = [serve[h] EXCEPT !.pc = pc]
    BY <1>2 DEF TokenTypeOK
  <1>. QED
    BY <1>1, <1>2, <1>3 DEF TokenTypeOK, ServeState

----------------------------------------------------------------------------
(* Type correctness                                                        *)

\* A step of the request at h that neither adds nor removes a row.
LEMMA SameRows ==
    ASSUME TInv, NEW h \in Handlers, NEW pc \in ServePC, To(h, pc),
           (UNCHANGED token) \/ (\E S : Revoke(S)),
           pc \in {"read", "revokeOld", "revokeOne"} => serve[h].given \in Issued,
           pc \notin Ended => serve[h].user \in Users,
           pc # "read",
           serve[h].op = "refresh" /\ pc \notin Ended => serve[h].given \in Issued,
           pc = "revokeOld" => serve[h].op = "refresh",
           pc = "revokeAll" => serve[h].op \in {"refresh", "changePhone", "resetPin"},
           pc = "issue" => IF serve[h].op = "refresh" THEN serve[h].given \in Issued
                                                      ELSE serve[h].given = None
    PROVE  TInv'
  <1>1. /\ token' \in [Tokens -> TokenRow]
        /\ Issued' = Issued
        /\ \A t \in Tokens : /\ token'[t].user = token[t].user
                             /\ token'[t].parent = token[t].parent
    <2>1. CASE UNCHANGED token
      BY <2>1 DEF TInv, TokenTypeOK, Issued
    <2>2. CASE \E S : Revoke(S)
      BY <2>2, RevokeEffect DEF TInv
    <2>. QED
      BY <2>1, <2>2
  <1>2. /\ serve' \in [Handlers -> ServeState]
        /\ serve'[h].pc = pc /\ serve'[h].op = serve[h].op
        /\ serve'[h].user = serve[h].user /\ serve'[h].given = serve[h].given
        /\ \A g \in Handlers \ {h} : serve'[g] = serve[g]
    BY ToEffect DEF TInv
  <1>3. TokenTypeOK'
    BY <1>1, <1>2 DEF TInv, TokenTypeOK, Issued
  <1>4. ServeShape'
    BY <1>1, <1>2 DEF TInv, ServeShape, Refreshes, Ended
  <1>5. HeirShape'
    BY <1>1 DEF TInv, HeirShape
  <1>. QED
    BY <1>3, <1>4, <1>5 DEF TInv

\* The creation of a row by the request at h, answered or not.
LEMMA OneRowMore ==
    ASSUME TInv, NEW h \in Handlers, NEW t \in Tokens, Create(h, t),
           serve[h].pc = "issue",
           serve' \in [Handlers -> ServeState],
           serve'[h].pc \in {"ok", "error"}, serve'[h].op = serve[h].op,
           serve'[h].given = serve[h].given,
           \A g \in Handlers \ {h} : serve'[g] = serve[g]
    PROVE  TInv'
  <1>1. serve[h].user \in Users
        /\ (serve[h].given # None => serve[h].given \in Issued)
    BY DEF TInv, ServeShape, Refreshes, Ended
  <1>2. /\ token' \in [Tokens -> TokenRow]
        /\ Issued' = Issued \cup {t} /\ t \notin Issued
        /\ token'[t].user \in Users /\ token'[t].parent = serve[h].given
        /\ \A x \in Tokens \ {t} : token'[x] = token[x]
    BY <1>1, CreateEffect DEF TInv
  <1>3. TokenTypeOK'
    BY <1>2 DEF TInv, TokenTypeOK, Issued
  <1>4. ServeShape'
    BY <1>2 DEF TInv, ServeShape, Refreshes, Ended
  <1>5. HeirShape'
    BY <1>1, <1>2 DEF TInv, HeirShape
  <1>. QED
    BY <1>3, <1>4, <1>5 DEF TInv

LEMMA IssueEffect ==
    ASSUME TokenTypeOK, NEW h \in Handlers, NEW t \in Tokens,
           serve' = [serve EXCEPT ![h].pc = "ok", ![h].issued = t]
    PROVE  /\ serve' \in [Handlers -> ServeState]
           /\ serve'[h].pc = "ok" /\ serve'[h].op = serve[h].op
           /\ serve'[h].given = serve[h].given
           /\ \A g \in Handlers \ {h} : serve'[g] = serve[g]
  <1>1. serve[h] \in ServeState
    BY DEF TokenTypeOK
  <1>. DEFINE r == [serve[h] EXCEPT !.pc = "ok", !.issued = t]
  <1>2. serve' = [serve EXCEPT ![h] = r]
    OBVIOUS
  <1>3. "ok" \in ServePC /\ t \in Tokens \cup {None}
    BY DEF ServePC
  <1>4. /\ r \in ServeState /\ r.pc = "ok" /\ r.op = serve[h].op
        /\ r.given = serve[h].given
    BY <1>1, <1>3 DEF ServeState
  <1>. HIDE DEF r
  <1>. QED
    BY <1>2, <1>4 DEF TokenTypeOK

LEMMA ArriveTyped ==
    ASSUME TInv, NEW h \in Handlers, NEW op \in Operation, NEW u \in Users,
           NEW t \in Tokens \cup {None}, NEW pc \in ServePC, Arrive(h, op, u, t, pc),
           token' \in [Tokens -> TokenRow],
           \A x \in Tokens : /\ token'[x].state = token[x].state
                             /\ token'[x].user = token[x].user
                             /\ token'[x].parent = token[x].parent,
           \/ pc = "read" /\ op \in {"refresh", "logout"} /\ t \in Issued
           \/ pc = "revokeAll" /\ op \in {"changePhone", "resetPin"} /\ t = None
           \/ pc = "issue" /\ op = "login" /\ t = None
    PROVE  TInv'
  <1>1. serve' = [serve EXCEPT ![h] =
            [pc |-> pc, op |-> op, user |-> u, given |-> t, issued |-> None]]
    BY DEF Arrive
  <1>2. serve' \in [Handlers -> ServeState]
        /\ (\A g \in Handlers \ {h} : serve'[g] = serve[g])
        /\ serve'[h] = [pc |-> pc, op |-> op, user |-> u, given |-> t, issued |-> None]
    BY <1>1 DEF TInv, TokenTypeOK, ServeState
  <1>3. Issued' = Issued
    BY DEF Issued
  <1>4. TokenTypeOK'
    BY <1>2, <1>3 DEF TInv, TokenTypeOK, Issued
  <1>5. ServeShape'
    BY <1>2, <1>3 DEF TInv, ServeShape, Refreshes, Ended
  <1>6. HeirShape'
    BY <1>3 DEF TInv, HeirShape
  <1>. QED
    BY <1>4, <1>5, <1>6 DEF TInv

LEMMA RequestTyped ==
    ASSUME TInv, NEW h \in Handlers,
           \/ \E u \in Users : \/ Login(h, u) \/ ChangePhone(h, u) \/ ResetPin(h, u)
                               \/ \E t \in Tokens : Logout(h, u, t)
           \/ \E t \in Tokens : Refresh(h, t)
    PROVE  TInv'
  <1>0. "read" \in ServePC /\ "issue" \in ServePC /\ "revokeAll" \in ServePC
        /\ {"refresh", "logout", "login", "changePhone", "resetPin"} = Operation
    BY DEF ServePC, Operation
  <1>1. CASE \E u \in Users : Login(h, u)
    BY <1>0, <1>1, ArriveTyped DEF Login, TInv, TokenTypeOK
  <1>2. CASE \E u \in Users : ChangePhone(h, u) \/ ResetPin(h, u)
    BY <1>0, <1>2, ArriveTyped DEF ChangePhone, ResetPin, TInv, TokenTypeOK
  <1>3. CASE \E u \in Users, t \in Tokens : Logout(h, u, t)
    BY <1>0, <1>3, ArriveTyped DEF Logout, TInv, TokenTypeOK
  <1>4. ASSUME NEW t \in Tokens, Refresh(h, t)
        PROVE  TInv'
    <2>1. token[t].user \in Users
      BY <1>4 DEF Refresh, TInv, TokenTypeOK
    <2>. QED
      BY <1>0, <1>4, <2>1, ArriveTyped, RefreshEffect DEF Refresh, TInv
  <1>. QED
    BY <1>1, <1>2, <1>3, <1>4

LEMMA ServeTyped ==
    ASSUME TInv, NEW h \in Handlers,
           ServeStep(h) \/ CallFails(h) \/ ReplyLost(h) \/ Answer(h)
    PROVE  TInv'
  <1>0. /\ ServePC = {"idle", "read", "revokeOld", "revokeAll", "revokeOne", "issue",
                      "ok", "refused", "error"}
        /\ Ended = {"idle", "ok", "refused", "error"}
    BY DEF ServePC, Ended
  <1>1. CASE RotateReused(h) \/ RotateExpired(h) \/ RotateAccepted(h)
    <2>1. serve[h].op = "refresh" /\ serve[h].user \in Users /\ serve[h].given \in Issued
      BY <1>0, <1>1 DEF TInv, ServeShape, RotateReused, RotateExpired, RotateAccepted
    <2>2. PICK pc \in {"revokeAll", "refused", "revokeOld"} : To(h, pc) /\ UNCHANGED token
      BY <1>1 DEF RotateReused, RotateExpired, RotateAccepted
    <2>. QED
      BY <1>0, <2>1, <2>2, SameRows
  <1>2. CASE RevokeOld(h)
    <2>1. /\ serve[h].op = "refresh" /\ serve[h].user \in Users
          /\ serve[h].given \in Issued
      BY <1>0, <1>2 DEF TInv, ServeShape, RevokeOld
    <2>2. To(h, "issue") /\ \E S : Revoke(S)
      BY <1>2 DEF RevokeOld
    <2>. QED
      BY <1>0, <2>1, <2>2, SameRows
  <1>3. CASE Issue(h)
    BY <1>3, IssueEffect, OneRowMore DEF Issue, TInv
  <1>4. CASE RevokeAll(h)
    <2>1. /\ serve[h].op \in {"refresh", "changePhone", "resetPin"}
          /\ serve[h].user \in Users
      BY <1>0, <1>4 DEF TInv, ServeShape, RevokeAll
    <2>2. \E S : Revoke(S)
      BY <1>4 DEF RevokeAll, RevokeAllForUser
    <2>3. CASE serve[h].op = "refresh"
      <3>1. To(h, "refused")
        BY <1>4, <2>3 DEF RevokeAll
      <3>. QED
        BY <1>0, <2>1, <2>2, <3>1, SameRows
    <2>4. CASE serve[h].op = "changePhone"
      <3>1. To(h, "ok")
        BY <1>4, <2>4 DEF RevokeAll
      <3>. QED
        BY <1>0, <2>1, <2>2, <3>1, SameRows
    <2>5. CASE serve[h].op = "resetPin"
      <3>1. To(h, "issue") /\ serve[h].given = None
        BY <1>4, <2>5 DEF RevokeAll, TInv, ServeShape
      <3>. QED
        BY <1>0, <2>1, <2>2, <2>5, <3>1, SameRows
    <2>. QED
      BY <2>1, <2>3, <2>4, <2>5
  <1>5. CASE LogoutRead(h)
    <2>1. serve[h].user \in Users /\ serve[h].given \in Issued
      BY <1>0, <1>5 DEF TInv, ServeShape, LogoutRead
    <2>2. PICK pc \in {"revokeOne", "ok"} : To(h, pc) /\ UNCHANGED token
      BY <1>5 DEF LogoutRead
    <2>. QED
      BY <1>0, <2>1, <2>2, SameRows
  <1>6. CASE RevokeOne(h)
    <2>1. To(h, "ok") /\ \E S : Revoke(S)
      BY <1>6 DEF RevokeOne
    <2>. QED
      BY <1>0, <2>1, SameRows
  <1>7. CASE CallFails(h)
    <2>1. To(h, "error") /\ UNCHANGED token
      BY <1>7 DEF CallFails
    <2>. QED
      BY <1>0, <2>1, SameRows
  <1>8. CASE ReplyLost(h)
    <2>1. To(h, "error")
      BY <1>8 DEF ReplyLost
    <2>2. CASE \E S : Revoke(S)
      BY <1>0, <2>1, <2>2, SameRows
    <2>3. CASE serve[h].pc = "issue" /\ \E t \in Tokens : Create(h, t)
      BY <1>0, <2>1, <2>3, ToEffect, OneRowMore DEF TInv
    <2>. QED
      BY <1>8, <2>2, <2>3 DEF ReplyLost, RevokeAllForUser
  <1>9. CASE Answer(h)
    <2>1. serve' = [serve EXCEPT ![h] = NoRequest] /\ token' = token
      BY <1>9 DEF Answer
    <2>2. serve'[h] = NoRequest /\ serve' \in [Handlers -> ServeState]
          /\ \A g \in Handlers \ {h} : serve'[g] = serve[g]
      BY <2>1 DEF TInv, TokenTypeOK, NoRequest, ServeState, ServePC
    <2>. QED
      BY <2>1, <2>2 DEF TInv, TokenTypeOK, ServeShape, HeirShape, Issued, NoRequest, Refreshes, Ended
  <1>. QED
    BY <1>1, <1>2, <1>3, <1>4, <1>5, <1>6, <1>7, <1>8, <1>9 DEF ServeStep

LEMMA ExpireTyped ==
    ASSUME TInv, NEW t \in Tokens, Expire(t)
    PROVE  TInv' /\ \A x \in Tokens : /\ token'[x].state = token[x].state
                                       /\ token'[x].parent = token[x].parent
                                       /\ token'[x].shared = token[x].shared
  <1>1. token' = [token EXCEPT ![t] = [token[t] EXCEPT !.expired = TRUE]]
    BY DEF Expire
  <1>2. /\ token' \in [Tokens -> TokenRow]
        /\ \A x \in Tokens : /\ token'[x].state = token[x].state
                             /\ token'[x].user = token[x].user
                             /\ token'[x].parent = token[x].parent
                             /\ token'[x].shared = token[x].shared
    BY <1>1 DEF TInv, TokenTypeOK, TokenRow
  <1>3. serve' = serve /\ Issued' = Issued
    BY <1>2 DEF Expire, Issued
  <1>4. TokenTypeOK'
    BY <1>2, <1>3 DEF TInv, TokenTypeOK, Issued
  <1>5. ServeShape'
    BY <1>3 DEF TInv, ServeShape, Issued, Refreshes
  <1>6. HeirShape'
    BY <1>2, <1>3 DEF TInv, HeirShape
  <1>. QED
    BY <1>2, <1>4, <1>5, <1>6 DEF TInv

LEMMA NextTyped == TInv /\ [TokenNext]_tokenVars => TInv'
  <1>. SUFFICES ASSUME TInv, [TokenNext]_tokenVars PROVE TInv'
    OBVIOUS
  <1>1. CASE UNCHANGED tokenVars
    BY <1>1 DEF tokenVars, TInv, TokenTypeOK, ServeShape, HeirShape, Issued, Refreshes
  <1>2. CASE TokenNext
    BY <1>2, RequestTyped, ServeTyped, ExpireTyped DEF TokenNext
  <1>. QED
    BY <1>1, <1>2

LEMMA InitTyped == TokenInit => TInv
  BY DEF TokenInit, TInv, TokenTypeOK, ServeShape, HeirShape, Issued, NoToken,
         NoRequest, TokenRow, ServeState, ServePC, Refreshes, Ended

\* The rows and the requests keep their types, whatever requests interleave
\* and whatever calls fail.
THEOREM TokenTypeCorrect == TokenSpec => []TokenTypeOK
  <1>. QED
    BY InitTyped, NextTyped, PTL DEF TokenSpec, TInv

----------------------------------------------------------------------------
(* How a step moves tokens and refresh requests                            *)

Kept ==
    \A t \in Tokens : /\ token'[t].parent = token[t].parent
                      /\ token[t].shared => token'[t].shared
                      /\ token'[t].state = token[t].state
                            \/ token'[t].state = "REVOKED"

\* A step keeps the rows or creates one for a request about to issue it.
LEMMA TokenMoves ==
    ASSUME TInv, [TokenNext]_tokenVars
    PROVE  \/ Kept
           \/ \E h \in Handlers, t \in Tokens :
                /\ serve[h].pc = "issue" /\ Create(h, t)
                /\ serve'[h].pc \in {"ok", "error"}
  <1>1. CASE UNCHANGED token
    BY <1>1 DEF Kept
  <1>2. CASE \E S : Revoke(S)
    BY <1>2, RevokeEffect DEF Kept, TInv
  <1>3. CASE \E t \in Tokens : Expire(t)
    BY <1>3, ExpireTyped DEF Kept
  <1>4. ASSUME NEW h \in Handlers, Issue(h)
        PROVE  \E t \in Tokens : /\ serve[h].pc = "issue" /\ Create(h, t)
                                 /\ serve'[h].pc \in {"ok", "error"}
    BY <1>4, IssueEffect DEF Issue, TInv
  <1>5. ASSUME NEW h \in Handlers, ReplyLost(h)
        PROVE  \/ \E S : Revoke(S)
               \/ \E t \in Tokens : /\ serve[h].pc = "issue" /\ Create(h, t)
                                    /\ serve'[h].pc \in {"ok", "error"}
    <2>1. "error" \in ServePC /\ To(h, "error")
      BY <1>5 DEF ServePC, ReplyLost
    <2>2. serve'[h].pc = "error"
      BY <2>1, ToEffect DEF TInv
    <2>. QED
      BY <1>5, <2>2 DEF ReplyLost, RevokeAllForUser
  <1>6. ASSUME NEW h \in Handlers, ServeStep(h)
        PROVE  UNCHANGED token \/ (\E S : Revoke(S)) \/ Issue(h)
    BY <1>6 DEF ServeStep, RotateReused, RotateExpired, RotateAccepted, RevokeOld,
                RevokeAll, RevokeAllForUser, LogoutRead, RevokeOne
  <1>7. ASSUME NEW h \in Handlers,
               \/ CallFails(h) \/ Answer(h)
               \/ \E u \in Users : \/ Login(h, u) \/ ChangePhone(h, u) \/ ResetPin(h, u)
                                   \/ \E t \in Tokens : Logout(h, u, t)
        PROVE  UNCHANGED token
    BY <1>7 DEF CallFails, Answer, Login, ChangePhone, ResetPin, Logout
  <1>8. ASSUME NEW h \in Handlers, NEW t \in Tokens, Refresh(h, t)
        PROVE  Kept
    BY <1>8, RefreshEffect DEF TInv, Kept
  <1>9. CASE UNCHANGED tokenVars
    BY <1>1, <1>9 DEF tokenVars
  <1>. QED
    BY <1>1, <1>2, <1>3, <1>4, <1>5, <1>6, <1>7, <1>8, <1>9 DEF TokenNext

\* A mark stays.
LEMMA SharedStays ==
    ASSUME TInv, [TokenNext]_tokenVars, NEW t \in Issued, token[t].shared
    PROVE  token'[t].shared
  <1>1. ASSUME NEW h \in Handlers, NEW x \in Tokens, serve[h].pc = "issue", Create(h, x)
        PROVE  token'[t] = token[t]
    BY <1>1, CreateEffect DEF TInv, ServeShape, Ended, Issued
  <1>. QED
    BY <1>1, TokenMoves DEF Kept, Issued

\* A refresh request that is under way after a step has either just arrived
\* or was under way before and comes from the place before in rotate.
LEMMA RefreshMoves ==
    ASSUME TInv, [TokenNext]_tokenVars, NEW h \in Handlers, Refreshes(h)'
    PROVE  \/ /\ Refreshes(h) /\ serve'[h].given = serve[h].given
              /\ serve'[h].pc = "revokeOld" =>
                    \/ serve[h].pc = "revokeOld"
                    \/ token[serve[h].given].state = "LIVE"
              /\ serve'[h].pc = "issue" =>
                    \/ serve[h].pc = "issue"
                    \/ serve[h].pc = "revokeOld"
                        /\ token'[serve[h].given].state # "LIVE"
           \/ /\ serve'[h].pc = "read"
              /\ Refreshing(serve'[h].given) => token'[serve'[h].given].shared
              /\ \A g \in Handlers \ {h} : serve'[g] = serve[g]
  <1>0. /\ ServePC = {"idle", "read", "revokeOld", "revokeAll", "revokeOne", "issue",
                      "ok", "refused", "error"}
        /\ Ended = {"idle", "ok", "refused", "error"}
    BY DEF ServePC, Ended
  <1>. DEFINE Goal == \/ /\ Refreshes(h) /\ serve'[h].given = serve[h].given
                         /\ serve'[h].pc = "revokeOld" =>
                               \/ serve[h].pc = "revokeOld"
                               \/ token[serve[h].given].state = "LIVE"
                         /\ serve'[h].pc = "issue" =>
                               \/ serve[h].pc = "issue"
                               \/ serve[h].pc = "revokeOld"
                                   /\ token'[serve[h].given].state # "LIVE"
                      \/ /\ serve'[h].pc = "read"
                         /\ Refreshing(serve'[h].given) => token'[serve'[h].given].shared
                         /\ \A g \in Handlers \ {h} : serve'[g] = serve[g]
  <1>1. CASE serve'[h] = serve[h]
    BY <1>1 DEF Refreshes
  <1>2. ASSUME NEW g \in Handlers, NEW r, serve' = [serve EXCEPT ![g] = r],
               g = h => Goal
        PROVE  Goal
    BY <1>1, <1>2 DEF TInv, TokenTypeOK
  <1>. HIDE DEF Goal
  <1>3. ASSUME NEW g \in Handlers, Answer(g)
        PROVE  Goal
    <2>1. ASSUME g = h PROVE FALSE
      BY <1>0, <1>3, <2>1 DEF Answer, Refreshes, NoRequest, TInv, TokenTypeOK
    <2>. QED
      BY <1>2, <1>3, <2>1 DEF Answer
  <1>4. ASSUME NEW g \in Handlers, NEW pc \in ServePC, To(g, pc),
               g = h => \/ pc \in Ended
                        \/ serve[h].op # "refresh"
                        \/ pc \in {"revokeAll"} /\ serve[h].pc \notin Ended
                        \/ pc = "revokeOld" /\ serve[h].pc \notin Ended
                            /\ token[serve[h].given].state = "LIVE"
                        \/ pc = "issue" /\ serve[h].pc = "revokeOld"
                            /\ token'[serve[h].given].state # "LIVE"
        PROVE  Goal
    <2>1. /\ serve'[g].pc = pc /\ serve'[g].op = serve[g].op
          /\ serve'[g].given = serve[g].given
          /\ \A x \in Handlers \ {g} : serve'[x] = serve[x]
      BY <1>4, ToEffect DEF TInv
    <2>2. CASE g = h
      BY <1>0, <1>4, <2>1, <2>2 DEF Refreshes, Goal
    <2>3. CASE g # h
      BY <1>1, <2>1, <2>3 DEF Goal
    <2>. QED
      BY <2>2, <2>3
  <1>5. ASSUME NEW g \in Handlers, ServeStep(g)
        PROVE  Goal
    <2>1. CASE RotateReused(g)
      BY <1>0, <1>4, <2>1 DEF RotateReused
    <2>2. CASE RotateExpired(g)
      BY <1>0, <1>4, <2>2 DEF RotateExpired
    <2>3. CASE RotateAccepted(g)
      BY <1>0, <1>4, <2>3 DEF RotateAccepted
    <2>4. CASE RevokeOld(g)
      <3>1. serve[g].given \in Tokens /\ token'[serve[g].given].state # "LIVE"
        BY <1>0, <2>4, RevokeEffect DEF RevokeOld, TInv, ServeShape, Issued
      <3>. QED
        BY <1>0, <1>4, <2>4, <3>1 DEF RevokeOld
    <2>5. CASE Issue(g)
      <3>1. ASSUME g = h PROVE FALSE
        BY <1>0, <2>5, <3>1, IssueEffect DEF Issue, Refreshes, TInv
      <3>2. g # h => serve'[h] = serve[h]
        BY <2>5, IssueEffect DEF Issue, TInv
      <3>. QED
        BY <1>1, <3>1, <3>2 DEF Goal
    <2>6. CASE RevokeAll(g)
      <3>1. serve[g].op \in {"refresh", "changePhone", "resetPin"}
        BY <2>6 DEF RevokeAll, TInv, ServeShape
      <3>2. PICK pc \in {"refused", "ok", "issue"} :
                To(g, pc) /\ (serve[g].op = "refresh" => pc = "refused")
        BY <2>6, <3>1 DEF RevokeAll
      <3>. QED
        BY <1>0, <1>4, <3>2
    <2>7. CASE LogoutRead(g)
      BY <1>0, <1>4, <2>7 DEF LogoutRead
    <2>8. CASE RevokeOne(g)
      BY <1>0, <1>4, <2>8 DEF RevokeOne
    <2>. QED
      BY <1>5, <2>1, <2>2, <2>3, <2>4, <2>5, <2>6, <2>7, <2>8 DEF ServeStep
  <1>6. ASSUME NEW g \in Handlers, CallFails(g) \/ ReplyLost(g)
        PROVE  Goal
    BY <1>0, <1>4, <1>6 DEF CallFails, ReplyLost
  <1>7. ASSUME NEW g \in Handlers, NEW t \in Tokens, Refresh(g, t)
        PROVE  Goal
    <2>1. CASE g = h
      <3>1. serve'[h].pc = "read" /\ serve'[h].given = t
            /\ \A x \in Handlers \ {h} : serve'[x] = serve[x]
        BY <1>7, <2>1 DEF Refresh, Arrive, TInv, TokenTypeOK
      <3>. QED
        BY <1>7, <3>1, RefreshEffect DEF TInv, Goal
    <2>2. CASE g # h
      <3>1. serve'[h] = serve[h]
        BY <1>7, <2>2 DEF Refresh, Arrive, TInv, TokenTypeOK
      <3>. QED
        BY <1>1, <3>1 DEF Goal
    <2>. QED
      BY <2>1, <2>2
  <1>8. ASSUME NEW g \in Handlers, NEW u \in Users,
               \/ Login(g, u) \/ ChangePhone(g, u) \/ ResetPin(g, u)
               \/ \E t \in Tokens : Logout(g, u, t)
        PROVE  Goal
    <2>1. PICK op \in {"login", "changePhone", "resetPin", "logout"},
               pc \in ServePC, t \in Tokens \cup {None} : Arrive(g, op, u, t, pc)
      BY <1>0, <1>8 DEF Login, ChangePhone, ResetPin, Logout
    <2>2. ASSUME g = h PROVE FALSE
      <3>1. serve'[h].op = op
        BY <2>1, <2>2 DEF Arrive, TInv, TokenTypeOK
      <3>. QED
        BY <3>1 DEF Refreshes
    <2>3. g # h => serve'[h] = serve[h]
      BY <2>1 DEF Arrive, TInv, TokenTypeOK
    <2>. QED
      BY <1>1, <2>2, <2>3 DEF Goal
  <1>9. ASSUME (\E t \in Tokens : Expire(t)) \/ UNCHANGED tokenVars
        PROVE  Goal
    BY <1>1, <1>9 DEF Expire, tokenVars, Goal
  <1>. QED
    <2>1. ASSUME NEW g \in Handlers,
                 \/ \E u \in Users : \/ Login(g, u) \/ ChangePhone(g, u) \/ ResetPin(g, u)
                                     \/ \E t \in Tokens : Logout(g, u, t)
                 \/ \E t \in Tokens : Refresh(g, t)
                 \/ ServeStep(g) \/ CallFails(g) \/ ReplyLost(g) \/ Answer(g)
          PROVE  Goal
      BY <1>3, <1>5, <1>6, <1>7, <1>8, <2>1
    <2>2. ASSUME TokenNext PROVE Goal
      BY <1>9, <2>1, <2>2 DEF TokenNext
    <2>3. Goal
      BY <1>9, <2>2
    <2>. QED
      BY <2>3 DEF Goal

----------------------------------------------------------------------------
(* A revoked token no exchange of which is under way                       *)

LEMMA RevokedStays ==
    ASSUME TInv, [TokenNext]_tokenVars, NEW t \in Tokens,
           token[t].state = "REVOKED", ~Exchanging(t)
    PROVE  token'[t].state = "REVOKED" /\ ~Exchanging(t)' /\ Heirs(t)' = Heirs(t)
  <1>1. ~Exchanging(t)'
    <2>. SUFFICES ASSUME NEW h \in Handlers, serve'[h].op = "refresh",
                         serve'[h].given = t, serve'[h].pc \in {"revokeOld", "issue"}
                  PROVE  FALSE
      BY DEF Exchanging
    <2>1. Refreshes(h)'
      BY DEF Refreshes, Ended
    <2>2. /\ Refreshes(h) /\ serve[h].given = t
          /\ serve[h].pc \in {"revokeOld", "issue"} \/ token[t].state = "LIVE"
      BY <2>1, RefreshMoves
    <2>. QED
      BY <2>2 DEF Refreshes, Exchanging
  <1>2. CASE Kept
    BY <1>1, <1>2 DEF Kept, Heirs
  <1>3. ASSUME NEW h \in Handlers, NEW x \in Tokens, serve[h].pc = "issue", Create(h, x)
        PROVE  token'[t].state = "REVOKED" /\ Heirs(t)' = Heirs(t)
    <2>1. /\ x \notin Issued /\ token'[x].parent = serve[h].given
          /\ \A y \in Tokens \ {x} : token'[y] = token[y]
      BY <1>3, CreateEffect DEF TInv, ServeShape, Refreshes, Ended
    <2>2. serve[h].given # t
      BY <1>3, NoneIsNoToken DEF TInv, ServeShape, Exchanging
    <2>3. token[x].parent # t
      BY <2>1, NoneIsNoToken DEF TInv, HeirShape
    <2>4. x # t
      BY <2>1 DEF Issued
    <2>5. \A y \in Tokens : token'[y].parent = t <=> token[y].parent = t
      BY <2>1, <2>2, <2>3
    <2>. QED
      BY <2>1, <2>4, <2>5 DEF Heirs
  <1>. QED
    BY <1>1, <1>2, <1>3, TokenMoves

\* A logout, a reset or the detection of a reuse is final for every token no
\* exchange of which is under way, however clients present their tokens.
THEOREM RevokedIsFinalCorrect == TokenSpec => RevokedIsFinal
  <1>1. TInv /\ [TokenNext]_tokenVars =>
            [\A t \in Tokens : token[t].state = "REVOKED" /\ ~Exchanging(t) =>
                /\ token'[t].state = "REVOKED"
                /\ ~Exchanging(t)'
                /\ Heirs(t)' = Heirs(t)]_tokenVars
    BY RevokedStays
  <1>. QED
    BY <1>1, InitTyped, NextTyped, PTL DEF TokenSpec, RevokedIsFinal

----------------------------------------------------------------------------
(* One heir                                                                *)

LEMMA OneRefreshInductive ==
    ASSUME TInv, OneRefresh, [TokenNext]_tokenVars
    PROVE  OneRefresh'
  <1>. SUFFICES ASSUME NEW h \in Handlers, Refreshes(h)', ~token'[serve'[h].given].shared
                PROVE  /\ \A g \in Handlers :
                            Refreshes(g)' /\ serve'[g].given = serve'[h].given => g = h
                       /\ serve'[h].pc = "issue" =>
                            token'[serve'[h].given].state = "REVOKED"
    BY DEF OneRefresh, Refreshes
  <1>0. Refreshes(h) /\ serve'[h].given = serve[h].given => ~token[serve[h].given].shared
    <2>1. Refreshes(h) => serve[h].given \in Issued
      BY DEF TInv, ServeShape
    <2>. QED
      BY <2>1, SharedStays
  <1>1. ASSUME NEW g \in Handlers, Refreshes(g)', serve'[g].given = serve'[h].given
        PROVE  g = h
    <2>1. CASE /\ Refreshes(h) /\ serve'[h].given = serve[h].given
               /\ Refreshes(g) /\ serve'[g].given = serve[g].given
      BY <1>0, <1>1, <2>1 DEF OneRefresh, Refreshes
    <2>2. ASSUME NEW a \in Handlers, NEW b \in Handlers, a # b, Refreshes(b)',
                 ~Refreshing(serve'[a].given), serve'[b].given = serve'[a].given,
                 \A x \in Handlers \ {a} : serve'[x] = serve[x]
          PROVE  FALSE
      BY <2>2 DEF Refreshes, Refreshing
    <2>. QED
      BY <1>1, <2>1, <2>2, RefreshMoves
  <1>2. ASSUME serve'[h].pc = "issue"
        PROVE  token'[serve'[h].given].state = "REVOKED"
    <2>1. /\ Refreshes(h) /\ serve'[h].given = serve[h].given
          /\ \/ serve[h].pc = "issue"
             \/ serve[h].pc = "revokeOld" /\ token'[serve[h].given].state # "LIVE"
      BY <1>2, RefreshMoves
    <2>. DEFINE t == serve[h].given
    <2>2. t \in Issued
      BY <2>1 DEF TInv, ServeShape, Refreshes
    <2>3. token[t].state \in {"LIVE", "REVOKED"}
      BY <2>2 DEF TInv, TokenTypeOK, TokenRow, Issued
    <2>4. CASE Kept
      <3>1. token'[t].state = token[t].state \/ token'[t].state = "REVOKED"
        BY <2>2, <2>4 DEF Kept, Issued
      <3>. QED
        BY <1>0, <2>1, <2>3, <3>1 DEF OneRefresh, Refreshes
    <2>5. ASSUME NEW g \in Handlers, NEW x \in Tokens, serve[g].pc = "issue", Create(g, x)
          PROVE  token'[t].state = "REVOKED"
      <3>1. token'[t] = token[t]
        BY <2>2, <2>5, CreateEffect DEF TInv, ServeShape, Ended, Issued
      <3>. QED
        BY <1>0, <2>1, <2>3, <3>1 DEF OneRefresh, Refreshes
    <2>. QED
      BY <2>1, <2>4, <2>5, TokenMoves
  <1>. QED
    BY <1>1, <1>2

LEMMA OneHeirInductive ==
    ASSUME TInv, OneRefresh, OneHeir, [TokenNext]_tokenVars
    PROVE  OneHeir'
  <1>. SUFFICES ASSUME NEW t \in Tokens, ~token'[t].shared
                PROVE  /\ \A x, y \in Heirs(t)' : x = y
                       /\ Heirs(t)' # {} => /\ token'[t].state = "REVOKED"
                                            /\ ~Exchanging(t)'
    BY DEF OneHeir
  <1>0. t \in Issued => ~token[t].shared
    BY SharedStays
  <1>1. Heirs(t) # {} => /\ \A x, y \in Heirs(t) : x = y
                         /\ token[t].state = "REVOKED" /\ ~Exchanging(t)
    BY <1>0, NoneIsNoToken DEF OneHeir, TInv, HeirShape, Heirs
  <1>2. CASE Heirs(t) # {}
    BY <1>1, <1>2, RevokedStays
  <1>3. CASE Heirs(t) = {} /\ Kept
    BY <1>3 DEF Kept, Heirs
  <1>4. ASSUME Heirs(t) = {}, NEW h \in Handlers, NEW x \in Tokens,
               serve[h].pc = "issue", Create(h, x), serve'[h].pc \in {"ok", "error"}
        PROVE  /\ \A y, z \in Heirs(t)' : y = z
               /\ Heirs(t)' # {} => token'[t].state = "REVOKED" /\ ~Exchanging(t)'
    <2>1. /\ x \notin Issued /\ token'[x].parent = serve[h].given
          /\ \A y \in Tokens \ {x} : token'[y] = token[y]
      BY <1>4, CreateEffect DEF TInv, ServeShape, Refreshes, Ended
    <2>2. Heirs(t)' \subseteq {x}
      BY <1>4, <2>1 DEF Heirs
    <2>3. ASSUME Heirs(t)' # {}
          PROVE  token'[t].state = "REVOKED" /\ ~Exchanging(t)'
      <3>1. serve[h].given = t /\ t # None
        <4>1. x \in Heirs(t)'
          BY <2>2, <2>3
        <4>. QED
          BY <2>1, <4>1, NoneIsNoToken DEF Heirs
      <3>2. Refreshes(h) /\ t \in Issued
        BY <1>4, <3>1 DEF TInv, ServeShape, Refreshes, Ended
      <3>3. token[t].state = "REVOKED" /\ x # t
        BY <1>0, <1>4, <2>1, <3>1, <3>2 DEF OneRefresh, Refreshes, Issued
      <3>4. ASSUME NEW g \in Handlers, Refreshes(g)', serve'[g].given = t,
                   serve'[g].pc \in {"revokeOld", "issue"}
            PROVE  FALSE
        <4>1. Refreshes(g) /\ serve[g].given = t
          BY <3>4, RefreshMoves
        <4>2. g = h
          BY <1>0, <3>1, <3>2, <4>1 DEF OneRefresh, Refreshes
        <4>. QED
          BY <1>4, <3>4, <4>2
      <3>. QED
        BY <2>1, <3>3, <3>4 DEF Exchanging, Refreshes, Ended
    <2>. QED
      BY <2>2, <2>3
  <1>. QED
    BY <1>2, <1>3, <1>4, TokenMoves

\* A token not refreshed by two requests at once is exchanged once at most and
\* is revoked by then, for any number of devices, requests and failures.
THEOREM OneHeirCorrect == TokenSpec => []OneHeir
  <1>1. TokenInit => OneRefresh /\ OneHeir
    <2>1. ASSUME TokenInit, NEW t \in Tokens PROVE Heirs(t) = {}
      BY <2>1, NoneIsNoToken DEF TokenInit, NoToken, Heirs
    <2>2. ASSUME TokenInit, NEW h \in Handlers PROVE serve[h].pc \in Ended
      BY <2>2 DEF TokenInit, NoRequest, Ended
    <2>. QED
      BY <2>1, <2>2 DEF OneRefresh, OneHeir, Refreshes
  <1>2. TInv /\ OneRefresh /\ OneHeir /\ [TokenNext]_tokenVars
            => (OneRefresh /\ OneHeir)'
    BY OneRefreshInductive, OneHeirInductive
  <1>. QED
    BY <1>1, <1>2, InitTyped, NextTyped, PTL DEF TokenSpec
----------------------------------------------------------------------------
(* The ledger                                                              *)

\* h has passed the check of rotate and has not issued the new token yet.
InExchange(h) == serve[h].op = "refresh" /\ serve[h].pc \in {"revokeOld", "issue"}

LEMMA ExchangingKept ==
    ASSUME NEW h \in Handlers, \A g \in Handlers \ {h} : serve'[g] = serve[g],
           InExchange(h)' <=> InExchange(h), InExchange(h) => serve'[h].given = serve[h].given,
           NEW t
    PROVE  Exchanging(t)' <=> Exchanging(t)
  BY DEF Exchanging, InExchange

\* The exchange at h begins or ends; no other exchange does.
LEMMA OtherExchanges ==
    ASSUME NEW h \in Handlers, \A g \in Handlers \ {h} : serve'[g] = serve[g],
           serve'[h].given = serve[h].given, NEW t, t # serve[h].given
    PROVE  Exchanging(t)' <=> Exchanging(t)
  BY DEF Exchanging

LEMMA RightKept ==
    ASSUME NEW t \in Tokens,
           token'[t].state = token[t].state, token'[t].shared = token[t].shared,
           token'[t].expired = token[t].expired,
           Exchanging(t)' <=> Exchanging(t), Heirs(t)' = Heirs(t)
    PROVE  RightOf(t)' = RightOf(t)
  BY DEF RightOf

LEMMA OneRightChanges ==
    ASSUME NEW t \in Tokens, NEW v, RightOf(t)' = v,
           \A x \in Tokens \ {t} : RightOf(x)' = RightOf(x)
    PROVE  Rights' = [Rights EXCEPT ![t] = v]
  BY DEF Rights

LEMMA ParentsKept ==
    ASSUME \A t \in Tokens : token'[t].parent = token[t].parent
    PROVE  Parents' = Parents /\ \A t : Heirs(t)' = Heirs(t)
  BY DEF Parents, Heirs

\* What a request that starts no exchange and ends none does without a write.
LEMMA QuietStep ==
    ASSUME UNCHANGED token, NEW h \in Handlers,
           \A g \in Handlers \ {h} : serve'[g] = serve[g],
           InExchange(h)' <=> InExchange(h), InExchange(h) => serve'[h].given = serve[h].given
    PROVE  UNCHANGED <<Rights, Parents>>
  <1>1. Parents' = Parents /\ \A t \in Tokens : Heirs(t)' = Heirs(t)
    BY DEF Parents, Heirs
  <1>2. \A t \in Tokens : RightOf(t)' = RightOf(t)
    BY <1>1, ExchangingKept, RightKept
  <1>. QED
    BY <1>1, <1>2 DEF Rights

\* Two refreshes of one token contest it.
LEMMA RefreshContests ==
    ASSUME TInv, NEW h \in Handlers, NEW t \in Tokens, Refresh(h, t)
    PROVE  UNCHANGED <<Rights, Parents>> \/ Ledger!Contest(t)
  <1>1. /\ serve[h].pc = "idle" /\ serve'[h].pc = "read" /\ t \in Issued
        /\ \A g \in Handlers \ {h} : serve'[g] = serve[g]
    BY DEF Refresh, Arrive, TInv, TokenTypeOK
  <1>2. \A x \in Tokens : Exchanging(x)' <=> Exchanging(x)
    BY <1>1, ExchangingKept DEF InExchange
  <1>3. /\ \A x \in Tokens : /\ token'[x].state = token[x].state
                             /\ token'[x].parent = token[x].parent
                             /\ token'[x].expired = token[x].expired
                             /\ x # t => token'[x].shared = token[x].shared
        /\ token[t].shared => token'[t].shared
    <2>1. /\ \A x \in Tokens \ {t} : token'[x] = token[x]
          /\ token'[t].expired = token[t].expired
      BY DEF Refresh, TInv, TokenTypeOK, TokenRow
    <2>. QED
      BY <2>1, RefreshEffect DEF TInv
  <1>4. Parents' = Parents /\ \A x : Heirs(x)' = Heirs(x)
    BY <1>3, ParentsKept
  <1>5. \A x \in Tokens \ {t} : RightOf(x)' = RightOf(x)
    BY <1>2, <1>3, <1>4, RightKept
  <1>6. CASE token'[t].shared
    <2>1. RightOf(t)' = "contested"
      BY <1>1, <1>3, <1>6 DEF RightOf, Issued
    <2>2. Rights[t] # "none"
      BY <1>1 DEF Rights, RightOf, Issued
    <2>. QED
      BY <1>4, <1>5, <2>1, <2>2, OneRightChanges DEF Ledger!Contest
  <1>7. CASE ~token'[t].shared
    <2>1. token'[t].shared = token[t].shared
      <3>1. token'[t].shared \in BOOLEAN /\ token[t].shared \in BOOLEAN
        BY RefreshEffect DEF TInv, TokenTypeOK, TokenRow
      <3>. QED
        BY <1>3, <1>7, <3>1
    <2>2. RightOf(t)' = RightOf(t)
      BY <1>2, <1>3, <1>4, <2>1, RightKept
    <2>. QED
      BY <1>4, <1>5, <2>2 DEF Rights
  <1>. QED
    BY <1>6, <1>7

\* The check of rotate takes the token, and nobody else has.
LEMMA AcceptedTakes ==
    ASSUME TInv, OneRefresh, OneHeir, NEW h \in Handlers, RotateAccepted(h)
    PROVE  UNCHANGED <<Rights, Parents>> \/ \E t \in Tokens : Ledger!Take(t)
  <1>0. PICK t \in Tokens : t = serve[h].given
    BY DEF RotateAccepted, TInv, ServeShape, Issued
  <1>1. /\ serve[h].pc = "read" /\ serve[h].op = "refresh" /\ token' = token
        /\ token[t].state = "LIVE" /\ ~token[t].expired
    BY <1>0 DEF RotateAccepted
  <1>2. /\ serve'[h].pc = "revokeOld" /\ serve'[h].op = "refresh" /\ serve'[h].given = t
        /\ \A g \in Handlers \ {h} : serve'[g] = serve[g]
    BY <1>0, <1>1, ToEffect DEF RotateAccepted, TInv, ServePC
  <1>3. Parents' = Parents /\ \A x : Heirs(x)' = Heirs(x)
    BY <1>1, ParentsKept
  <1>4. \A x \in Tokens \ {t} : RightOf(x)' = RightOf(x)
    BY <1>0, <1>1, <1>2, <1>3, OtherExchanges, RightKept
  <1>5. CASE token[t].shared
    <2>1. RightOf(t)' = RightOf(t)
      BY <1>1, <1>5 DEF RightOf
    <2>. QED
      BY <1>3, <1>4, <2>1 DEF Rights
  <1>6. CASE ~token[t].shared
    <2>1. ~Exchanging(t)
      BY <1>0, <1>1, <1>6 DEF Exchanging, OneRefresh, Refreshes, Ended
    <2>2. Rights[t] = "usable"
      BY <1>1, <1>6, <2>1 DEF Rights, RightOf
    <2>3. RightOf(t)' = "exchanging"
      BY <1>1, <1>2, <1>6 DEF RightOf, Exchanging
    <2>. QED
      BY <1>1, <1>3, <1>4, <2>2, <2>3, OneRightChanges DEF Ledger!Take
  <1>. QED
    BY <1>5, <1>6

\* The old token is revoked while its exchange is under way.
LEMMA RevokeOldQuiet ==
    ASSUME TInv, NEW h \in Handlers, RevokeOld(h)
    PROVE  UNCHANGED <<Rights, Parents>>
  <1>0. PICK t \in Tokens : t = serve[h].given
    BY DEF RevokeOld, TInv, ServeShape, Issued
  <1>1. /\ serve[h].pc = "revokeOld" /\ serve[h].op = "refresh" /\ t \in Issued
    BY <1>0 DEF RevokeOld, TInv, ServeShape
  <1>2. /\ serve'[h].pc = "issue" /\ serve'[h].op = "refresh" /\ serve'[h].given = t
        /\ \A g \in Handlers \ {h} : serve'[g] = serve[g]
    BY <1>0, <1>1, ToEffect DEF RevokeOld, TInv, ServePC
  <1>3. \A x \in Tokens : Exchanging(x)' <=> Exchanging(x)
    BY <1>0, <1>1, <1>2, ExchangingKept DEF InExchange
  <1>4. /\ \A x \in Tokens \ {t} : token'[x] = token[x]
        /\ \A x \in Tokens : /\ token'[x].parent = token[x].parent
                             /\ token'[x].shared = token[x].shared
        /\ Issued' = Issued
    BY <1>0, RevokeEffect DEF RevokeOld, TInv, Revoke
  <1>5. Parents' = Parents /\ \A x : Heirs(x)' = Heirs(x)
    BY <1>4, ParentsKept
  <1>6. \A x \in Tokens \ {t} : RightOf(x)' = RightOf(x)
    BY <1>3, <1>4, <1>5, RightKept
  <1>7. RightOf(t)' = RightOf(t)
    <2>1. Exchanging(t) /\ Exchanging(t)'
      BY <1>0, <1>1, <1>2 DEF Exchanging
    <2>. QED
      BY <1>1, <1>4, <2>1 DEF RightOf, Issued
  <1>. QED
    BY <1>5, <1>6, <1>7 DEF Rights

\* A row is created: an exchange ends, or somebody has logged in.
LEMMA CreateGives ==
    ASSUME TInv, TInv', OneRefresh, OneHeir, NEW h \in Handlers, NEW x \in Tokens,
           serve[h].pc = "issue", Create(h, x),
           serve'[h].pc \in {"ok", "error"}, serve'[h].op = serve[h].op,
           serve'[h].given = serve[h].given, \A g \in Handlers \ {h} : serve'[g] = serve[g]
    PROVE  Ledger!LedgerNext
  <1>1. /\ x \notin Issued /\ token'[x].parent = serve[h].given
        /\ \A y \in Tokens \ {x} : token'[y] = token[y]
    BY CreateEffect DEF TInv, ServeShape, Ended
  <1>2. /\ token'[x].state = "LIVE" /\ ~token'[x].expired /\ ~token'[x].shared
    BY DEF Create, TInv, TokenTypeOK
  <1>3. \A g \in Handlers : InExchange(g) => serve[g].given \in Issued
    BY DEF TInv, ServeShape, InExchange, Refreshes, Ended
  <1>4. ~InExchange(h)' /\ ~Exchanging(x) /\ ~Exchanging(x)'
    BY <1>1, <1>3 DEF InExchange, Exchanging
  <1>5. Heirs(x)' = {}
    <2>1. serve[h].given # x
      BY <1>1, NoneIsNoToken DEF TInv, ServeShape, Refreshes, Ended
    <2>2. \A y \in Tokens : token[y].parent # x
      BY <1>1, NoneIsNoToken DEF TInv, HeirShape, Issued
    <2>. QED
      BY <1>1, <2>1, <2>2 DEF Heirs
  <1>6. RightOf(x)' = "usable" /\ Rights[x] = "none"
    BY <1>1, <1>2, <1>4 DEF Rights, RightOf, Issued
  <1>7. Parents' = [Parents EXCEPT ![x] = serve[h].given]
    BY <1>1 DEF Parents
  <1>8. ASSUME NEW y \in Tokens \ {x}, y # serve[h].given PROVE RightOf(y)' = RightOf(y)
    <2>1. Heirs(y)' = Heirs(y)
      BY <1>1, <1>8, NoneIsNoToken DEF Heirs, TInv, HeirShape
    <2>2. Exchanging(y)' <=> Exchanging(y)
      BY <1>8, OtherExchanges
    <2>. QED
      BY <1>1, <2>1, <2>2, RightKept
  <1>9. CASE serve[h].op # "refresh"
    <2>1. serve[h].given = None
      BY <1>9 DEF TInv, ServeShape
    <2>2. \A y \in Tokens \ {x} : RightOf(y)' = RightOf(y)
      BY <1>8, <2>1, NoneIsNoToken
    <2>3. Parents' = Parents
      BY <1>1, <1>7, <2>1 DEF Parents, TInv, HeirShape
    <2>. QED
      BY <1>6, <2>2, <2>3, OneRightChanges DEF Ledger!LedgerNext, Ledger!Open
  <1>10. CASE serve[h].op = "refresh"
    <2>1. PICK t \in Issued : t = serve[h].given
      BY <1>3, <1>10 DEF InExchange
    <2>2. /\ t \in Tokens /\ t # x /\ token'[t] = token[t]
          /\ token[t].state # "ABSENT"
      BY <1>1, <2>1 DEF Issued
    <2>3. Exchanging(t) /\ InExchange(h)
      BY <1>10, <2>1 DEF Exchanging, InExchange
    <2>4. CASE token[t].shared
      <3>1. Rights[t] = "contested" /\ RightOf(t)' = "contested"
        BY <2>2, <2>4 DEF Rights, RightOf
      <3>2. \A y \in Tokens \ {x} : RightOf(y)' = RightOf(y)
        BY <1>8, <2>1, <2>2, <3>1 DEF Rights
      <3>3. Rights' = [Rights EXCEPT ![x] = "usable"]
        BY <1>6, <3>2, OneRightChanges
      <3>. QED
        BY <1>6, <1>7, <2>1, <2>2, <3>1, <3>3 DEF Ledger!LedgerNext, Ledger!GiveContested
    <2>5. CASE ~token[t].shared
      <3>1. Rights[t] = "exchanging"
        BY <2>2, <2>3, <2>5 DEF Rights, RightOf
      <3>2. token[t].state = "REVOKED"
        BY <2>1, <2>3, <2>5 DEF OneRefresh, Refreshes, InExchange, Ended
      <3>3. ~Exchanging(t)'
        <4>. SUFFICES ASSUME NEW g \in Handlers, serve'[g].op = "refresh", serve'[g].given = t,
                             serve'[g].pc \in {"revokeOld", "issue"}
                      PROVE  FALSE
          BY DEF Exchanging
        <4>1. g # h
          OBVIOUS
        <4>2. Refreshes(g) /\ Refreshes(h) /\ serve[g].given = serve[h].given
          BY <1>10, <2>1, <4>1 DEF Refreshes, Ended
        <4>. QED
          BY <2>1, <2>5, <4>1, <4>2 DEF OneRefresh
      <3>4. x \in Heirs(t)'
        BY <1>1, <2>1 DEF Heirs
      <3>5. RightOf(t)' = "spent"
        BY <2>2, <2>5, <3>2, <3>3, <3>4 DEF RightOf
      <3>6. \A y \in Tokens \ {t, x} : RightOf(y)' = RightOf(y)
        BY <1>8, <2>1
      <3>7. Rights' = [Rights EXCEPT ![t] = "spent", ![x] = "usable"]
        BY <1>6, <2>2, <3>5, <3>6 DEF Rights
      <3>. QED
        BY <1>6, <1>7, <2>1, <2>2, <3>1, <3>7 DEF Ledger!LedgerNext, Ledger!Give
    <2>. QED
      BY <2>4, <2>5
  <1>. QED
    BY <1>9, <1>10

\* Tokens are revoked together, by a request that exchanges none.
LEMMA RevokeEnds ==
    ASSUME TInv, OneHeir, NEW h \in Handlers, NEW S, Revoke(S),
           \A g \in Handlers \ {h} : serve'[g] = serve[g],
           ~InExchange(h), ~InExchange(h)'
    PROVE  UNCHANGED <<Rights, Parents>> \/ Ledger!LedgerNext
  <1>1. \A t \in Tokens : Exchanging(t)' <=> Exchanging(t)
    BY ExchangingKept
  <1>2. \A t \in Tokens : /\ token'[t].parent = token[t].parent
                          /\ token'[t].shared = token[t].shared
                          /\ \/ token'[t] = token[t]
                             \/ token[t].state = "LIVE" /\ token'[t].state = "REVOKED"
    BY RevokeEffect DEF TInv, Revoke
  <1>3. Parents' = Parents /\ \A t : Heirs(t)' = Heirs(t)
    BY <1>2, ParentsKept
  <1> DEFINE E == {t \in Tokens : Rights[t] = "usable" /\ token'[t].state = "REVOKED"}
  <1>4. ASSUME NEW t \in Tokens, token'[t] = token[t] PROVE RightOf(t)' = RightOf(t) /\ t \notin E
    <2>1. RightOf(t)' = RightOf(t)
      BY <1>1, <1>3, <1>4, RightKept
    <2>2. token[t].state = "REVOKED" => Rights[t] # "usable"
      BY DEF Rights, RightOf
    <2>. QED
      BY <1>4, <2>1, <2>2
  <1>5. ASSUME NEW t \in Tokens, token[t].state = "LIVE", token'[t].state = "REVOKED"
        PROVE  RightOf(t)' = IF t \in E THEN "ended" ELSE RightOf(t)
    <2>1. CASE token[t].shared \/ Exchanging(t)
      <3>1. Rights[t] # "usable"
        BY <2>1 DEF Rights, RightOf
      <3>. QED
        BY <1>1, <1>2, <1>5, <2>1, <3>1 DEF RightOf
    <2>2. CASE ~token[t].shared /\ ~Exchanging(t)
      <3>1. Heirs(t) = {} /\ Heirs(t)' = {}
        BY <1>3, <1>5, <2>2 DEF OneHeir
      <3>2. RightOf(t)' = "ended"
        BY <1>1, <1>2, <1>5, <2>2, <3>1 DEF RightOf
      <3>3. RightOf(t) = IF token[t].expired THEN "ended" ELSE "usable"
        BY <1>5, <2>2, <3>1 DEF RightOf
      <3>. QED
        BY <1>5, <3>2, <3>3 DEF Rights
    <2>. QED
      BY <2>1, <2>2
  <1>6. Rights' = [t \in Tokens |-> IF t \in E THEN "ended" ELSE Rights[t]]
    <2>1. \A t \in Tokens : RightOf(t)' = IF t \in E THEN "ended" ELSE Rights[t]
      BY <1>2, <1>4, <1>5 DEF Rights
    <2>. QED
      BY <2>1 DEF Rights
  <1>7. E \in SUBSET {t \in Tokens : Rights[t] = "usable"}
    OBVIOUS
  <1>8. PICK F \in SUBSET {t \in Tokens : Rights[t] = "usable"} : F = E
    BY <1>7
  <1>. QED
    BY <1>3, <1>6, <1>8 DEF Ledger!LedgerNext, Ledger!End

\* An exchange ends without a new token.
LEMMA ExchangeFails ==
    ASSUME TInv, OneRefresh, OneHeir, NEW h \in Handlers, InExchange(h),
           (UNCHANGED token) \/ Revoke({serve[h].given}), To(h, "error")
    PROVE  UNCHANGED <<Rights, Parents>> \/ Ledger!LedgerNext
  <1>1. PICK t \in Tokens : t = serve[h].given /\ t \in Issued
    BY DEF InExchange, TInv, ServeShape, Refreshes, Ended, Issued
  <1>2. /\ serve'[h].pc = "error" /\ serve'[h].given = t
        /\ \A g \in Handlers \ {h} : serve'[g] = serve[g]
    BY <1>1, ToEffect DEF TInv, ServePC
  <1>3. /\ \A x \in Tokens \ {t} : token'[x] = token[x]
        /\ \A x \in Tokens : /\ token'[x].parent = token[x].parent
                             /\ token'[x].shared = token[x].shared
        /\ token'[t].state \in {"LIVE", "REVOKED"}
    <2>1. token[t].state \in {"LIVE", "REVOKED"}
      BY <1>1 DEF Issued, TInv, TokenTypeOK, TokenRow
    <2>2. CASE UNCHANGED token
      BY <2>1, <2>2
    <2>3. CASE Revoke({t})
      BY <2>1, <2>3, RevokeEffect DEF TInv, Revoke
    <2>. QED
      BY <1>1, <2>2, <2>3
  <1>4. Parents' = Parents /\ \A x : Heirs(x)' = Heirs(x)
    BY <1>3, ParentsKept
  <1>5. \A x \in Tokens \ {t} : RightOf(x)' = RightOf(x)
    BY <1>1, <1>2, <1>3, <1>4, OtherExchanges, RightKept
  <1>6. CASE token[t].shared
    <2>1. RightOf(t)' = RightOf(t)
      BY <1>1, <1>3, <1>6 DEF RightOf, Issued
    <2>. QED
      BY <1>4, <1>5, <2>1 DEF Rights
  <1>7. CASE ~token[t].shared
    <2>1. Exchanging(t)
      BY <1>1 DEF Exchanging, InExchange
    <2>2. Rights[t] = "exchanging" /\ Heirs(t)' = {}
      BY <1>1, <1>4, <1>7, <2>1 DEF Rights, RightOf, Issued, OneHeir
    <2>3. ~Exchanging(t)'
      <3>. SUFFICES ASSUME NEW g \in Handlers, serve'[g].op = "refresh", serve'[g].given = t,
                           serve'[g].pc \in {"revokeOld", "issue"}
                    PROVE  FALSE
        BY DEF Exchanging
      <3>1. g # h
        BY <1>2
      <3>2. Refreshes(g) /\ Refreshes(h) /\ serve[g].given = serve[h].given
        BY <1>1, <1>2, <3>1 DEF Refreshes, InExchange, Ended
      <3>. QED
        BY <1>1, <1>7, <3>1, <3>2 DEF OneRefresh
    <2>4. PICK outcome \in {"usable", "ended"} : RightOf(t)' = outcome
      BY <1>3, <1>7, <2>2, <2>3 DEF RightOf
    <2>. QED
      BY <1>4, <1>5, <2>2, <2>4, OneRightChanges DEF Ledger!LedgerNext, Ledger!GiveBack
  <1>. QED
    BY <1>6, <1>7

LEMMA ExpireEnds ==
    ASSUME TInv, OneHeir, NEW t \in Tokens, Expire(t)
    PROVE  UNCHANGED <<Rights, Parents>> \/ Ledger!LedgerNext
  <1>1. /\ token[t].state = "LIVE" /\ ~token[t].expired /\ serve' = serve
        /\ \A x \in Tokens \ {t} : token'[x] = token[x]
        /\ token'[t].expired
    BY DEF Expire, TInv, TokenTypeOK, TokenRow
  <1>2. \A x \in Tokens : /\ token'[x].state = token[x].state
                          /\ token'[x].parent = token[x].parent
                          /\ token'[x].shared = token[x].shared
    BY ExpireTyped
  <1>3. \A x : Exchanging(x)' <=> Exchanging(x)
    BY <1>1 DEF Exchanging
  <1>4. Parents' = Parents /\ \A x : Heirs(x)' = Heirs(x)
    BY <1>2, ParentsKept
  <1>5. \A x \in Tokens \ {t} : RightOf(x)' = RightOf(x)
    BY <1>1, <1>3, <1>4, RightKept
  <1>6. CASE token[t].shared \/ Exchanging(t)
    <2>1. RightOf(t)' = RightOf(t)
      BY <1>2, <1>3, <1>6 DEF RightOf
    <2>. QED
      BY <1>4, <1>5, <2>1 DEF Rights
  <1>7. CASE ~token[t].shared /\ ~Exchanging(t)
    <2>1. Rights[t] = "usable" /\ Heirs(t)' = {}
      BY <1>1, <1>4, <1>7 DEF Rights, RightOf, OneHeir
    <2>2. RightOf(t)' = "ended"
      BY <1>1, <1>2, <1>3, <1>7, <2>1 DEF RightOf
    <2>3. Rights' = [x \in Tokens |-> IF x \in {t} THEN "ended" ELSE Rights[x]]
      BY <1>5, <2>2 DEF Rights
    <2>4. {t} \in SUBSET {x \in Tokens : Rights[x] = "usable"}
      BY <2>1
    <2>. QED
      BY <1>4, <2>3, <2>4 DEF Ledger!LedgerNext, Ledger!End
  <1>. QED
    BY <1>6, <1>7

\* A request arrives or is served: the ledger takes one step, or none.
LEMMA RequestStep ==
    ASSUME TInv, NEW h \in Handlers,
           \/ \E u \in Users : \/ Login(h, u) \/ ChangePhone(h, u) \/ ResetPin(h, u)
                               \/ \E t \in Tokens : Logout(h, u, t)
           \/ Answer(h)
    PROVE  UNCHANGED <<Rights, Parents>>
  <1>1. token' = token /\ serve[h].pc \in Ended
    BY DEF Login, ChangePhone, ResetPin, Logout, Answer, Arrive, Ended
  <1>2. ASSUME NEW op, NEW u, NEW t, NEW pc, Arrive(h, op, u, t, pc), op # "refresh"
        PROVE  ~InExchange(h)' /\ \A g \in Handlers \ {h} : serve'[g] = serve[g]
    BY <1>2 DEF Arrive, InExchange, TInv, TokenTypeOK
  <1>3. CASE Answer(h)
    <2>1. ~InExchange(h)' /\ \A g \in Handlers \ {h} : serve'[g] = serve[g]
      BY <1>3 DEF Answer, NoRequest, InExchange, TInv, TokenTypeOK
    <2>. QED
      BY <1>1, <2>1, QuietStep DEF InExchange, Ended
  <1>4. CASE ~Answer(h)
    <2>1. ~InExchange(h)' /\ \A g \in Handlers \ {h} : serve'[g] = serve[g]
      BY <1>2, <1>4 DEF Login, ChangePhone, ResetPin, Logout
    <2>. QED
      BY <1>1, <2>1, QuietStep DEF InExchange, Ended
  <1>. QED
    BY <1>3, <1>4

LEMMA ServedStep ==
    ASSUME TInv, TInv', OneRefresh, OneHeir, NEW h \in Handlers,
           ServeStep(h) \/ CallFails(h) \/ ReplyLost(h)
    PROVE  UNCHANGED <<Rights, Parents>> \/ Ledger!LedgerNext
  <1> DEFINE Goal == UNCHANGED <<Rights, Parents>> \/ Ledger!LedgerNext
  <1>0. ServePC = {"idle", "read", "revokeOld", "revokeAll", "revokeOne", "issue",
                   "ok", "refused", "error"}
    BY DEF ServePC
  <1>1. ASSUME NEW pc \in ServePC, To(h, pc), ~InExchange(h),
               serve[h].op = "refresh" => pc \notin {"revokeOld", "issue"},
               (UNCHANGED token) \/ \E S : Revoke(S)
        PROVE  Goal
    <2>1. /\ ~InExchange(h)' /\ \A g \in Handlers \ {h} : serve'[g] = serve[g]
      BY <1>1, ToEffect DEF TInv, InExchange
    <2>. QED
      BY <1>1, <2>1, QuietStep, RevokeEnds
  <1>2. ASSUME NEW x \in Tokens, serve[h].pc = "issue", Create(h, x),
               \/ serve' = [serve EXCEPT ![h].pc = "ok", ![h].issued = x]
               \/ To(h, "error")
        PROVE  Goal
    <2>1. /\ serve'[h].pc \in {"ok", "error"} /\ serve'[h].op = serve[h].op
          /\ serve'[h].given = serve[h].given
          /\ \A g \in Handlers \ {h} : serve'[g] = serve[g]
      BY <1>0, <1>2, IssueEffect, ToEffect DEF TInv
    <2>. QED
      BY <1>2, <2>1, CreateGives
  <1>3. ASSUME InExchange(h), To(h, "error"), (UNCHANGED token) \/ Revoke({serve[h].given})
        PROVE  Goal
    BY <1>3, ExchangeFails
  <1>4. CASE RotateReused(h) \/ RotateExpired(h) \/ LogoutRead(h)
    <2>1. PICK pc \in {"revokeAll", "refused", "revokeOne", "ok"} : To(h, pc) /\ UNCHANGED token
      BY <1>4 DEF RotateReused, RotateExpired, LogoutRead
    <2>2. ~InExchange(h)
      BY <1>4 DEF RotateReused, RotateExpired, LogoutRead, InExchange
    <2>. QED
      BY <1>0, <1>1, <2>1, <2>2
  <1>5. CASE RotateAccepted(h)
    BY <1>5, AcceptedTakes DEF Ledger!LedgerNext
  <1>6. CASE RevokeOld(h)
    BY <1>6, RevokeOldQuiet
  <1>7. CASE Issue(h)
    BY <1>2, <1>7 DEF Issue
  <1>8. CASE RevokeAll(h)
    <2>1. serve[h].pc = "revokeAll" /\ serve[h].op \in {"refresh", "changePhone", "resetPin"}
      BY <1>8 DEF RevokeAll, TInv, ServeShape
    <2>2. PICK pc \in {"refused", "ok", "issue"} :
                To(h, pc) /\ (serve[h].op = "refresh" => pc = "refused")
      BY <1>8, <2>1 DEF RevokeAll
    <2>3. \E S : Revoke(S)
      BY <1>8 DEF RevokeAll, RevokeAllForUser
    <2>4. ~InExchange(h)
      BY <2>1 DEF InExchange
    <2>. QED
      BY <1>0, <1>1, <2>2, <2>3, <2>4
  <1>9. CASE RevokeOne(h)
    <2>1. ~InExchange(h) /\ To(h, "ok") /\ \E S : Revoke(S)
      BY <1>9 DEF RevokeOne, InExchange
    <2>. QED
      BY <1>0, <1>1, <2>1
  <1>10. CASE CallFails(h)
    BY <1>0, <1>1, <1>3, <1>10 DEF CallFails
  <1>11. CASE ReplyLost(h)
    <2>1. To(h, "error")
      BY <1>11 DEF ReplyLost
    <2>2. CASE \E t \in Tokens : serve[h].pc = "issue" /\ Create(h, t)
      BY <1>2, <2>1, <2>2
    <2>3. CASE serve[h].pc \in {"revokeOld", "revokeOne"} /\ Revoke({serve[h].given})
      BY <1>0, <1>1, <1>3, <2>1, <2>3
    <2>4. CASE serve[h].pc = "revokeAll" /\ RevokeAllForUser(h)
      <3>1. ~InExchange(h) /\ \E S : Revoke(S)
        BY <2>4 DEF InExchange, RevokeAllForUser
      <3>. QED
        BY <1>0, <1>1, <2>1, <3>1
    <2>. QED
      BY <1>11, <2>2, <2>3, <2>4 DEF ReplyLost
  <1>. QED
    BY <1>4, <1>5, <1>6, <1>7, <1>8, <1>9, <1>10, <1>11 DEF ServeStep

LEMMA LedgerStep ==
    ASSUME TInv, TInv', OneRefresh, OneHeir, [TokenNext]_tokenVars
    PROVE  [Ledger!LedgerNext]_<<Rights, Parents>>
  <1>1. CASE UNCHANGED tokenVars
    <2>1. Rights' = Rights /\ Parents' = Parents
      BY <1>1 DEF tokenVars, Rights, Parents, RightOf, Exchanging, Heirs
    <2>. QED
      BY <2>1
  <1>2. ASSUME NEW h \in Handlers, NEW t \in Tokens, Refresh(h, t)
        PROVE  UNCHANGED <<Rights, Parents>> \/ Ledger!LedgerNext
    BY <1>2, RefreshContests DEF Ledger!LedgerNext
  <1>. QED
    BY <1>1, <1>2, RequestStep, ServedStep, ExpireEnds DEF TokenNext

\* Whatever requests interleave, fail and lose replies between their calls, to
\* each token happens only what the ledger lets happen in one piece.
THEOREM TokenLedgerImplemented == TokenSpec => TokenLedgerSpec
  <1>1. TokenInit => OneRefresh /\ OneHeir /\ Ledger!LedgerInit
    <2>1. ASSUME TokenInit, NEW t \in Tokens
          PROVE  Heirs(t) = {} /\ RightOf(t) = "none" /\ token[t].parent = None
      BY <2>1, NoneIsNoToken DEF TokenInit, NoToken, Heirs, RightOf
    <2>2. ASSUME TokenInit, NEW h \in Handlers PROVE serve[h].pc \in Ended
      BY <2>2 DEF TokenInit, NoRequest, Ended
    <2>. QED
      BY <2>1, <2>2 DEF OneRefresh, OneHeir, Refreshes, Ledger!LedgerInit, Rights, Parents
  <1>2. TInv /\ OneRefresh /\ OneHeir /\ [TokenNext]_tokenVars
            => (TInv /\ OneRefresh /\ OneHeir)' /\ [Ledger!LedgerNext]_<<Rights, Parents>>
    BY NextTyped, OneRefreshInductive, OneHeirInductive, LedgerStep
  <1>. QED
    BY <1>1, <1>2, InitTyped, PTL DEF TokenSpec, TokenLedgerSpec, Ledger!LedgerSpec
============================================================================

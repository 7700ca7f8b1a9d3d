--------------------------- MODULE SessionProofs ---------------------------
(***************************************************************************)
(* Proofs about MobileSession, for every set of users, requests and calls, *)
(* any number of tokens and any accidents.                                 *)
(***************************************************************************)
EXTENDS MobileSession, RefreshTokensProofs

----------------------------------------------------------------------------
(* What a task carries at each place of its code                           *)

Fits(k, t) ==
    /\ t.via # None <=> t.pc = "sent"
    /\ t.pc \in {"idle", "store", "publish", "clear", "left"} => t.req = None
    /\ t.pc = "read" => t.req \in {"refresh", "logout"}
    /\ t.pc \in {"out", "wait"} => t.req # None
    /\ t.pc = "sent" => t.req \in {"refresh", "login", "logout"}
    /\ t.pc = "ok" => t.req \in {"me", "call"}
    /\ t.pc = "refused" => t.req \in {"me", "call", "logout", "login"}
    /\ t.req = "refresh" => k \in {"restore", "refresher"} /\ (t.pc = "read" \/ t.body # None)
    /\ t.req = "logout" => t.pc = "read" \/ t.body # None
    /\ t.req \in {"me", "call", "login"} => t.body = None
    /\ k = "refresher" => t.req \in {"refresh", None}

TasksFit == \A k \in Tasks : Fits(k, task[k])

\* The handler a task waits for has its request, and no other task's.
Served(k) == /\ serve[task[k].via].pc # "idle"
             /\ serve[task[k].via].op = task[k].req
             /\ serve[task[k].via].given = task[k].body

ViaOK ==
    \A k \in Tasks : task[k].via # None =>
        /\ Served(k)
        /\ \A j \in Tasks : task[j].via = task[k].via => j = k

\* Every token somebody has was issued.
Known ==
    /\ stored \in Issued \cup {None}
    /\ \A k \in Tasks : task[k].body \in Issued \cup {None}
                        /\ task[k].pair \in Issued \cup {None}
    /\ \A h \in Handlers : serve[h].issued \in Issued \cup {None}

AppTypes ==
    /\ app \in AppState
    /\ stored \in Tokens \cup {None}
    /\ lapsed \in 0..MaxTokens
    /\ task \in [Tasks -> TaskState]
    /\ accidents \in Worlds

BaseInv == TInv /\ AppTypes /\ TasksFit /\ ViaOK /\ Known

LEMMA NoneIsNothing == None \notin Tokens \cup Handlers \cup Requests
  BY NoneIsNoToken, SessionAssumption

LEMMA TaskNames ==
    /\ {"restore", "login", "leave", "refresher"} \subseteq Tasks /\ Calls \subseteq Tasks
    /\ Calls \cap {"restore", "login", "leave", "refresher"} = {}
  BY SessionAssumption DEF Tasks

LEMMA DoFields ==
    \A pc, req : /\ Do(pc, req).pc = pc /\ Do(pc, req).req = req
                 /\ Do(pc, req).cred = None /\ Do(pc, req).body = None
                 /\ Do(pc, req).via = None /\ Do(pc, req).pair = None
                 /\ ~Do(pc, req).retried
  BY DEF Do, NoTask

LEMMA DoTypes ==
    /\ Do("out", "login") \in TaskState /\ Do("out", "call") \in TaskState
    /\ Do("out", "me") \in TaskState /\ Do("read", "logout") \in TaskState
    /\ Do("read", "refresh") \in TaskState /\ Do("store", None) \in TaskState
    /\ Do("publish", None) \in TaskState /\ Do("clear", None) \in TaskState
  <1>1. /\ {"out", "read", "store", "publish", "clear"} \subseteq TaskPC
        /\ {"login", "call", "me", "logout", "refresh"} \subseteq Requests
    BY DEF TaskPC, Requests
  <1>. QED
    BY <1>1 DEF Do, NoTask, TaskState

LEMMA NoTaskFields ==
    /\ NoTask.pc = "idle" /\ NoTask.req = None
    /\ NoTask.cred = None /\ NoTask.body = None
    /\ NoTask.via = None /\ NoTask.pair = None
    /\ NoTask.retried = FALSE
    /\ NoTask \in TaskState
  BY DEF NoTask, TaskState, TaskPC

LEMMA SetEffect ==
    ASSUME AppTypes, NEW k \in Tasks, NEW t, Set(k, t)
    PROVE  /\ task'[k] = t
           /\ \A j \in Tasks \ {k} : task'[j] = task[j]
           /\ t \in TaskState => task' \in [Tasks -> TaskState]
  BY DEF Set, AppTypes

----------------------------------------------------------------------------
(* What the server does in a step                                          *)

LEMMA ToIssued ==
    ASSUME TokenTypeOK, NEW h \in Handlers, NEW pc, To(h, pc)
    PROVE  serve'[h].issued = serve[h].issued
  <1>1. serve[h] \in ServeState
    BY DEF TokenTypeOK
  <1>2. serve'[h] = [serve[h] EXCEPT !.pc = pc]
    BY DEF To, TokenTypeOK
  <1>. QED
    BY <1>1, <1>2 DEF ServeState

LEMMA ArriveEffect ==
    ASSUME TokenTypeOK, NEW h \in Handlers, NEW op, NEW u, NEW t, NEW pc,
           Arrive(h, op, u, t, pc)
    PROVE  /\ serve[h].pc = "idle"
           /\ serve'[h].pc = pc /\ serve'[h].op = op /\ serve'[h].given = t
           /\ serve'[h].issued = None
           /\ \A g \in Handlers \ {h} : serve'[g] = serve[g]
  BY DEF Arrive, TokenTypeOK

LEMMA AnswerEffect ==
    ASSUME TokenTypeOK, NEW h \in Handlers, Answer(h)
    PROVE  /\ UNCHANGED token
           /\ serve[h].pc \in Ended \ {"idle"}
           /\ serve'[h].pc = "idle" /\ serve'[h].op = None /\ serve'[h].given = None
           /\ serve'[h].issued = None
           /\ \A g \in Handlers \ {h} : serve'[g] = serve[g]
  BY DEF Answer, TokenTypeOK, NoRequest

\* The request at h makes token t.
Makes(h, t) ==
    /\ serve[h].pc = "issue" /\ serve'[h].pc = "ok" /\ serve'[h].issued = t
    /\ t \notin Issued /\ Issued' = Issued \cup {t}
    /\ token'[t].parent = serve[h].given /\ ~token'[t].shared
    /\ \A x \in Tokens \ {t} : token'[x] = token[x]

SameRowsButState ==
    /\ Issued' = Issued
    /\ \A x \in Tokens : /\ token'[x].parent = token[x].parent
                         /\ token'[x].shared <=> token[x].shared

LEMMA MakesEffect ==
    ASSUME TInv, NEW h \in Handlers, Issue(h)
    PROVE  \E t \in Tokens : Makes(h, t)
  <1>1. PICK t \in Tokens : /\ Create(h, t)
                            /\ serve' = [serve EXCEPT ![h].pc = "ok", ![h].issued = t]
    BY DEF Issue
  <1>2. serve[h].pc = "issue" /\ serve[h].user \in Users
    BY DEF Issue, TInv, ServeShape, Ended
  <1>3. /\ Issued' = Issued \cup {t} /\ t \notin Issued
        /\ token'[t].parent = serve[h].given
        /\ \A x \in Tokens \ {t} : token'[x] = token[x]
    BY <1>1, <1>2, CreateEffect DEF TInv
  <1>4. serve'[h].pc = "ok" /\ serve'[h].issued = t
    <2>1. serve[h] \in ServeState
      BY DEF TInv, TokenTypeOK
    <2>2. serve'[h] = [serve[h] EXCEPT !.pc = "ok", !.issued = t]
      BY <1>1 DEF TInv, TokenTypeOK
    <2>. QED
      BY <2>1, <2>2 DEF ServeState
  <1>5. token'[t].shared = FALSE
    BY <1>1 DEF Create, TInv, TokenTypeOK
  <1>. QED
    BY <1>2, <1>3, <1>4, <1>5 DEF Makes

LEMMA ServeEffect ==
    ASSUME TInv, NEW h \in Handlers, ServeStep(h)
    PROVE  /\ serve[h].pc \notin Ended /\ serve'[h].pc # "idle"
           /\ serve'[h].op = serve[h].op /\ serve'[h].given = serve[h].given
           /\ \A g \in Handlers \ {h} : serve'[g] = serve[g]
           /\ \/ \E t \in Tokens : Makes(h, t)
              \/ SameRowsButState /\ serve'[h].issued = serve[h].issued
  <1>0. /\ ServePC = {"idle", "read", "revokeOld", "revokeAll", "revokeOne", "issue",
                      "ok", "refused", "error"}
        /\ Ended = {"idle", "ok", "refused", "error"}
    BY DEF ServePC, Ended
  <1>1. CASE Issue(h)
    <2>1. PICK t \in Tokens : serve' = [serve EXCEPT ![h].pc = "ok", ![h].issued = t]
      BY <1>1 DEF Issue
    <2>. QED
      BY <1>0, <1>1, <2>1, IssueEffect, MakesEffect DEF Issue, TInv
  <1>2. CASE ~Issue(h)
    <2>1. PICK pc \in ServePC \ {"idle"} : To(h, pc)
      <3>1. CASE RevokeAll(h)
        <4>1. serve[h].op \in {"refresh", "changePhone", "resetPin"}
          BY <3>1 DEF RevokeAll, TInv, ServeShape
        <4>2. To(h, "refused") \/ To(h, "ok") \/ To(h, "issue")
          BY <3>1, <4>1 DEF RevokeAll
        <4>. QED
          BY <1>0, <4>2
      <3>2. CASE ~RevokeAll(h)
        BY <1>0, <1>2, <3>2 DEF ServeStep, RotateReused, RotateExpired, RotateAccepted,
                                RevokeOld, LogoutRead, RevokeOne
      <3>. QED
        BY <3>1, <3>2
    <2>2. UNCHANGED token \/ \E S : Revoke(S)
      BY <1>2 DEF ServeStep, RotateReused, RotateExpired, RotateAccepted, RevokeOld,
                  RevokeAll, RevokeAllForUser, LogoutRead, RevokeOne
    <2>3. SameRowsButState
      <3>1. CASE UNCHANGED token
        BY <3>1 DEF SameRowsButState, Issued
      <3>2. CASE \E S : Revoke(S)
        BY <3>2, RevokeEffect DEF SameRowsButState, TInv
      <3>. QED
        BY <2>2, <3>1, <3>2
    <2>4. serve[h].pc \notin Ended
      BY <1>0, <1>2 DEF ServeStep, RotateReused, RotateExpired, RotateAccepted, RevokeOld,
                        RevokeAll, LogoutRead, RevokeOne
    <2>. QED
      BY <2>1, <2>3, <2>4, ToEffect, ToIssued DEF TInv
  <1>. QED
    BY <1>1, <1>2

----------------------------------------------------------------------------
(* The base invariant                                                      *)

\* The handler at h, if it serves a request, goes on serving it.
Keeps(h) == /\ serve[h].pc # "idle" => serve'[h].pc # "idle"
            /\ serve'[h].op = serve[h].op /\ serve'[h].given = serve[h].given

\* Task k has the shape of its place after the step, and whom it waited for
\* it waits for still, or nobody.
Goes(k) ==
    /\ task'[k] \in TaskState /\ Fits(k, task'[k])
    /\ task'[k].body \in Issued \cup {None} /\ task'[k].pair \in Issued \cup {None}
    /\ task'[k].via # None => /\ task'[k].via = task[k].via
                              /\ task'[k].req = task[k].req /\ task'[k].body = task[k].body
                              /\ Keeps(task[k].via)

LEMMA IssuedGrows ==
    ASSUME TInv, [TokenNext]_tokenVars
    PROVE  Issued \subseteq Issued'
  <1>1. CASE Kept
    BY <1>1 DEF Kept, Issued
  <1>2. ASSUME NEW h \in Handlers, NEW t \in Tokens, serve[h].pc = "issue", Create(h, t)
        PROVE  Issued \subseteq Issued'
    BY <1>2, CreateEffect DEF TInv, ServeShape, Ended
  <1>. QED
    BY <1>1, <1>2, TokenMoves

LEMMA AllGo ==
    ASSUME BaseInv, [TokenNext]_tokenVars, UNCHANGED accidents,
           app' \in AppState, stored' \in Issued \cup {None}, lapsed' \in 0..MaxTokens,
           task' \in [Tasks -> TaskState], \A k \in Tasks : Goes(k),
           \A h \in Handlers : serve'[h].issued \in Issued' \cup {None}
    PROVE  BaseInv'
  <1>1. TInv'
    BY NextTyped DEF BaseInv
  <1>2. Issued \subseteq Issued'
    BY IssuedGrows DEF BaseInv
  <1>3. AppTypes'
    <2>1. stored' \in Tokens \cup {None}
      BY DEF Issued
    <2>. QED
      BY <2>1 DEF AppTypes, BaseInv
  <1>4. TasksFit'
    BY DEF Goes, TasksFit
  <1>5. ViaOK'
    <2>. SUFFICES ASSUME NEW k \in Tasks, task'[k].via # None
                  PROVE  /\ Served(k)'
                         /\ \A j \in Tasks : task'[j].via = task'[k].via => j = k
      BY DEF ViaOK, Served
    <2>1. task'[k].via = task[k].via /\ Keeps(task[k].via)
          /\ task'[k].req = task[k].req /\ task'[k].body = task[k].body
      BY DEF Goes
    <2>2. Served(k) /\ \A j \in Tasks : task[j].via = task[k].via => j = k
      BY <2>1 DEF BaseInv, ViaOK
    <2>3. Served(k)'
      BY <2>1, <2>2 DEF Served, Keeps
    <2>4. ASSUME NEW j \in Tasks, task'[j].via = task'[k].via PROVE j = k
      <3>1. task'[j].via = task[j].via
        BY <2>4 DEF Goes
      <3>. QED
        BY <2>1, <2>2, <2>4, <3>1
    <2>. QED
      BY <2>3, <2>4
  <1>6. Known'
    BY <1>2 DEF Goes, Known
  <1>. QED
    BY <1>1, <1>3, <1>4, <1>5, <1>6 DEF BaseInv

\* A task that the step leaves alone, and the handler it waits for.
LEMMA StaysPut ==
    ASSUME BaseInv, NEW k \in Tasks, task'[k] = task[k],
           task[k].via # None => Keeps(task[k].via)
    PROVE  Goes(k)
  BY DEF BaseInv, AppTypes, TasksFit, Known, Goes

\* A task that waits for nobody after the step.
LEMMA GoesAlone ==
    ASSUME NEW k \in Tasks, task'[k] \in TaskState, Fits(k, task'[k]), task'[k].via = None,
           task'[k].body \in Issued \cup {None}, task'[k].pair \in Issued \cup {None}
    PROVE  Goes(k)
  BY DEF Goes

LEMMA QuietKeeps ==
    ASSUME UNCHANGED serve, NEW h \in Handlers
    PROVE  Keeps(h)
  BY DEF Keeps

\* The answer that task k gets is nobody else's.
LEMMA AnsweredEffect ==
    ASSUME BaseInv, NEW k \in Tasks, NEW outcome, outcome \in {"ok", "refused"},
           Answered(k, outcome)
    PROVE  /\ [TokenNext]_tokenVars /\ UNCHANGED token
           /\ \A j \in Tasks \ {k} : task[j].via # None => Keeps(task[j].via)
           /\ \A h \in Handlers : serve'[h] = serve[h]
                    \/ (/\ h = task[k].via /\ serve[h].pc = outcome
                        /\ serve'[h].pc = "idle" /\ serve'[h].issued = None)
           /\ task[k].pc = outcome \/ (task[k].pc = "sent" /\ task[k].via \in Handlers
                   /\ serve[task[k].via].pc = outcome /\ serve'[task[k].via].issued = None
                   /\ serve'[task[k].via].pc = "idle")
  <1>1. CASE task[k].pc = outcome /\ UNCHANGED tokenVars
    <2>1. \A j \in Tasks : task[j].via # None => Keeps(task[j].via)
      BY <1>1 DEF tokenVars, Keeps
    <2>. QED
      BY <1>1, <2>1 DEF tokenVars
  <1>2. CASE task[k].pc = "sent" /\ serve[task[k].via].pc = outcome /\ Answer(task[k].via)
    <2>1. task[k] \in TaskState /\ task[k].via # None /\ task[k].via \in Handlers
      BY <1>2 DEF BaseInv, AppTypes, TasksFit, Fits, TaskState
    <2>. DEFINE v == task[k].via
    <2>2. /\ UNCHANGED token /\ serve'[v].issued = None /\ serve'[v].pc = "idle"
          /\ \A g \in Handlers \ {v} : serve'[g] = serve[g]
      BY <1>2, <2>1, AnswerEffect DEF BaseInv, TInv
    <2>3. ASSUME NEW j \in Tasks \ {k}, task[j].via # None
          PROVE  Keeps(task[j].via)
      <3>1. task[j].via \in Handlers \ {v}
        <4>1. task[j].via \in Handlers
          BY <2>3 DEF BaseInv, AppTypes, TaskState
        <4>2. task[j].via # v
          BY <2>1, <2>3 DEF BaseInv, ViaOK
        <4>. QED
          BY <4>1, <4>2
      <3>2. serve'[task[j].via] = serve[task[j].via]
        BY <2>2, <3>1
      <3>. QED
        BY <3>2 DEF Keeps
    <2>4. TokenNext
      BY <1>2, <2>1 DEF TokenNext
    <2>. QED
      BY <1>2, <2>1, <2>2, <2>3, <2>4
  <1>. QED
    BY <1>1, <1>2 DEF Answered

----------------------------------------------------------------------------
(* What the steps of the app do                                            *)

Only(k) == \A j \in Tasks \ {k} : task'[j] = task[j]

\* The task that starts a request of the user.
Starts(k) ==
    /\ Only(k) /\ task' \in [Tasks -> TaskState]
    /\ task[k].pc = "idle"
    /\ \/ task'[k].pc = "out" /\ task'[k].req \in {"login", "call"}
       \/ task'[k].pc = "read" /\ task'[k].req = "logout"
    /\ task'[k].body = None /\ task'[k].pair = None /\ task'[k].via = None
    /\ UNCHANGED <<tokenVars, app, stored, lapsed>>
    /\ app.status # "unknown" \/ "eager" \in accidents

LEMMA StartEffect ==
    ASSUME BaseInv, StartLogin \/ StartLeave \/ \E k \in Calls : StartCall(k)
    PROVE  \E k \in Tasks \ {"restore", "refresher"} : Starts(k)
  <1>0. AppTypes
    BY DEF BaseInv
  <1>1. CASE StartLogin
    <2>. DEFINE r == Do("out", "login")
    <2>1. r \in TaskState /\ r.pc = "out" /\ r.req = "login" /\ r.body = None
          /\ r.pair = None /\ r.via = None
      BY DoFields, DoTypes
    <2>2. Set("login", r)
      BY <1>1 DEF StartLogin
    <2>. HIDE DEF r
    <2>3. "login" \in Tasks \ {"restore", "refresher"}
      BY TaskNames
    <2>4. Starts("login")
      BY <1>0, <1>1, <2>1, <2>2, <2>3, SetEffect DEF StartLogin, Starts, Only
    <2>. QED
      BY <2>3, <2>4
  <1>2. CASE StartLeave
    <2>. DEFINE r == Do("read", "logout")
    <2>1. r \in TaskState /\ r.pc = "read" /\ r.req = "logout" /\ r.body = None
          /\ r.pair = None /\ r.via = None
      BY DoFields, DoTypes
    <2>2. Set("leave", r)
      BY <1>2 DEF StartLeave
    <2>. HIDE DEF r
    <2>3. "leave" \in Tasks \ {"restore", "refresher"}
      BY TaskNames
    <2>4. Starts("leave")
      BY <1>0, <1>2, <2>1, <2>2, <2>3, SetEffect DEF StartLeave, Starts, Only
    <2>. QED
      BY <2>3, <2>4
  <1>3. ASSUME NEW k \in Calls, StartCall(k)
        PROVE  k \in Tasks \ {"restore", "refresher"} /\ Starts(k)
    <2>. DEFINE d == Do("out", "call")
                r == [d EXCEPT !.cred = app.access]
    <2>1. d \in TaskState /\ d.pc = "out" /\ d.req = "call" /\ d.body = None
          /\ d.pair = None /\ d.via = None
      BY DoFields, DoTypes
    <2>2. Set(k, r)
      BY <1>3 DEF StartCall
    <2>. HIDE DEF d
    <2>3. r \in TaskState /\ r.pc = "out" /\ r.req = "call" /\ r.body = None
          /\ r.pair = None /\ r.via = None
      BY <1>0, <2>1 DEF TaskState, AppTypes, AppState
    <2>. HIDE DEF r
    <2>4. k \in Tasks \ {"restore", "refresher"}
      BY TaskNames
    <2>5. Starts(k)
      BY <1>0, <1>3, <2>2, <2>3, <2>4, SetEffect DEF StartCall, Starts, Only
    <2>. QED
      BY <2>4, <2>5
  <1>. QED
    BY <1>1, <1>2, <1>3

LEMMA StartBase ==
    ASSUME BaseInv, NEW k \in Tasks \ {"restore", "refresher"}, Starts(k), UNCHANGED accidents
    PROVE  BaseInv'
  <1>1. \A j \in Tasks \ {k} : Goes(j)
    BY StaysPut DEF Starts, Only, tokenVars, Keeps
  <1>2. Goes(k)
    <2>1. Fits(k, task'[k])
      BY NoneIsNothing DEF Starts, Fits, Requests
    <2>. QED
      BY <2>1, GoesAlone DEF Starts
  <1>3. /\ app' \in AppState /\ stored' \in Issued \cup {None} /\ lapsed' \in 0..MaxTokens
        /\ task' \in [Tasks -> TaskState] /\ [TokenNext]_tokenVars
    BY DEF Starts, BaseInv, AppTypes, Known
  <1>4. \A h \in Handlers : serve'[h].issued \in Issued' \cup {None}
    BY DEF Starts, tokenVars, BaseInv, Known, Issued
  <1>. QED
    BY <1>1, <1>2, <1>3, <1>4, AllGo

LEMMA ReadEffect ==
    ASSUME BaseInv, NEW k \in Tasks, ReadStored(k)
    PROVE  /\ Only(k) /\ task' \in [Tasks -> TaskState]
           /\ task[k].pc = "read" /\ stored # None
           /\ task'[k].pc = "out" /\ task'[k].req = task[k].req
           /\ task'[k].body = stored /\ task'[k].pair = task[k].pair
           /\ task[k].via = None /\ task'[k].via = None
           /\ UNCHANGED <<tokenVars, app, stored, lapsed>>
  <1>. DEFINE t == task[k]
              r == [t EXCEPT !.pc = "out", !.body = stored, !.cred = app.access]
  <1>0. AppTypes
    BY DEF BaseInv
  <1>1. t \in TaskState
    BY <1>0 DEF AppTypes
  <1>2. t.pc = "read" /\ stored # None /\ Set(k, r)
        /\ UNCHANGED <<tokenVars, app, stored, lapsed>>
    BY DEF ReadStored
  <1>3. t.via = None
    BY <1>2 DEF BaseInv, TasksFit, Fits
  <1>. HIDE DEF t
  <1>4. /\ r \in TaskState /\ r.pc = "out" /\ r.req = t.req /\ r.body = stored
        /\ r.pair = t.pair /\ r.via = t.via
    BY <1>0, <1>1 DEF TaskState, AppTypes, AppState, TaskPC
  <1>. HIDE DEF r
  <1>5. task'[k] = r /\ Only(k) /\ task' \in [Tasks -> TaskState]
    BY <1>0, <1>2, <1>4, SetEffect DEF Only
  <1>. QED
    BY <1>2, <1>3, <1>4, <1>5 DEF t

LEMMA ReadBase ==
    ASSUME BaseInv, NEW k \in Tasks, ReadStored(k), UNCHANGED accidents
    PROVE  BaseInv'
  <1>1. \A j \in Tasks \ {k} : Goes(j)
    BY StaysPut, ReadEffect DEF Only, tokenVars, Keeps
  <1>2. Goes(k)
    <2>1. Fits(k, task'[k])
      BY ReadEffect, NoneIsNothing DEF Fits, BaseInv, TasksFit, Requests
    <2>. QED
      BY <2>1, GoesAlone, ReadEffect DEF BaseInv, Known
  <1>3. /\ app' \in AppState /\ stored' \in Issued \cup {None} /\ lapsed' \in 0..MaxTokens
        /\ task' \in [Tasks -> TaskState] /\ [TokenNext]_tokenVars
    BY ReadEffect DEF BaseInv, AppTypes, Known
  <1>4. \A h \in Handlers : serve'[h].issued \in Issued' \cup {None}
    BY ReadEffect DEF tokenVars, BaseInv, Known, Issued
  <1>. QED
    BY <1>1, <1>2, <1>3, <1>4, AllGo

LEMMA WakeEffect ==
    ASSUME AppTypes, NEW p \in Tokens \cup {None}, task' = Wake(p)
    PROVE  /\ task' \in [Tasks -> TaskState]
           /\ task'["refresher"] = NoTask
           /\ \A j \in Tasks \ {"refresher"} :
                /\ task[j].pc # "wait" => task'[j] = task[j]
                /\ task[j].pc = "wait" /\ p = None => task'[j] = Do("read", "logout")
                /\ task[j].pc = "wait" /\ p # None =>
                    /\ task'[j].pc = "out"
                    /\ task'[j].req = task[j].req /\ task'[j].body = task[j].body
                    /\ task'[j].via = task[j].via /\ task'[j].pair = task[j].pair
  <1>. DEFINE Sent(t) == [t EXCEPT !.pc = "out", !.cred = p, !.retried = TRUE]
  <1>1. ASSUME NEW t \in TaskState
        PROVE  /\ Sent(t) \in TaskState /\ Sent(t).pc = "out" /\ Sent(t).req = t.req
               /\ Sent(t).body = t.body /\ Sent(t).via = t.via /\ Sent(t).pair = t.pair
    BY <1>1 DEF TaskState, TaskPC
  <1>2. Do("read", "logout") \in TaskState /\ NoTask \in TaskState
    BY DoTypes, NoTaskFields
  <1>3. task' = [j \in Tasks |-> IF j = "refresher" THEN NoTask
                                 ELSE IF task[j].pc # "wait" THEN task[j]
                                 ELSE IF p = None THEN Do("read", "logout")
                                 ELSE Sent(task[j])]
    BY DEF Wake
  <1>. HIDE DEF Sent
  <1>4. \A j \in Tasks : task[j] \in TaskState
    BY DEF AppTypes
  <1>5. \A j \in Tasks : task'[j] = IF j = "refresher" THEN NoTask
                                    ELSE IF task[j].pc # "wait" THEN task[j]
                                    ELSE IF p = None THEN Do("read", "logout")
                                    ELSE Sent(task[j])
    BY <1>3, Zenon
  <1>6. \A j \in Tasks : task'[j] \in TaskState
    BY <1>1, <1>2, <1>4, <1>5
  <1>7. task' \in [Tasks -> TaskState]
    BY <1>3, <1>6
  <1>. QED
    BY <1>1, <1>4, <1>5, <1>7, TaskNames

\* The end of the shared refresh keeps every task in shape.
LEMMA WakeGoes ==
    ASSUME BaseInv, NEW p \in Tokens \cup {None}, task' = Wake(p), UNCHANGED serve,
           NEW j \in Tasks
    PROVE  Goes(j)
  <1>0. AppTypes
    BY DEF BaseInv
  <1>1. CASE j = "refresher"
    <2>1. Fits(j, NoTask)
      BY NoTaskFields, NoneIsNothing DEF Fits, Requests
    <2>. QED
      BY <1>0, <1>1, <2>1, WakeEffect, GoesAlone, NoTaskFields
  <1>2. CASE j # "refresher" /\ task[j].pc # "wait"
    BY <1>0, <1>2, WakeEffect, StaysPut DEF Keeps
  <1>3. CASE j # "refresher" /\ task[j].pc = "wait" /\ p = None
    <2>1. task'[j] = Do("read", "logout")
      BY <1>0, <1>3, WakeEffect
    <2>2. Fits(j, task'[j])
      BY <1>3, <2>1, DoFields, NoneIsNothing DEF Fits, Requests
    <2>. QED
      BY <2>1, <2>2, GoesAlone, DoFields, DoTypes
  <1>4. CASE j # "refresher" /\ task[j].pc = "wait" /\ p # None
    <2>1. /\ task'[j].pc = "out" /\ task'[j].req = task[j].req
          /\ task'[j].body = task[j].body /\ task'[j].via = task[j].via
          /\ task'[j].pair = task[j].pair /\ task'[j] \in TaskState
      BY <1>0, <1>4, WakeEffect
    <2>2. Fits(j, task[j])
      BY DEF BaseInv, TasksFit
    <2>3. Fits(j, task'[j])
      BY <1>4, <2>1, <2>2 DEF Fits
    <2>. QED
      BY <1>4, <2>1, <2>2, <2>3, GoesAlone DEF BaseInv, Known, Fits
  <1>. QED
    BY <1>1, <1>2, <1>3, <1>4

\* A step that changes task k alone, which then waits for nobody.
LEMMA OnlyGoes ==
    ASSUME BaseInv, NEW k \in Tasks, Only(k), task' \in [Tasks -> TaskState],
           \A j \in Tasks \ {k} : task[j].via # None => Keeps(task[j].via),
           Fits(k, task'[k]), task'[k].via = None,
           task'[k].body \in Issued \cup {None}, task'[k].pair \in Issued \cup {None}
    PROVE  \A j \in Tasks : Goes(j)
  BY StaysPut, GoesAlone DEF Only

\* Tokens and requests are what they were, and so are their types.
LEMMA QuietBase ==
    ASSUME BaseInv, UNCHANGED tokenVars
    PROVE  /\ [TokenNext]_tokenVars
           /\ \A h \in Handlers : serve'[h].issued \in Issued' \cup {None}
           /\ \A h \in Handlers : Keeps(h)
           /\ \A j \in Tasks : task[j].via # None => Keeps(task[j].via)
  BY DEF tokenVars, BaseInv, Known, Issued, Keeps

\* The next place of a task that has done with its request.
Ends(k, pc) ==
    /\ Only(k) /\ task' \in [Tasks -> TaskState]
    /\ task'[k].pc = pc /\ task'[k].req = None
    /\ task'[k].body = None /\ task'[k].pair = None /\ task'[k].via = None

LEMMA EndsEffect ==
    ASSUME AppTypes, NEW k \in Tasks
    PROVE  /\ Set(k, NoTask) => Ends(k, "idle")
           /\ Set(k, Do("clear", None)) => Ends(k, "clear")
  <1>1. ASSUME Set(k, NoTask) PROVE Ends(k, "idle")
    BY <1>1, SetEffect, NoTaskFields DEF Ends, Only
  <1>2. ASSUME Set(k, Do("clear", None)) PROVE Ends(k, "clear")
    BY <1>2, SetEffect, DoFields, DoTypes DEF Ends, Only
  <1>. QED
    BY <1>1, <1>2

LEMMA EndsGoes ==
    ASSUME BaseInv, NEW k \in Tasks, Ends(k, "idle") \/ Ends(k, "clear"),
           \A j \in Tasks \ {k} : task[j].via # None => Keeps(task[j].via)
    PROVE  \A j \in Tasks : Goes(j)
  <1>1. Fits(k, task'[k])
    BY NoneIsNothing DEF Fits, Ends, Requests
  <1>. QED
    BY <1>1, OnlyGoes DEF Ends

LEMMA NothingEffect ==
    ASSUME BaseInv, NEW k \in Tasks, NothingStored(k)
    PROVE  /\ task[k].pc = "read" /\ stored = None
           /\ UNCHANGED <<tokenVars, stored, lapsed>>
           /\ \/ k = "refresher" /\ task' = Wake(None) /\ UNCHANGED app
              \/ /\ k # "refresher" /\ task[k].req = "logout"
                 /\ Ends(k, "clear") /\ UNCHANGED app
              \/ /\ k # "refresher" /\ task[k].req = "refresh"
                 /\ Ends(k, "idle") /\ app' = [status |-> "signedOut", access |-> None]
  <1>0. /\ AppTypes /\ task[k].req \in {"refresh", "logout"}
        /\ k = "refresher" => task[k].req # "logout"
    <2>1. task[k].pc = "read" /\ AppTypes /\ Fits(k, task[k])
      BY DEF NothingStored, BaseInv, TasksFit
    <2>. QED
      BY <2>1, NoneIsNothing DEF Fits, Requests
  <1>1. /\ task[k].pc = "read" /\ stored = None
        /\ UNCHANGED <<tokenVars, stored, lapsed>>
    BY DEF NothingStored
  <1>2. k = "refresher" => task' = Wake(None) /\ UNCHANGED app
    BY <1>0 DEF NothingStored
  <1>3. k # "refresher" /\ task[k].req = "logout" => Ends(k, "clear") /\ UNCHANGED app
    BY <1>0, EndsEffect DEF NothingStored
  <1>4. k # "refresher" /\ task[k].req = "refresh" =>
            Ends(k, "idle") /\ app' = [status |-> "signedOut", access |-> None]
    BY <1>0, EndsEffect DEF NothingStored
  <1>. QED
    BY <1>0, <1>1, <1>2, <1>3, <1>4

LEMMA SignedOutTyped == [status |-> "signedOut", access |-> None] \in AppState
  BY DEF AppState

LEMMA NothingBase ==
    ASSUME BaseInv, NEW k \in Tasks, NothingStored(k), UNCHANGED accidents
    PROVE  BaseInv'
  <1>0. AppTypes /\ stored \in Issued \cup {None} /\ UNCHANGED <<tokenVars, stored, lapsed>>
    BY NothingEffect DEF BaseInv, Known
  <1>1. (\A j \in Tasks : Goes(j)) /\ task' \in [Tasks -> TaskState]
    <2>1. CASE task' = Wake(None)
      BY <1>0, <2>1, WakeGoes, WakeEffect DEF tokenVars
    <2>2. CASE Ends(k, "clear") \/ Ends(k, "idle")
      BY <1>0, <2>2, EndsGoes, QuietBase DEF Ends
    <2>. QED
      BY <2>1, <2>2, NothingEffect
  <1>2. app' \in AppState
    BY <1>0, NothingEffect, SignedOutTyped DEF AppTypes
  <1>. QED
    BY <1>0, <1>1, <1>2, QuietBase, AllGo DEF AppTypes

\* Task k's request is taken by the handler at h.
Sends(k, h) ==
    /\ Only(k) /\ task' \in [Tasks -> TaskState] /\ UNCHANGED <<app, stored, lapsed>>
    /\ task[k].pc = "out" /\ task'[k].pc = "sent" /\ task'[k].via = h
    /\ task'[k].req = task[k].req /\ task'[k].body = task[k].body
    /\ task'[k].pair = task[k].pair
    /\ serve[h].pc = "idle" /\ serve'[h].pc \in {"read", "issue"}
    /\ serve'[h].op = task[k].req /\ serve'[h].given = task[k].body
    /\ serve'[h].issued = None
    /\ \A g \in Handlers \ {h} : serve'[g] = serve[g]
    /\ \/ task[k].req = "refresh" /\ Refresh(h, task[k].body)
       \/ task[k].req \in {"login", "logout"} /\ UNCHANGED token

\* Task k's request meets only the guard.
Passes(k) ==
    /\ Only(k) /\ task' \in [Tasks -> TaskState] /\ UNCHANGED <<tokenVars, app, stored, lapsed>>
    /\ task[k].pc = "out" /\ task'[k].pc \in {"ok", "refused"}
    /\ task'[k].req = task[k].req /\ task'[k].body = task[k].body
    /\ task'[k].pair = task[k].pair /\ task'[k].via = None
    /\ task[k].req # "refresh"
    /\ task'[k].pc = "ok" => task[k].req \in {"me", "call"}

LEMMA OutFields ==
    ASSUME BaseInv, NEW k \in Tasks, task[k].pc = "out"
    PROVE  /\ AppTypes /\ task[k] \in TaskState /\ task[k].via = None
           /\ task[k].req \in Requests
           /\ task[k].req \in {"refresh", "logout"} => task[k].body \in Issued
           /\ task[k].req = "login" => task[k].body = None
  <1>1. AppTypes /\ task[k] \in TaskState /\ Fits(k, task[k])
        /\ task[k].body \in Issued \cup {None}
    BY DEF BaseInv, AppTypes, TasksFit, Known
  <1>. QED
    BY <1>1 DEF Fits, TaskState

LEMMA ArrivesEffect ==
    ASSUME BaseInv, NEW k \in Tasks, Arrives(k)
    PROVE  Passes(k) \/ \E h \in Handlers : Sends(k, h) /\ TokenNext
  <1>. DEFINE t == task[k]
  <1>0. /\ t.pc = "out" /\ UNCHANGED <<app, stored, lapsed>>
        /\ AppTypes /\ t \in TaskState /\ t.via = None /\ t.req \in Requests
        /\ t.req \in {"refresh", "logout"} => t.body \in Issued
        /\ t.req = "login" => t.body = None
    BY OutFields DEF Arrives
  <1>1. CASE t.req \in {"refresh", "login"} \/ (t.req = "logout" /\ Good(t.cred))
    <2>1. PICK h \in Free :
                /\ CASE t.req = "refresh" -> Refresh(h, t.body)
                     [] t.req = "login"   -> \E u \in Users : Login(h, u)
                     [] t.req = "logout"  -> Logout(h, token[t.body].user, t.body)
                /\ Set(k, [t EXCEPT !.pc = "sent", !.via = h])
      BY <1>1 DEF Arrives
    <2>2. h \in Handlers
      BY <2>1 DEF Free
    <2>. DEFINE r == [t EXCEPT !.pc = "sent", !.via = h]
    <2>. HIDE DEF t
    <2>3. /\ r \in TaskState /\ r.pc = "sent" /\ r.via = h /\ r.req = t.req
          /\ r.body = t.body /\ r.pair = t.pair
      BY <1>0, <2>2 DEF TaskState, TaskPC
    <2>4. Set(k, r)
      BY <2>1
    <2>. HIDE DEF r
    <2>5. Only(k) /\ task' \in [Tasks -> TaskState] /\ task'[k] = r
      BY <1>0, <2>3, <2>4, SetEffect DEF Only
    <2>. DEFINE Server == /\ serve[h].pc = "idle" /\ serve'[h].pc \in {"read", "issue"}
                          /\ serve'[h].op = t.req /\ serve'[h].given = t.body
                          /\ serve'[h].issued = None
                          /\ \A g \in Handlers \ {h} : serve'[g] = serve[g]
                Rows == \/ t.req = "refresh" /\ Refresh(h, t.body)
                        \/ t.req \in {"login", "logout"} /\ UNCHANGED token
    <2>6. TokenTypeOK
      BY DEF BaseInv, TInv
    <2>7. CASE t.req = "refresh"
      <3>1. Refresh(h, t.body)
        BY <2>1, <2>7
      <3>2. TokenNext
        BY <1>0, <2>2, <2>7, <3>1 DEF TokenNext, Issued
      <3>3. Server
        BY <2>2, <2>6, <2>7, <3>1, ArriveEffect DEF Refresh
      <3>. QED
        BY <1>0, <2>2, <2>3, <2>5, <2>7, <3>1, <3>2, <3>3 DEF Sends, t
    <2>8. CASE t.req = "login"
      <3>1. PICK u \in Users : Login(h, u)
        BY <2>1, <2>8
      <3>2. TokenNext
        BY <2>2, <3>1 DEF TokenNext
      <3>3. Server
        BY <1>0, <2>2, <2>6, <2>8, <3>1, ArriveEffect DEF Login
      <3>. QED
        BY <1>0, <2>2, <2>3, <2>5, <2>8, <3>1, <3>2, <3>3 DEF Sends, t, Login
    <2>9. CASE t.req = "logout"
      <3>1. Logout(h, token[t.body].user, t.body)
        BY <2>1, <2>9
      <3>2. token[t.body].user \in Users /\ t.body \in Tokens
        BY <1>0, <2>6, <2>9 DEF TokenTypeOK, Issued
      <3>3. TokenNext
        BY <2>2, <3>1, <3>2 DEF TokenNext
      <3>4. Server
        BY <2>2, <2>6, <2>9, <3>1, ArriveEffect DEF Logout
      <3>. QED
        BY <1>0, <2>2, <2>3, <2>5, <2>9, <3>1, <3>3, <3>4 DEF Sends, t, Logout
    <2>. QED
      BY <1>1, <2>7, <2>8, <2>9 DEF t
  <1>2. CASE ~(t.req \in {"refresh", "login"} \/ (t.req = "logout" /\ Good(t.cred)))
    <2>. DEFINE pc == IF Good(t.cred) THEN "ok" ELSE "refused"
                r == [t EXCEPT !.pc = pc]
    <2>1. Set(k, r) /\ UNCHANGED tokenVars
      BY <1>2 DEF Arrives
    <2>2. pc \in {"ok", "refused"} /\ (pc = "ok" => Good(t.cred))
      OBVIOUS
    <2>3. t.req # "refresh" /\ (Good(t.cred) => t.req \in {"me", "call"})
      BY <1>0, <1>2 DEF Requests
    <2>. HIDE DEF pc, t
    <2>4. /\ r \in TaskState /\ r.pc = pc /\ r.via = t.via /\ r.req = t.req
          /\ r.body = t.body /\ r.pair = t.pair
      BY <1>0, <2>2 DEF TaskState, TaskPC
    <2>. HIDE DEF r
    <2>5. Only(k) /\ task' \in [Tasks -> TaskState] /\ task'[k] = r
      BY <1>0, <2>1, <2>4, SetEffect DEF Only
    <2>6. Passes(k)
      BY <1>0, <2>1, <2>2, <2>3, <2>4, <2>5 DEF Passes, t
    <2>. QED
      BY <2>6
  <1>. QED
    BY <1>1, <1>2

LEMMA WrongPinEffect ==
    ASSUME BaseInv, WrongPin
    PROVE  Passes("login")
  <1>. DEFINE t == task["login"]
              r == [t EXCEPT !.pc = "refused"]
  <1>1. "login" \in Tasks
    BY TaskNames
  <1>2. /\ t.pc = "out" /\ t.req = "login" /\ Set("login", r)
        /\ UNCHANGED <<tokenVars, app, stored, lapsed>>
    BY DEF WrongPin
  <1>3. AppTypes /\ t \in TaskState /\ t.via = None
    BY <1>1, <1>2, OutFields
  <1>. HIDE DEF t
  <1>4. /\ r \in TaskState /\ r.pc = "refused" /\ r.via = t.via /\ r.req = t.req
        /\ r.body = t.body /\ r.pair = t.pair
    BY <1>3 DEF TaskState, TaskPC
  <1>. HIDE DEF r
  <1>5. Only("login") /\ task' \in [Tasks -> TaskState] /\ task'["login"] = r
    BY <1>1, <1>2, <1>3, <1>4, SetEffect DEF Only
  <1>. QED
    BY <1>2, <1>3, <1>4, <1>5 DEF Passes, t

LEMMA PassesBase ==
    ASSUME BaseInv, NEW k \in Tasks, Passes(k), UNCHANGED accidents
    PROVE  BaseInv'
  <1>1. Fits(k, task[k])
    BY DEF BaseInv, TasksFit
  <1>2. Fits(k, task'[k]) /\ task'[k].via = None
    BY <1>1, OutFields, NoneIsNothing DEF Passes, Fits, Requests
  <1>3. \A j \in Tasks : Goes(j)
    BY <1>2, OnlyGoes, QuietBase DEF Passes, BaseInv, Known
  <1>4. /\ app' \in AppState /\ stored' \in Issued \cup {None} /\ lapsed' \in 0..MaxTokens
        /\ task' \in [Tasks -> TaskState] /\ UNCHANGED tokenVars
    BY DEF Passes, BaseInv, AppTypes, Known
  <1>. QED
    BY <1>3, <1>4, QuietBase, AllGo

LEMMA SendsBase ==
    ASSUME BaseInv, NEW k \in Tasks, NEW h \in Handlers, Sends(k, h), TokenNext,
           UNCHANGED accidents
    PROVE  BaseInv'
  <1>1. TInv' /\ Issued \subseteq Issued'
    BY NextTyped, IssuedGrows DEF BaseInv
  <1>2. AppTypes'
    BY DEF Sends, BaseInv, AppTypes
  <1>3. TasksFit'
    <2>1. Fits(k, task[k])
      BY DEF BaseInv, TasksFit
    <2>2. Fits(k, task'[k])
      BY <2>1, NoneIsNothing DEF Sends, Fits
    <2>. QED
      BY <2>2 DEF Sends, Only, BaseInv, TasksFit
  <1>4. ViaOK'
    <2>1. ASSUME NEW j \in Tasks \ {k}, task[j].via # None
          PROVE  task[j].via \in Handlers \ {h} /\ Served(j)
      BY <2>1 DEF BaseInv, ViaOK, Served, Sends, AppTypes, TaskState
    <2>2. \A j \in Tasks \ {k} : task[j].via # None => Served(j)'
      BY <2>1 DEF Sends, Only, Served
    <2>3. Served(k)'
      BY DEF Sends, Served
    <2>4. \A i, j \in Tasks : task'[i].via = task'[j].via /\ task'[i].via # None => i = j
      <3>1. \A j \in Tasks \ {k} : task'[j].via # h
        BY <2>1, NoneIsNothing DEF Sends, Only
      <3>. QED
        BY <3>1 DEF Sends, Only, BaseInv, ViaOK
    <2>. QED
      BY <2>2, <2>3, <2>4 DEF ViaOK, Sends, Only
  <1>5. Known'
    BY <1>1 DEF Sends, Only, BaseInv, Known
  <1>. QED
    BY <1>1, <1>2, <1>3, <1>4, <1>5 DEF BaseInv

\* Task k goes on with another request, or stores or shows what it received.
Yields(k, pc, req, pair) ==
    /\ Only(k) /\ task' \in [Tasks -> TaskState]
    /\ task'[k].pc = pc /\ task'[k].req = req
    /\ task'[k].body = None /\ task'[k].pair = pair /\ task'[k].via = None

LEMMA YieldsGoes ==
    ASSUME BaseInv, NEW k \in Tasks, NEW pair \in Issued \cup {None},
           \/ Yields(k, "store", None, pair) \/ Yields(k, "publish", None, pair)
           \/ Yields(k, "out", "me", pair) /\ k # "refresher",
           \A j \in Tasks \ {k} : task[j].via # None => Keeps(task[j].via)
    PROVE  \A j \in Tasks : Goes(j)
  <1>1. Fits(k, task'[k])
    BY NoneIsNothing DEF Fits, Yields, Requests
  <1>. QED
    BY <1>1, OnlyGoes DEF Yields

LEMMA YieldsEffect ==
    ASSUME AppTypes, NEW k \in Tasks, NEW p \in Tokens \cup {None}
    PROVE  /\ \A pc \in {"store", "publish"} :
                Set(k, [Do(pc, None) EXCEPT !.pair = p]) => Yields(k, pc, None, p)
           /\ Set(k, [Do("out", "me") EXCEPT !.cred = p, !.pair = p])
                => Yields(k, "out", "me", p)
  <1>1. ASSUME NEW pc \in {"store", "publish"}, Set(k, [Do(pc, None) EXCEPT !.pair = p])
        PROVE  Yields(k, pc, None, p)
    <2>. DEFINE d == Do(pc, None)
                r == [d EXCEPT !.pair = p]
    <2>1. d \in TaskState /\ d.pc = pc /\ d.req = None /\ d.body = None /\ d.via = None
      BY DoFields, DoTypes
    <2>2. Set(k, r)
      BY <1>1
    <2>. HIDE DEF d
    <2>3. /\ r \in TaskState /\ r.pc = pc /\ r.req = None /\ r.body = None
          /\ r.via = None /\ r.pair = p
      BY <2>1 DEF TaskState
    <2>. HIDE DEF r
    <2>. QED
      BY <2>2, <2>3, SetEffect DEF Yields, Only
  <1>2. ASSUME Set(k, [Do("out", "me") EXCEPT !.cred = p, !.pair = p])
        PROVE  Yields(k, "out", "me", p)
    <2>. DEFINE d == Do("out", "me")
                r == [d EXCEPT !.cred = p, !.pair = p]
    <2>1. d \in TaskState /\ d.pc = "out" /\ d.req = "me" /\ d.body = None /\ d.via = None
      BY DoFields, DoTypes
    <2>2. Set(k, r)
      BY <1>2
    <2>. HIDE DEF d
    <2>3. /\ r \in TaskState /\ r.pc = "out" /\ r.req = "me" /\ r.body = None
          /\ r.via = None /\ r.pair = p
      BY <2>1 DEF TaskState
    <2>. HIDE DEF r
    <2>. QED
      BY <2>2, <2>3, SetEffect DEF Yields, Only
  <1>. QED
    BY <1>1, <1>2

LEMMA SucceedsEffect ==
    ASSUME BaseInv, NEW k \in Tasks, Succeeds(k)
    PROVE  /\ Answered(k, "ok") /\ UNCHANGED <<app, stored, lapsed>>
           /\ \/ /\ task[k].req = "refresh" /\ task[k].pc = "sent"
                 /\ Yields(k, "store", None, serve[task[k].via].issued)
              \/ /\ task[k].req = "login" /\ task[k].pc = "sent" /\ k # "refresher"
                 /\ Yields(k, "out", "me", serve[task[k].via].issued)
              \/ /\ task[k].req = "me" /\ task[k].pc = "ok" /\ k # "restore"
                 /\ Yields(k, "store", None, task[k].pair)
              \/ /\ task[k].req = "me" /\ task[k].pc = "ok" /\ k = "restore"
                 /\ Yields(k, "publish", None, task[k].pair)
              \/ task[k].req = "logout" /\ Ends(k, "clear")
              \/ task[k].req = "call" /\ Ends(k, "idle")
  <1>. DEFINE t == task[k]
              got == IF t.via # None THEN serve[t.via].issued ELSE t.pair
  <1>1. /\ Answered(k, "ok") /\ UNCHANGED <<app, stored, lapsed>>
        /\ Set(k, CASE t.req = "refresh" -> [Do("store", None) EXCEPT !.pair = got]
                    [] t.req = "login"   -> [Do("out", "me") EXCEPT !.cred = got, !.pair = got]
                    [] t.req = "me"      -> [Do(IF k = "restore" THEN "publish" ELSE "store",
                                                None) EXCEPT !.pair = got]
                    [] t.req = "logout"  -> Do("clear", None)
                    [] t.req = "call"    -> NoTask)
    BY DEF Succeeds
  <1>2. t.pc \in {"ok", "sent"} /\ AppTypes /\ t \in TaskState /\ Fits(k, t)
    BY <1>1 DEF Answered, BaseInv, AppTypes, TasksFit
  <1>3. /\ t.pc = "sent" => t.via \in Handlers /\ t.req \in {"refresh", "login", "logout"}
        /\ t.pc = "ok" => t.via = None /\ t.req \in {"me", "call"}
        /\ k = "refresher" => t.req # "login"
    BY <1>2, NoneIsNothing DEF Fits, TaskState, Requests
  <1>4. got \in Tokens \cup {None}
        /\ (t.pc = "sent" => got = serve[t.via].issued) /\ (t.pc = "ok" => got = t.pair)
    <2>1. t.pc = "sent" => serve[t.via].issued \in Tokens \cup {None} /\ t.via # None
      BY <1>3, NoneIsNothing DEF BaseInv, TInv, TokenTypeOK, ServeState
    <2>2. t.pair \in Tokens \cup {None}
      BY <1>2 DEF TaskState
    <2>. QED
      BY <1>2, <1>3, <2>1, <2>2
  <1>. HIDE DEF got, t
  <1>5. CASE t.req = "refresh"
    <2>1. Set(k, [Do("store", None) EXCEPT !.pair = got])
      BY <1>1, <1>5
    <2>2. Yields(k, "store", None, got)
      BY <1>2, <1>4, <2>1, YieldsEffect
    <2>. QED
      BY <1>1, <1>2, <1>3, <1>4, <1>5, <2>2 DEF t
  <1>6. CASE t.req = "login"
    <2>1. Set(k, [Do("out", "me") EXCEPT !.cred = got, !.pair = got])
      BY <1>1, <1>6
    <2>2. Yields(k, "out", "me", got)
      BY <1>2, <1>4, <2>1, YieldsEffect
    <2>. QED
      BY <1>1, <1>2, <1>3, <1>4, <1>6, <2>2 DEF t
  <1>7. CASE t.req = "me"
    <2>1. Set(k, [Do(IF k = "restore" THEN "publish" ELSE "store", None) EXCEPT !.pair = got])
      BY <1>1, <1>7
    <2>2. (k = "restore" => Set(k, [Do("publish", None) EXCEPT !.pair = got]))
          /\ (k # "restore" => Set(k, [Do("store", None) EXCEPT !.pair = got]))
      BY <2>1
    <2>3. /\ k = "restore" => Yields(k, "publish", None, got)
          /\ k # "restore" => Yields(k, "store", None, got)
      BY <1>2, <1>4, <2>2, YieldsEffect
    <2>. QED
      BY <1>1, <1>2, <1>3, <1>4, <1>7, <2>3 DEF t
  <1>8. CASE t.req = "logout"
    <2>1. Set(k, Do("clear", None))
      BY <1>1, <1>8
    <2>. QED
      BY <1>1, <1>2, <1>8, <2>1, EndsEffect DEF t
  <1>9. CASE t.req = "call"
    <2>1. Set(k, NoTask)
      BY <1>1, <1>9
    <2>. QED
      BY <1>1, <1>2, <1>9, <2>1, EndsEffect DEF t
  <1>. QED
    BY <1>2, <1>3, <1>5, <1>6, <1>7, <1>8, <1>9

LEMMA AnsweredBase ==
    ASSUME BaseInv, NEW k \in Tasks, NEW outcome \in {"ok", "refused"}, Answered(k, outcome)
    PROVE  /\ [TokenNext]_tokenVars
           /\ \A h \in Handlers : serve'[h].issued \in Issued' \cup {None}
           /\ \A j \in Tasks \ {k} : task[j].via # None => Keeps(task[j].via)
  <1>1. Issued' = Issued
    BY AnsweredEffect DEF Issued
  <1>. QED
    BY <1>1, AnsweredEffect DEF BaseInv, Known

LEMMA SucceedsBase ==
    ASSUME BaseInv, NEW k \in Tasks, Succeeds(k), UNCHANGED accidents
    PROVE  BaseInv'
  <1>0. Answered(k, "ok") /\ UNCHANGED <<app, stored, lapsed>>
    BY SucceedsEffect
  <1>1. task[k].pair \in Issued \cup {None}
    BY DEF BaseInv, Known
  <1>2. task[k].pc = "sent" => serve[task[k].via].issued \in Issued \cup {None}
    <2>1. task[k].pc = "sent" => task[k].via \in Handlers
      BY DEF BaseInv, AppTypes, TasksFit, Fits, TaskState
    <2>. QED
      BY <2>1 DEF BaseInv, Known
  <1>3. \A j \in Tasks \ {k} : task[j].via # None => Keeps(task[j].via)
    BY <1>0, AnsweredBase
  <1>4. (\A j \in Tasks : Goes(j)) /\ task' \in [Tasks -> TaskState]
    <2>1. CASE \E p \in Issued \cup {None} :
                    \/ Yields(k, "store", None, p) \/ Yields(k, "publish", None, p)
                    \/ Yields(k, "out", "me", p) /\ k # "refresher"
      BY <1>3, <2>1, YieldsGoes DEF Yields
    <2>2. CASE Ends(k, "clear") \/ Ends(k, "idle")
      BY <1>3, <2>2, EndsGoes DEF Ends
    <2>. QED
      BY <1>1, <1>2, <2>1, <2>2, SucceedsEffect
  <1>. QED
    BY <1>0, <1>4, AnsweredBase, AllGo DEF BaseInv, AppTypes, Known

\* Task k waits for the shared refresh, which goes on or starts.
Waits(k) ==
    /\ task' \in [Tasks -> TaskState] /\ UNCHANGED <<app, stored, lapsed>>
    /\ task'[k].pc = "wait" /\ task'[k].via = None
    /\ task'[k].req = task[k].req /\ task'[k].body = task[k].body
    /\ task'[k].pair = task[k].pair
    /\ \A j \in Tasks \ {k} :
            task'[j] = IF j = "refresher" /\ task[j].pc = "idle"
                       THEN Do("read", "refresh") ELSE task[j]

LEMMA UnauthorizedEffect ==
    ASSUME BaseInv, NEW k \in Tasks, Unauthorized(k)
    PROVE  Answered(k, "refused") /\ Waits(k)
  <1>. DEFINE t == task[k]
              r == [t EXCEPT !.pc = "wait", !.via = None]
  <1>1. /\ Answered(k, "refused") /\ UNCHANGED <<app, stored, lapsed>>
        /\ task' = [j \in Tasks |->
                IF j = k THEN r
                ELSE IF j = "refresher" /\ task[j].pc = "idle" THEN Do("read", "refresh")
                ELSE task[j]]
    BY DEF Unauthorized
  <1>2. \A j \in Tasks : task[j] \in TaskState
    BY DEF BaseInv, AppTypes
  <1>3. t \in TaskState
    BY <1>2
  <1>. HIDE DEF t
  <1>4. /\ r \in TaskState /\ r.pc = "wait" /\ r.via = None /\ r.req = t.req
        /\ r.body = t.body /\ r.pair = t.pair
    BY <1>3 DEF TaskState, TaskPC
  <1>. HIDE DEF r
  <1>5. \A j \in Tasks : task'[j] = IF j = k THEN r
                ELSE IF j = "refresher" /\ task[j].pc = "idle" THEN Do("read", "refresh")
                ELSE task[j]
    BY <1>1, Zenon
  <1>6. task' \in [Tasks -> TaskState]
    BY <1>1, <1>2, <1>4, DoTypes
  <1>7. task'[k] = r
    BY <1>5
  <1>8. \A j \in Tasks \ {k} : task'[j] = IF j = "refresher" /\ task[j].pc = "idle"
                                          THEN Do("read", "refresh") ELSE task[j]
    BY <1>5
  <1>. QED
    BY <1>1, <1>4, <1>6, <1>7, <1>8 DEF Waits, t

LEMMA UnauthorizedBase ==
    ASSUME BaseInv, NEW k \in Tasks, Unauthorized(k), UNCHANGED accidents
    PROVE  BaseInv'
  <1>0. Answered(k, "refused") /\ Waits(k)
    BY UnauthorizedEffect
  <1>1. Goes(k)
    <2>1. Fits(k, task[k]) /\ task[k].pc \in {"sent", "refused"} /\ task[k] \in TaskState
      BY <1>0 DEF Answered, BaseInv, TasksFit, AppTypes
    <2>2. Fits(k, task'[k])
      BY <1>0, <2>1, NoneIsNothing DEF Waits, Fits, TaskState, Requests
    <2>. QED
      BY <1>0, <2>2, GoesAlone DEF Waits, BaseInv, Known
  <1>2. ASSUME NEW j \in Tasks \ {k}, j = "refresher", task[j].pc = "idle"
        PROVE  Goes(j)
    <2>1. task'[j] = Do("read", "refresh")
      BY <1>0, <1>2 DEF Waits
    <2>2. Fits(j, task'[j])
      BY <1>2, <2>1, DoFields, NoneIsNothing DEF Fits, Requests
    <2>. QED
      BY <2>1, <2>2, GoesAlone, DoFields, DoTypes
  <1>3. ASSUME NEW j \in Tasks \ {k}, ~(j = "refresher" /\ task[j].pc = "idle")
        PROVE  Goes(j)
    <2>1. task'[j] = task[j]
      BY <1>0, <1>3 DEF Waits
    <2>. QED
      BY <1>0, <2>1, StaysPut, AnsweredBase
  <1>. QED
    BY <1>0, <1>1, <1>2, <1>3, AnsweredBase, AllGo DEF Waits, BaseInv, AppTypes, Known

\* What the catch blocks clear.
Caught(k) ==
    /\ UNCHANGED <<app, stored, lapsed>>
    /\ \/ Ends(k, "clear") /\ (task[k].req \in {"refresh", "logout"} \/ k = "restore")
       \/ Ends(k, "idle") /\ task[k].req # "refresh" /\ k # "restore"

LEMMA CatchEffect ==
    ASSUME BaseInv, NEW k \in Tasks, RefusedAgain(k) \/ Lost(k)
    PROVE  /\ Caught(k)
           /\ Answered(k, "refused")
                \/ (task[k].pc \in {"out", "sent"} /\ UNCHANGED tokenVars)
  <1>1. Catch(k) /\ UNCHANGED <<app, stored, lapsed>>
    BY DEF RefusedAgain, Lost
  <1>2. AppTypes
    BY DEF BaseInv
  <1>3. CASE task[k].req \in {"refresh", "logout"} \/ k = "restore"
    <2>1. Set(k, Do("clear", None))
      BY <1>1, <1>3 DEF Catch
    <2>. QED
      BY <1>1, <1>2, <1>3, <2>1, EndsEffect DEF Caught, RefusedAgain, Lost
  <1>4. CASE ~(task[k].req \in {"refresh", "logout"} \/ k = "restore")
    <2>1. Set(k, NoTask)
      BY <1>1, <1>4 DEF Catch
    <2>. QED
      BY <1>1, <1>2, <1>4, <2>1, EndsEffect DEF Caught, RefusedAgain, Lost
  <1>. QED
    BY <1>3, <1>4

LEMMA CatchBase ==
    ASSUME BaseInv, NEW k \in Tasks, RefusedAgain(k) \/ Lost(k), UNCHANGED accidents
    PROVE  BaseInv'
  <1>1. /\ [TokenNext]_tokenVars
        /\ \A h \in Handlers : serve'[h].issued \in Issued' \cup {None}
        /\ \A j \in Tasks \ {k} : task[j].via # None => Keeps(task[j].via)
    BY CatchEffect, AnsweredBase, QuietBase
  <1>2. (\A j \in Tasks : Goes(j)) /\ task' \in [Tasks -> TaskState]
    BY <1>1, CatchEffect, EndsGoes DEF Caught, Ends
  <1>. QED
    BY <1>1, <1>2, CatchEffect, AllGo DEF Caught, BaseInv, AppTypes, Known

\* Task k goes to its next place, and nothing else about it changes.
Turns(k, pc) ==
    /\ Only(k) /\ task' \in [Tasks -> TaskState]
    /\ task'[k].pc = pc /\ task'[k].req = task[k].req /\ task'[k].body = task[k].body
    /\ task'[k].pair = task[k].pair /\ task'[k].via = task[k].via

LEMMA TurnsEffect ==
    ASSUME AppTypes, NEW k \in Tasks, NEW pc \in TaskPC, Set(k, [task[k] EXCEPT !.pc = pc])
    PROVE  Turns(k, pc)
  <1>. DEFINE t == task[k]
              r == [t EXCEPT !.pc = pc]
  <1>1. t \in TaskState /\ Set(k, r)
    BY DEF AppTypes
  <1>. HIDE DEF t
  <1>2. /\ r \in TaskState /\ r.pc = pc /\ r.via = t.via /\ r.req = t.req
        /\ r.body = t.body /\ r.pair = t.pair
    BY <1>1 DEF TaskState
  <1>. HIDE DEF r
  <1>. QED
    BY <1>1, <1>2, SetEffect DEF Turns, Only, t

LEMMA StoreEffect ==
    ASSUME BaseInv, NEW k \in Tasks, Store(k)
    PROVE  /\ task[k].pc = "store" /\ stored' = task[k].pair
           /\ UNCHANGED <<tokenVars, app, lapsed>>
           /\ \/ k = "restore" /\ Yields(k, "out", "me", task[k].pair)
              \/ k # "restore" /\ Turns(k, "publish")
  <1>0. AppTypes /\ task[k].pair \in Tokens \cup {None} /\ "publish" \in TaskPC
    BY DEF BaseInv, AppTypes, TaskState, TaskPC
  <1>1. CASE k = "restore"
    <2>1. Set(k, [Do("out", "me") EXCEPT !.cred = task[k].pair, !.pair = task[k].pair])
      BY <1>1 DEF Store
    <2>. QED
      BY <1>0, <1>1, <2>1, YieldsEffect DEF Store
  <1>2. CASE k # "restore"
    <2>1. Set(k, [task[k] EXCEPT !.pc = "publish"])
      BY <1>2 DEF Store
    <2>. QED
      BY <1>0, <1>2, <2>1, TurnsEffect DEF Store
  <1>. QED
    BY <1>1, <1>2

LEMMA PublishEffect ==
    ASSUME BaseInv, NEW k \in Tasks, Publish(k)
    PROVE  /\ task[k].pc = "publish" /\ UNCHANGED <<tokenVars, stored, lapsed>>
           /\ app' \in AppState
           /\ \/ /\ k = "refresher" /\ app'.status = app.status
                 /\ task' = Wake(task[k].pair) /\ task[k].pair \in Tokens \cup {None}
              \/ k # "refresher" /\ app'.status = "authenticated" /\ Ends(k, "idle")
  <1>0. AppTypes /\ task[k].pair \in Tokens \cup {None}
    BY DEF BaseInv, AppTypes, TaskState
  <1>1. CASE k = "refresher"
    <2>1. app' = [app EXCEPT !.access = task[k].pair] /\ task' = Wake(task[k].pair)
      BY <1>1 DEF Publish
    <2>2. app' \in AppState /\ app'.status = app.status
      BY <1>0, <2>1 DEF AppTypes, AppState
    <2>. QED
      BY <1>0, <1>1, <2>1, <2>2 DEF Publish
  <1>2. CASE k # "refresher"
    <2>1. app' = [status |-> "authenticated", access |-> task[k].pair] /\ Set(k, NoTask)
      BY <1>2 DEF Publish
    <2>2. app' \in AppState /\ app'.status = "authenticated"
      BY <1>0, <2>1 DEF AppState
    <2>. QED
      BY <1>0, <1>2, <2>1, <2>2, EndsEffect DEF Publish
  <1>. QED
    BY <1>1, <1>2

LEMMA ClearEffect ==
    ASSUME BaseInv, NEW k \in Tasks, Clear(k)
    PROVE  /\ task[k].pc = "clear" /\ stored' = None /\ Turns(k, "left")
           /\ UNCHANGED <<tokenVars, app, lapsed>>
  BY TurnsEffect DEF Clear, BaseInv, TaskPC

LEMMA LeftEffect ==
    ASSUME BaseInv, NEW k \in Tasks, Left(k)
    PROVE  /\ task[k].pc = "left" /\ UNCHANGED <<tokenVars, stored, lapsed>>
           /\ app' \in AppState /\ app'.status = "signedOut"
           /\ \/ k = "refresher" /\ task' = Wake(None)
              \/ k # "refresher" /\ Ends(k, "idle")
  <1>1. app' \in AppState /\ app'.status = "signedOut"
    BY DEF Left, AppState
  <1>2. AppTypes
    BY DEF BaseInv
  <1>. QED
    BY <1>1, <1>2, EndsEffect DEF Left

\* A task that turns to "publish" or "left" has no request and waits for nobody.
LEMMA TurnsGoes ==
    ASSUME BaseInv, NEW k \in Tasks, task[k].pc \in {"store", "clear"},
           Turns(k, "publish") \/ Turns(k, "left"), UNCHANGED tokenVars
    PROVE  (\A j \in Tasks : Goes(j)) /\ task[k].via = None
  <1>1. Fits(k, task[k])
    BY DEF BaseInv, TasksFit
  <1>2. task[k].via = None /\ Fits(k, task'[k])
    BY <1>1, NoneIsNothing DEF Turns, Fits, Requests
  <1>. QED
    BY <1>2, OnlyGoes, QuietBase DEF Turns, BaseInv, Known

LEMMA LastStepsBase ==
    ASSUME BaseInv, NEW k \in Tasks, Store(k) \/ Publish(k) \/ Clear(k) \/ Left(k),
           UNCHANGED accidents
    PROVE  BaseInv'
  <1>0. AppTypes /\ stored \in Issued \cup {None} /\ task[k].pair \in Issued \cup {None}
        /\ lapsed \in 0..MaxTokens /\ app \in AppState
    BY DEF BaseInv, Known, AppTypes
  <1>1. CASE Store(k)
    <2>1. UNCHANGED tokenVars
      BY <1>1, StoreEffect
    <2>2. (\A j \in Tasks : Goes(j)) /\ task' \in [Tasks -> TaskState]
      <3>1. CASE k = "restore" /\ Yields(k, "out", "me", task[k].pair)
        BY <1>0, <2>1, <3>1, YieldsGoes, QuietBase DEF Yields
      <3>2. CASE Turns(k, "publish")
        BY <1>1, <2>1, <3>2, StoreEffect, TurnsGoes DEF Turns
      <3>. QED
        BY <1>1, <3>1, <3>2, StoreEffect
    <2>. QED
      BY <1>0, <1>1, <2>1, <2>2, StoreEffect, QuietBase, AllGo
  <1>2. CASE Clear(k)
    <2>1. UNCHANGED tokenVars
      BY <1>2, ClearEffect
    <2>2. (\A j \in Tasks : Goes(j)) /\ task' \in [Tasks -> TaskState]
      BY <1>2, <2>1, ClearEffect, TurnsGoes DEF Turns
    <2>. QED
      BY <1>0, <1>2, <2>1, <2>2, ClearEffect, QuietBase, AllGo
  <1>3. ASSUME NEW p \in Tokens \cup {None}, UNCHANGED <<tokenVars, stored, lapsed>>,
               app' \in AppState, task' = Wake(p) \/ Ends(k, "idle")
        PROVE  BaseInv'
    <2>1. (\A j \in Tasks : Goes(j)) /\ task' \in [Tasks -> TaskState]
      <3>1. CASE task' = Wake(p)
        BY <1>0, <1>3, <3>1, WakeGoes, WakeEffect DEF tokenVars
      <3>2. CASE Ends(k, "idle")
        BY <1>3, <3>2, EndsGoes, QuietBase DEF Ends
      <3>. QED
        BY <1>3, <3>1, <3>2
    <2>. QED
      BY <1>0, <1>3, <2>1, QuietBase, AllGo
  <1>4. CASE Publish(k)
    <2>1. /\ UNCHANGED <<tokenVars, stored, lapsed>> /\ app' \in AppState
          /\ \E p \in Tokens \cup {None} : task' = Wake(p) \/ Ends(k, "idle")
      BY <1>4, PublishEffect
    <2>. QED
      BY <1>3, <2>1
  <1>5. CASE Left(k)
    <2>1. /\ UNCHANGED <<tokenVars, stored, lapsed>> /\ app' \in AppState
          /\ task' = Wake(None) \/ Ends(k, "idle")
      BY <1>5, LeftEffect
    <2>. QED
      BY <1>3, <2>1
  <1>. QED
    BY <1>1, <1>2, <1>4, <1>5

\* What the rest of the world does to the requests of the app.
LEMMA ServerBase ==
    ASSUME BaseInv, NEW h \in Handlers, ServerStep(h), UNCHANGED accidents
    PROVE  BaseInv'
  <1>1. [TokenNext]_tokenVars /\ UNCHANGED appVars
    BY DEF ServerStep, Unclaimed, TokenNext
  <1>2. ASSUME NEW j \in Tasks, task[j].via # None
        PROVE  Keeps(task[j].via)
    <2>1. task[j].via \in Handlers
      BY <1>2 DEF BaseInv, AppTypes, TaskState
    <2>2. CASE ServeStep(h)
      BY <2>1, <2>2, ServeEffect DEF Keeps, BaseInv
    <2>3. CASE Unclaimed(h)
      <3>1. task[j].via # h /\ Answer(h)
        BY <2>3 DEF Unclaimed, Unheard
      <3>2. serve'[task[j].via] = serve[task[j].via]
        BY <2>1, <3>1, AnswerEffect DEF BaseInv, TInv
      <3>. QED
        BY <3>2 DEF Keeps
    <2>. QED
      BY <2>2, <2>3 DEF ServerStep
  <1>3. \A j \in Tasks : Goes(j)
    BY <1>1, <1>2, StaysPut DEF appVars
  <1>4. ASSUME NEW g \in Handlers
        PROVE  serve'[g].issued \in Issued' \cup {None}
    <2>1. serve[g].issued \in Issued \cup {None} /\ Issued \subseteq Issued'
      BY <1>1, IssuedGrows DEF BaseInv, Known
    <2>2. CASE ServeStep(h)
      BY <2>1, <2>2, ServeEffect DEF BaseInv, Makes
    <2>3. CASE Answer(h)
      BY <2>1, <2>3, AnswerEffect DEF BaseInv, TInv
    <2>. QED
      BY <2>2, <2>3 DEF ServerStep, Unclaimed
  <1>. QED
    BY <1>1, <1>3, <1>4, AllGo DEF appVars, BaseInv, AppTypes, Known

LEMMA ChangedEffect ==
    ASSUME BaseInv, ChangedElsewhere
    PROVE  /\ TokenNext /\ UNCHANGED <<token, appVars>>
           /\ \E h \in Handlers :
                /\ serve[h].pc = "idle" /\ serve'[h].pc = "revokeAll"
                /\ serve'[h].op = "changePhone" /\ serve'[h].issued = None
                /\ \A g \in Handlers \ {h} : serve'[g] = serve[g]
  <1>1. PICK h \in Free, u \in Users : ChangePhone(h, u)
    BY DEF ChangedElsewhere
  <1>2. h \in Handlers
    BY DEF Free
  <1>3. /\ UNCHANGED token /\ serve[h].pc = "idle" /\ serve'[h].pc = "revokeAll"
        /\ serve'[h].op = "changePhone" /\ serve'[h].issued = None
        /\ \A g \in Handlers \ {h} : serve'[g] = serve[g]
    BY <1>1, <1>2, ArriveEffect DEF ChangePhone, BaseInv, TInv
  <1>. QED
    BY <1>1, <1>2, <1>3 DEF TokenNext, ChangedElsewhere

LEMMA ChangedBase ==
    ASSUME BaseInv, ChangedElsewhere, UNCHANGED accidents
    PROVE  BaseInv'
  <1>1. PICK h \in Handlers :
                /\ serve[h].pc = "idle" /\ serve'[h].issued = None
                /\ \A g \in Handlers \ {h} : serve'[g] = serve[g]
    BY ChangedEffect
  <1>2. UNCHANGED <<token, appVars>> /\ TokenNext
    BY ChangedEffect
  <1>3. ASSUME NEW j \in Tasks, task[j].via # None
        PROVE  Keeps(task[j].via)
    <2>1. task[j].via \in Handlers \ {h}
      BY <1>1, <1>3 DEF BaseInv, AppTypes, TaskState, ViaOK, Served
    <2>. QED
      BY <1>1, <2>1 DEF Keeps
  <1>4. \A j \in Tasks : Goes(j)
    BY <1>2, <1>3, StaysPut DEF appVars
  <1>5. \A g \in Handlers : serve'[g].issued \in Issued' \cup {None}
    BY <1>1, <1>2 DEF BaseInv, Known, Issued
  <1>. QED
    BY <1>2, <1>4, <1>5, AllGo DEF appVars, BaseInv, AppTypes, Known

\* The app as it starts.
LEMMA RestoringTyped ==
    /\ Restoring \in [Tasks -> TaskState]
    /\ Restoring["restore"] = Do("read", "refresh")
    /\ \A k \in Tasks \ {"restore"} : Restoring[k] = NoTask
    /\ \A k \in Tasks : /\ Fits(k, Restoring[k]) /\ Restoring[k].via = None
                        /\ Restoring[k].body = None /\ Restoring[k].pair = None
    /\ Starting \in AppState /\ Starting.status = "unknown"
  <1>1. \A k \in Tasks : Restoring[k] = IF k = "restore" THEN Do("read", "refresh") ELSE NoTask
    BY DEF Restoring
  <1>2. Restoring \in [Tasks -> TaskState]
    BY DoTypes, NoTaskFields DEF Restoring
  <1>3. Restoring["restore"] = Do("read", "refresh")
        /\ \A k \in Tasks \ {"restore"} : Restoring[k] = NoTask
    BY <1>1, TaskNames
  <1>4. ASSUME NEW k \in Tasks
        PROVE  /\ Fits(k, Restoring[k]) /\ Restoring[k].via = None
               /\ Restoring[k].body = None /\ Restoring[k].pair = None
    <2>1. CASE k = "restore"
      BY <1>3, <2>1, DoFields, NoneIsNothing DEF Fits, Requests
    <2>2. CASE k # "restore"
      BY <1>3, <2>2, NoTaskFields, NoneIsNothing DEF Fits, Requests
    <2>. QED
      BY <2>1, <2>2
  <1>. QED
    BY <1>2, <1>3, <1>4 DEF Starting, AppState

LEMMA KillBase ==
    ASSUME BaseInv, Kill \/ Lapse, UNCHANGED accidents
    PROVE  BaseInv'
  <1>1. UNCHANGED tokenVars /\ UNCHANGED stored
    BY DEF Kill, Lapse
  <1>2. /\ task' \in [Tasks -> TaskState] /\ app' \in AppState /\ lapsed' \in 0..MaxTokens
        /\ \A j \in Tasks : Goes(j)
    <2>1. CASE Kill
      BY <2>1, RestoringTyped, GoesAlone DEF Kill, BaseInv, AppTypes
    <2>2. CASE Lapse
      <3>1. app.access \in Tokens
        BY <2>2 DEF Lapse, Good, BaseInv, AppTypes, AppState
      <3>2. lapsed' \in 0..MaxTokens
        BY <2>2, <3>1 DEF Lapse, Tokens
      <3>. QED
        BY <1>1, <2>2, <3>2, StaysPut, QuietBase DEF Lapse, BaseInv, AppTypes
    <2>. QED
      BY <2>1, <2>2
  <1>. QED
    BY <1>1, <1>2, QuietBase, AllGo DEF BaseInv, Known

LEMMA BaseNext == BaseInv /\ [SessionNext]_sessionVars => BaseInv'
  <1>. SUFFICES ASSUME BaseInv, [SessionNext]_sessionVars PROVE BaseInv'
    OBVIOUS
  <1>1. CASE UNCHANGED sessionVars
    <2>1. /\ UNCHANGED <<tokenVars, app, stored, lapsed, accidents>> /\ task' = task
      BY <1>1 DEF sessionVars, appVars
    <2>2. \A j \in Tasks : Goes(j)
      BY <2>1, StaysPut, QuietBase
    <2>. QED
      BY <2>1, <2>2, QuietBase, AllGo DEF BaseInv, AppTypes, Known
  <1>2. CASE SessionNext
    <2>0. UNCHANGED accidents
      BY <1>2 DEF SessionNext
    <2>1. CASE StartLogin \/ StartLeave \/ \E k \in Calls : StartCall(k)
      BY <2>0, <2>1, StartEffect, StartBase
    <2>2. CASE WrongPin
      BY <2>0, <2>2, WrongPinEffect, PassesBase, TaskNames
    <2>3. ASSUME NEW k \in Tasks, TaskStep(k) \/ Lost(k)
          PROVE  BaseInv'
      <3>1. CASE Arrives(k)
        BY <2>0, <3>1, ArrivesEffect, PassesBase, SendsBase
      <3>2. CASE ~Arrives(k)
        BY <2>0, <2>3, <3>2, ReadBase, NothingBase, SucceedsBase, UnauthorizedBase,
           CatchBase, LastStepsBase DEF TaskStep
      <3>. QED
        BY <3>1, <3>2
    <2>4. CASE \E h \in Handlers : ServerStep(h)
      BY <2>0, <2>4, ServerBase
    <2>5. CASE Lapse \/ Kill
      BY <2>0, <2>5, KillBase
    <2>6. CASE ChangedElsewhere
      BY <2>0, <2>6, ChangedBase
    <2>. QED
      BY <1>2, <2>1, <2>2, <2>3, <2>4, <2>5, <2>6 DEF SessionNext
  <1>. QED
    BY <1>1, <1>2

LEMMA BaseInit == SessionInit => BaseInv
  <1>. SUFFICES ASSUME SessionInit PROVE BaseInv
    OBVIOUS
  <1>0. 1 \in Tokens /\ stored \in {None, 1} /\ stored \in Tokens \cup {None}
    BY TokenAssumption DEF SessionInit, Tokens
  <1>. DEFINE Row(u) == [NoToken EXCEPT !.state = "LIVE", !.user = u]
  <1>1. PICK u \in Users : token = [t \in Tokens |-> IF t = stored THEN Row(u) ELSE NoToken]
    BY DEF SessionInit
  <1>2. /\ Row(u) \in TokenRow /\ Row(u).state = "LIVE" /\ Row(u).user = u
        /\ Row(u).parent = None
        /\ NoToken \in TokenRow /\ NoToken.state = "ABSENT" /\ NoToken.parent = None
    BY DEF NoToken, TokenRow
  <1>. HIDE DEF Row
  <1>3. /\ token \in [Tokens -> TokenRow]
        /\ \A t \in Tokens : token[t] = IF t = stored THEN Row(u) ELSE NoToken
    BY <1>1, <1>2
  <1>4. /\ \A t \in Tokens : token[t].parent = None
        /\ \A t \in Issued : t = stored /\ token[t].user = u
        /\ stored \in Issued \cup {None}
    BY <1>0, <1>2, <1>3 DEF Issued
  <1>5. /\ serve \in [Handlers -> ServeState]
        /\ \A h \in Handlers : /\ serve[h].pc = "idle" /\ serve[h].op = None
                               /\ serve[h].issued = None
    BY DEF SessionInit, NoRequest, ServeState, ServePC
  <1>6. TInv
    <2>1. TokenTypeOK
      BY <1>3, <1>4, <1>5 DEF TokenTypeOK
    <2>2. ServeShape
      BY <1>5 DEF ServeShape, Refreshes, Ended, SessionInit, NoRequest
    <2>3. HeirShape
      BY <1>4 DEF HeirShape
    <2>. QED
      BY <2>1, <2>2, <2>3 DEF TInv
  <1>7. AppTypes
    BY <1>0, RestoringTyped, TokenAssumption DEF SessionInit, AppTypes
  <1>8. \A k \in Tasks : /\ Fits(k, task[k]) /\ task[k].via = None
                         /\ task[k].body = None /\ task[k].pair = None
    BY RestoringTyped DEF SessionInit
  <1>. QED
    BY <1>4, <1>5, <1>6, <1>7, <1>8 DEF BaseInv, TasksFit, ViaOK, Known

\* The app and the server keep their types, and every task has what its place
\* in the code needs, whatever accidents there are.
THEOREM SessionTypeCorrect == SessionSpec => []SessionTypeOK
  <1>1. BaseInv => SessionTypeOK
    BY DEF BaseInv, TInv, AppTypes, SessionTypeOK
  <1>. QED
    BY <1>1, BaseInit, BaseNext, PTL DEF SessionSpec

----------------------------------------------------------------------------
(* Tokens on their way to the storage                                      *)

\* Nobody has refreshed the token, and nobody is at it.
Untouched(x) == Heirs(x) = {} /\ ~Refreshing(x)

\* Neither in the storage nor presented by a task.
Fresh(x) == /\ Untouched(x) /\ stored # x
            /\ \A k \in Tasks : task[k].req = "refresh" => task[k].body # x

\* The token that task k has received and has still to store.
Unstored(k) == task[k].pc = "store" \/ (k # "restore" /\ task[k].req = "me")
Held(k) == IF Unstored(k) THEN task[k].pair ELSE None

\* Tokens on their way, from the server or with a task, are fresh and each is
\* in one place.
FreshInv ==
    \A x \in Tokens :
        /\ \A k \in Tasks : Held(k) = x =>
                Fresh(x) /\ \A j \in Tasks : Held(j) = x => j = k
        /\ \A h \in Handlers : serve[h].issued = x =>
                /\ Fresh(x)
                /\ \A g \in Handlers : serve[g].issued = x => g = h
                /\ \A k \in Tasks : Held(k) # x

\* No refresh arrives or ends, and no row is made.
SameServer ==
    /\ \A h \in Handlers : /\ Refreshes(h)' <=> Refreshes(h)
                           /\ Refreshes(h) => serve'[h].given = serve[h].given
    /\ \A x \in Tokens : /\ Heirs(x)' = Heirs(x)
                         /\ Refreshing(x)' <=> Refreshing(x)
                         /\ token'[x].shared <=> token[x].shared

LEMMA SameServerHolds ==
    ASSUME UNCHANGED token,
           \A h \in Handlers : \/ serve'[h] = serve[h]
                               \/ ~Refreshes(h) /\ ~Refreshes(h)'
    PROVE  SameServer
  <1>1. \A h \in Handlers : /\ Refreshes(h)' <=> Refreshes(h)
                            /\ Refreshes(h) => serve'[h].given = serve[h].given
    BY DEF Refreshes
  <1>2. \A x \in Tokens : Heirs(x)' = Heirs(x)
    BY DEF Heirs
  <1>3. ASSUME NEW x \in Tokens
        PROVE  Refreshing(x)' <=> Refreshing(x)
    <2>1. Refreshing(x) <=> \E h \in Handlers : Refreshes(h) /\ serve[h].given = x
      BY DEF Refreshing, Refreshes
    <2>2. Refreshing(x)' <=> \E h \in Handlers : Refreshes(h)' /\ serve'[h].given = x
      BY DEF Refreshing, Refreshes
    <2>. QED
      BY <1>1, <2>1, <2>2
  <1>. QED
    BY <1>1, <1>2, <1>3 DEF SameServer

LEMMA QuietSame ==
    ASSUME UNCHANGED tokenVars
    PROVE  SameServer
  BY SameServerHolds DEF tokenVars

LEMMA AnsweredSame ==
    ASSUME BaseInv, NEW k \in Tasks, NEW outcome \in {"ok", "refused"}, Answered(k, outcome)
    PROVE  SameServer
  BY AnsweredEffect, SameServerHolds DEF Refreshes, Ended

LEMMA UnclaimedSame ==
    ASSUME BaseInv, NEW h \in Handlers, Unclaimed(h)
    PROVE  SameServer
  <1>1. /\ UNCHANGED token /\ serve[h].pc \in Ended /\ serve'[h].pc \in Ended
        /\ \A g \in Handlers \ {h} : serve'[g] = serve[g]
    BY AnswerEffect DEF Unclaimed, BaseInv, TInv, Ended
  <1>. QED
    BY <1>1, SameServerHolds DEF Refreshes

LEMMA ChangedSame ==
    ASSUME BaseInv, ChangedElsewhere
    PROVE  SameServer
  <1>1. UNCHANGED token
    BY ChangedEffect
  <1>2. PICK h \in Handlers : /\ serve[h].pc = "idle" /\ serve'[h].op = "changePhone"
                              /\ \A g \in Handlers \ {h} : serve'[g] = serve[g]
    BY ChangedEffect
  <1>. QED
    BY <1>1, <1>2, SameServerHolds DEF Refreshes, Ended

LEMMA SendsSame ==
    ASSUME BaseInv, NEW k \in Tasks, NEW h \in Handlers, Sends(k, h),
           task[k].req # "refresh"
    PROVE  SameServer
  BY SameServerHolds DEF Sends, Refreshes, Ended

\* The arrival of a refresh.
LEMMA SendsRefresh ==
    ASSUME BaseInv, NEW k \in Tasks, NEW h \in Handlers, Sends(k, h),
           task[k].req = "refresh"
    PROVE  /\ task[k].body \in Tokens /\ ~Refreshes(h) /\ Refreshes(h)'
           /\ serve'[h].given = task[k].body
           /\ \A g \in Handlers \ {h} : serve'[g] = serve[g]
           /\ \A x \in Tokens :
                /\ Heirs(x)' = Heirs(x)
                /\ Refreshing(x)' <=> Refreshing(x) \/ x = task[k].body
                /\ token'[x].shared <=>
                        token[x].shared \/ (x = task[k].body /\ Refreshing(x))
  <1>1. Refresh(h, task[k].body) /\ task[k].body \in Tokens
    BY OutFields DEF Sends, Issued
  <1>2. /\ ~Refreshes(h) /\ Refreshes(h)' /\ serve'[h].given = task[k].body
        /\ \A g \in Handlers \ {h} : serve'[g] = serve[g]
    <2>1. serve'[h].pc = "read"
      BY <1>1, ArriveEffect DEF Refresh, BaseInv, TInv
    <2>. QED
      BY <2>1 DEF Sends, Refreshes, Ended
  <1>3. ASSUME NEW x \in Tokens
        PROVE  Refreshing(x)' <=> Refreshing(x) \/ x = task[k].body
    <2>1. Refreshing(x) <=> \E g \in Handlers : Refreshes(g) /\ serve[g].given = x
      BY DEF Refreshing, Refreshes
    <2>2. Refreshing(x)' <=> \E g \in Handlers : Refreshes(g)' /\ serve'[g].given = x
      BY DEF Refreshing, Refreshes
    <2>3. \A g \in Handlers \ {h} : Refreshes(g)' <=> Refreshes(g)
      BY <1>2 DEF Refreshes
    <2>. QED
      BY <1>2, <2>1, <2>2, <2>3
  <1>4. ASSUME NEW x \in Tokens
        PROVE  Heirs(x)' = Heirs(x)
    <2>1. \A y \in Tokens : token'[y].parent = token[y].parent
      BY <1>1, RefreshEffect DEF BaseInv, TInv
    <2>. QED
      BY <2>1 DEF Heirs
  <1>5. ASSUME NEW x \in Tokens
        PROVE  token'[x].shared <=> token[x].shared \/ (x = task[k].body /\ Refreshing(x))
    <2>. DEFINE b == task[k].body
                mark == token[b].shared \/ Refreshing(b)
                row == [token[b] EXCEPT !.shared = mark]
    <2>1. token' = [token EXCEPT ![b] = row]
      BY <1>1 DEF Refresh
    <2>2. token[b] \in TokenRow /\ token \in [Tokens -> TokenRow] /\ b \in Tokens
      BY <1>1 DEF BaseInv, TInv, TokenTypeOK
    <2>. HIDE DEF mark
    <2>3. row.shared <=> mark
      BY <2>2 DEF TokenRow
    <2>. HIDE DEF row
    <2>4. token'[b] = row /\ (x # b => token'[x] = token[x])
      BY <2>1, <2>2
    <2>. QED
      BY <2>3, <2>4 DEF mark
  <1>. QED
    BY <1>1, <1>2, <1>3, <1>4, <1>5

\* What the service of a request can do to the tokens: only the refresh of a
\* token gives it an heir.
LEMMA ServeTokens ==
    ASSUME BaseInv, NEW h \in Handlers, ServeStep(h)
    PROVE  /\ \A g \in Handlers : Refreshes(g)' =>
                    Refreshes(g) /\ serve'[g].given = serve[g].given
           /\ \A x \in Tokens :
                /\ Refreshing(x)' => Refreshing(x)
                /\ Heirs(x)' = Heirs(x) \/ (/\ Refreshes(h) /\ serve[h].given = x
                                            /\ serve'[h].pc = "ok")
                /\ token'[x].shared => token[x].shared
                /\ Untouched(x) => Untouched(x)'
  <1>0. TInv
    BY DEF BaseInv
  <1>1. /\ serve[h].pc \notin Ended
        /\ serve'[h].op = serve[h].op /\ serve'[h].given = serve[h].given
        /\ \A g \in Handlers \ {h} : serve'[g] = serve[g]
        /\ (\E t \in Tokens : Makes(h, t)) \/ SameRowsButState
    BY <1>0, ServeEffect
  <1>2. \A g \in Handlers : Refreshes(g)' => Refreshes(g) /\ serve'[g].given = serve[g].given
    BY <1>1 DEF Refreshes
  <1>3. ASSUME NEW x \in Tokens, Refreshing(x)'
        PROVE  Refreshing(x)
    <2>1. PICK g \in Handlers : Refreshes(g)' /\ serve'[g].given = x
      BY <1>3 DEF Refreshing, Refreshes
    <2>. QED
      BY <1>2, <2>1 DEF Refreshing, Refreshes
  <1>4. ASSUME NEW x \in Tokens
        PROVE  /\ Heirs(x)' = Heirs(x) \/ (/\ Refreshes(h) /\ serve[h].given = x
                                           /\ serve'[h].pc = "ok")
               /\ token'[x].shared => token[x].shared
    <2>1. CASE SameRowsButState
      BY <2>1 DEF SameRowsButState, Heirs
    <2>2. ASSUME NEW t \in Tokens, Makes(h, t)
          PROVE  /\ Heirs(x)' = Heirs(x) \/ (/\ Refreshes(h) /\ serve[h].given = x
                                             /\ serve'[h].pc = "ok")
                 /\ token'[x].shared => token[x].shared
      <3>1. token[t].parent = None /\ token'[t].parent = serve[h].given
            /\ \A y \in Tokens \ {t} : token'[y] = token[y]
        BY <1>0, <2>2 DEF Makes, TInv, HeirShape
      <3>2. serve[h].given = x => Refreshes(h) /\ serve'[h].pc = "ok"
        BY <1>0, <1>1, <2>2, NoneIsNothing DEF Makes, TInv, ServeShape, Refreshes
      <3>3. serve[h].given # x => Heirs(x)' = Heirs(x)
        BY <3>1, NoneIsNothing DEF Heirs
      <3>4. token'[x].shared => token[x].shared
        BY <2>2, <3>1 DEF Makes
      <3>. QED
        BY <3>2, <3>3, <3>4
    <2>. QED
      BY <1>1, <2>1, <2>2
  <1>5. ASSUME NEW x \in Tokens, Untouched(x)
        PROVE  Untouched(x)'
    <2>1. ~(Refreshes(h) /\ serve[h].given = x)
      BY <1>5 DEF Untouched, Refreshing, Refreshes
    <2>. QED
      BY <1>3, <1>4, <1>5, <2>1 DEF Untouched
  <1>. QED
    BY <1>2, <1>3, <1>4, <1>5

LEMMA HeldKnown ==
    ASSUME BaseInv
    PROVE  /\ \A k \in Tasks : Held(k) \in Issued \cup {None} /\ Held(k) \in Tokens \cup {None}
           /\ \A h \in Handlers : /\ serve[h].issued \in Issued \cup {None}
                                  /\ serve[h].issued \in Tokens \cup {None}
  BY DEF BaseInv, Known, Held, Issued

\* Tokens on their way stay so, or go from the server to task k, or from it to
\* the storage; what a refresh presents it read in the storage.
LEMMA FreshMoves ==
    ASSUME BaseInv, FreshInv, NEW k \in Tasks,
           \A x \in Tokens : Fresh(x) => Untouched(x)',
           \A j \in Tasks \ {k} : Held(j)' \in {None, Held(j)},
           \A h \in Handlers : serve'[h].issued \in {None, serve[h].issued},
           \/ Held(k)' \in {None, Held(k)}
           \/ \E h \in Handlers : Held(k)' = serve[h].issued /\ serve'[h].issued = None,
           stored' \in {None, stored} \/ (stored' = Held(k) /\ Held(k)' = None),
           \A j \in Tasks : task'[j].req = "refresh" =>
                \/ task'[j].body \in {None, stored}
                \/ task[j].req = "refresh" /\ task'[j].body = task[j].body
    PROVE  FreshInv'
  <1>. SUFFICES ASSUME NEW x \in Tokens
                PROVE  /\ \A j \in Tasks : Held(j)' = x =>
                            Fresh(x)' /\ \A i \in Tasks : Held(i)' = x => i = j
                       /\ \A h \in Handlers : serve'[h].issued = x =>
                            /\ Fresh(x)'
                            /\ \A g \in Handlers : serve'[g].issued = x => g = h
                            /\ \A j \in Tasks : Held(j)' # x
    BY DEF FreshInv
  <1>0. x # None
    BY NoneIsNothing
  <1>1. ASSUME Fresh(x), stored' # x
        PROVE  Fresh(x)'
    BY <1>0, <1>1 DEF Fresh
  <1>2. ASSUME NEW j \in Tasks, Held(j)' = x
        PROVE  Fresh(x)' /\ \A i \in Tasks : Held(i)' = x => i = j
    <2>1. CASE Held(j) = x
      <3>1. /\ Fresh(x) /\ \A i \in Tasks : Held(i) = x => i = j
            /\ \A h \in Handlers : serve[h].issued # x
        BY <2>1 DEF FreshInv
      <3>2. stored' # x
        BY <1>0, <1>2, <2>1, <3>1 DEF Fresh
      <3>. QED
        BY <1>0, <1>1, <3>1, <3>2
    <2>2. ASSUME j = k, NEW h \in Handlers, serve[h].issued = x
          PROVE  Fresh(x)' /\ \A i \in Tasks : Held(i)' = x => i = j
      <3>1. Fresh(x) /\ \A i \in Tasks : Held(i) # x
        BY <2>2 DEF FreshInv
      <3>2. stored' # x
        BY <1>0, <3>1 DEF Fresh
      <3>. QED
        BY <1>0, <1>1, <2>2, <3>1, <3>2
    <2>. QED
      BY <1>0, <1>2, <2>1, <2>2
  <1>3. ASSUME NEW h \in Handlers, serve'[h].issued = x
        PROVE  /\ Fresh(x)'
               /\ \A g \in Handlers : serve'[g].issued = x => g = h
               /\ \A j \in Tasks : Held(j)' # x
    <2>1. serve[h].issued = x
      BY <1>0, <1>3
    <2>2. /\ Fresh(x)
          /\ \A g \in Handlers : serve[g].issued = x => g = h
          /\ \A j \in Tasks : Held(j) # x
      BY <2>1 DEF FreshInv
    <2>3. stored' # x
      BY <1>0, <2>2 DEF Fresh
    <2>. QED
      BY <1>0, <1>1, <1>3, <2>2, <2>3
  <1>. QED
    BY <1>2, <1>3

\* Task j carries no other token than before, and presents none but its own
\* or the stored one.
Carries(j) ==
    /\ Held(j)' \in {None, Held(j)}
    /\ task'[j].req = "refresh" =>
            \/ task'[j].body \in {None, stored}
            \/ task[j].req = "refresh" /\ task'[j].body = task[j].body

LEMMA SameUntouched ==
    ASSUME SameServer, NEW x \in Tokens
    PROVE  Untouched(x)' <=> Untouched(x)
  BY DEF SameServer, Untouched

LEMMA CarriesSame ==
    ASSUME NEW j \in Tasks, task'[j] = task[j]
    PROVE  Carries(j)
  BY DEF Carries, Held, Unstored

\* After these a task has nothing to store.
LEMMA CarriesNothing ==
    ASSUME NEW j \in Tasks, task'[j].pc # "store", task'[j].req # "me",
           task'[j].req = "refresh" => \/ task'[j].body \in {None, stored}
                                       \/ task[j].req = "refresh" /\ task'[j].body = task[j].body
    PROVE  Carries(j)
  BY DEF Carries, Held, Unstored

\* A task with the request it had goes on.
LEMMA CarriesOn ==
    ASSUME NEW j \in Tasks, task[j].pc # "store", task'[j].pc # "store",
           task'[j].req = task[j].req, task'[j].pair = task[j].pair,
           task'[j].body \in {stored, task[j].body}
    PROVE  Carries(j)
  BY DEF Carries, Held, Unstored

LEMMA CarriesWake ==
    ASSUME BaseInv, NEW p \in Tokens \cup {None}, task' = Wake(p), NEW j \in Tasks
    PROVE  Carries(j)
  <1>0. AppTypes
    BY DEF BaseInv
  <1>1. CASE j = "refresher"
    BY <1>0, <1>1, WakeEffect, NoTaskFields, NoneIsNothing, CarriesNothing DEF Requests
  <1>2. CASE j # "refresher" /\ task[j].pc # "wait"
    BY <1>0, <1>2, WakeEffect, CarriesSame
  <1>3. CASE j # "refresher" /\ task[j].pc = "wait" /\ p = None
    <2>1. task'[j] = Do("read", "logout")
      BY <1>0, <1>3, WakeEffect
    <2>. QED
      BY <2>1, DoFields, CarriesNothing
  <1>4. CASE j # "refresher" /\ task[j].pc = "wait" /\ p # None
    BY <1>0, <1>4, WakeEffect, CarriesOn
  <1>. QED
    BY <1>1, <1>2, <1>3, <1>4

LEMMA CarriesEnds ==
    ASSUME NEW k \in Tasks, NEW pc \in {"idle", "clear", "publish"}, Ends(k, pc), NEW j \in Tasks
    PROVE  Carries(j)
  <1>1. CASE j = k
    BY <1>1, NoneIsNothing, CarriesNothing DEF Ends, Requests
  <1>2. CASE j # k
    BY <1>2, CarriesSame DEF Ends, Only
  <1>. QED
    BY <1>1, <1>2

\* All tasks carry what they had and the server sends nothing new.
LEMMA FreshPlain ==
    ASSUME BaseInv, FreshInv, \A j \in Tasks : Carries(j),
           \A x \in Tokens : Fresh(x) => Untouched(x)',
           \A h \in Handlers : serve'[h].issued \in {None, serve[h].issued},
           stored' \in {None, stored}
    PROVE  FreshInv'
  <1>1. "restore" \in Tasks
    BY TaskNames
  <1>. QED
    BY <1>1, FreshMoves DEF Carries

LEMMA FreshQuiet ==
    ASSUME BaseInv, FreshInv, \A j \in Tasks : Carries(j), UNCHANGED tokenVars,
           stored' \in {None, stored}
    PROVE  FreshInv'
  <1>1. \A x \in Tokens : Fresh(x) => Untouched(x)'
    BY QuietSame, SameUntouched DEF Fresh
  <1>. QED
    BY <1>1, FreshPlain DEF tokenVars

LEMMA FreshAnswered ==
    ASSUME BaseInv, FreshInv, \A j \in Tasks : Carries(j), UNCHANGED stored,
           NEW k \in Tasks, NEW outcome \in {"ok", "refused"}, Answered(k, outcome)
    PROVE  FreshInv'
  <1>1. \A x \in Tokens : Fresh(x) => Untouched(x)'
    BY AnsweredSame, SameUntouched DEF Fresh
  <1>2. \A h \in Handlers : serve'[h].issued \in {None, serve[h].issued}
    BY AnsweredEffect
  <1>. QED
    BY <1>1, <1>2, FreshPlain

LEMMA FreshSucceeds ==
    ASSUME BaseInv, FreshInv, NEW k \in Tasks, Succeeds(k)
    PROVE  FreshInv'
  <1>0. Answered(k, "ok") /\ UNCHANGED stored
    BY SucceedsEffect
  <1>1. CASE Ends(k, "clear") \/ Ends(k, "idle")
    BY <1>0, <1>1, CarriesEnds, FreshAnswered
  <1>2. CASE task[k].req = "me" /\ task[k].pc = "ok" /\ k = "restore"
                /\ Yields(k, "publish", None, task[k].pair)
    <2>1. \A j \in Tasks : Carries(j)
      BY <1>2, CarriesSame, CarriesNothing, NoneIsNothing DEF Yields, Only, Requests
    <2>. QED
      BY <1>0, <2>1, FreshAnswered
  <1>3. CASE task[k].req = "me" /\ task[k].pc = "ok" /\ k # "restore"
                /\ Yields(k, "store", None, task[k].pair)
    <2>1. Carries(k)
      BY <1>3, NoneIsNothing DEF Yields, Carries, Held, Unstored, Requests
    <2>2. \A j \in Tasks : Carries(j)
      BY <1>3, <2>1, CarriesSame DEF Yields, Only
    <2>. QED
      BY <1>0, <2>2, FreshAnswered
  <1>4. CASE task[k].pc = "sent" /\ \E pc, req : /\ Yields(k, pc, req, serve[task[k].via].issued)
                                                 /\ req \in {None, "me"}
    <2>1. \A j \in Tasks \ {k} : Carries(j)
      BY <1>4, CarriesSame DEF Yields, Only
    <2>2. task[k].via \in Handlers /\ serve'[task[k].via].issued = None
      BY <1>0, <1>4, AnsweredEffect
    <2>3. Held(k)' \in {None, serve[task[k].via].issued}
      BY <1>4 DEF Yields, Held, Unstored
    <2>4. task'[k].req # "refresh"
      BY <1>4, NoneIsNothing DEF Yields, Requests
    <2>5. \A x \in Tokens : Fresh(x) => Untouched(x)'
      BY <1>0, AnsweredSame, SameUntouched DEF Fresh
    <2>6. \A h \in Handlers : serve'[h].issued \in {None, serve[h].issued}
      BY <1>0, AnsweredEffect
    <2>. QED
      BY <1>0, <2>1, <2>2, <2>3, <2>4, <2>5, <2>6, FreshMoves DEF Carries
  <1>. QED
    BY <1>1, <1>2, <1>3, <1>4, SucceedsEffect

LEMMA FreshStore ==
    ASSUME BaseInv, FreshInv, NEW k \in Tasks, Store(k)
    PROVE  FreshInv'
  <1>1. task[k].pc = "store" /\ stored' = task[k].pair /\ UNCHANGED tokenVars /\ Only(k)
        /\ Fits(k, task[k])
    BY StoreEffect DEF BaseInv, TasksFit, Yields, Turns
  <1>2. Held(k)' = None /\ task'[k].req # "refresh"
    BY <1>1, StoreEffect, NoneIsNothing DEF Yields, Turns, Fits, Held, Unstored, Requests
  <1>3. Held(k) = stored'
    BY <1>1 DEF Held, Unstored
  <1>4. \A j \in Tasks \ {k} : Carries(j)
    BY <1>1, CarriesSame DEF Only
  <1>5. \A x \in Tokens : Fresh(x) => Untouched(x)'
    BY <1>1, QuietSame, SameUntouched DEF Fresh
  <1>. QED
    BY <1>1, <1>2, <1>3, <1>4, <1>5, FreshMoves DEF Carries, tokenVars

LEMMA FreshServe ==
    ASSUME BaseInv, FreshInv, NEW h \in Handlers, ServeStep(h), UNCHANGED appVars
    PROVE  FreshInv'
  <1>0. /\ \A j \in Tasks : Carries(j)
        /\ \A x \in Tokens : Fresh(x) => Untouched(x)'
        /\ UNCHANGED stored /\ \A g \in Handlers \ {h} : serve'[g] = serve[g]
    BY CarriesSame, ServeTokens, ServeEffect DEF appVars, Fresh, BaseInv
  <1>1. CASE serve'[h].issued = serve[h].issued
    BY <1>0, <1>1, FreshPlain
  <1>2. ASSUME NEW t \in Tokens, Makes(h, t)
        PROVE  FreshInv'
    <2>1. t \notin Issued /\ serve'[h].issued = t
      BY <1>2 DEF Makes
    <2>2. /\ \A j \in Tasks : Held(j) # t /\ task[j].body # t
          /\ \A g \in Handlers : serve[g].issued # t
          /\ stored # t
      BY <2>1, HeldKnown, NoneIsNothing DEF BaseInv, Known
    <2>3. Untouched(t)
      <3>1. Heirs(t) = {}
        BY <2>1, NoneIsNothing DEF BaseInv, TInv, HeirShape, Heirs
      <3>2. ~Refreshing(t)
        BY <2>1 DEF Refreshing, BaseInv, TInv, ServeShape, Refreshes
      <3>. QED
        BY <3>1, <3>2 DEF Untouched
    <2>4. Fresh(t)'
      <3>1. Untouched(t)'
        BY <2>3, ServeTokens
      <3>. QED
        BY <1>0, <2>2, <3>1 DEF Fresh, appVars
    <2>5. \A j \in Tasks : Held(j)' = Held(j)
      BY DEF appVars, Held, Unstored
    <2>6. ASSUME NEW x \in Tokens, Fresh(x)
          PROVE  Fresh(x)'
      BY <1>0, <2>6 DEF Fresh, appVars
    <2>7. ASSUME NEW x \in Tokens \ {t}
          PROVE  /\ \A k \in Tasks : Held(k)' = x =>
                        Fresh(x)' /\ \A j \in Tasks : Held(j)' = x => j = k
                 /\ \A f \in Handlers : serve'[f].issued = x =>
                        /\ Fresh(x)'
                        /\ \A g \in Handlers : serve'[g].issued = x => g = f
                        /\ \A k \in Tasks : Held(k)' # x
      BY <1>0, <2>1, <2>5, <2>6 DEF FreshInv
    <2>8. /\ \A k \in Tasks : Held(k)' # t
          /\ \A f \in Handlers : serve'[f].issued = t => f = h
      BY <1>0, <2>2, <2>5
    <2>. QED
      BY <2>4, <2>7, <2>8 DEF FreshInv
  <1>. QED
    BY <1>1, <1>2, ServeEffect DEF BaseInv

LEMMA FreshSends ==
    ASSUME BaseInv, FreshInv, NEW k \in Tasks, NEW h \in Handlers, Sends(k, h)
    PROVE  FreshInv'
  <1>1. \A j \in Tasks : Carries(j)
    BY CarriesSame, CarriesOn DEF Sends, Only
  <1>2. \A g \in Handlers : serve'[g].issued \in {None, serve[g].issued}
    BY DEF Sends
  <1>3. ASSUME NEW x \in Tokens, Fresh(x)
        PROVE  Untouched(x)'
    <2>1. CASE task[k].req # "refresh"
      BY <1>3, <2>1, SendsSame, SameUntouched DEF Fresh
    <2>2. CASE task[k].req = "refresh"
      BY <1>3, <2>2, SendsRefresh DEF Fresh, Untouched
    <2>. QED
      BY <2>1, <2>2
  <1>. QED
    BY <1>1, <1>2, <1>3, FreshPlain DEF Sends

LEMMA FreshWaits ==
    ASSUME BaseInv, FreshInv, NEW k \in Tasks, Unauthorized(k)
    PROVE  FreshInv'
  <1>1. Answered(k, "refused") /\ Waits(k) /\ task[k].pc \in {"sent", "refused"}
    BY UnauthorizedEffect DEF Answered
  <1>2. Carries(k)
    BY <1>1, CarriesOn DEF Waits
  <1>3. ASSUME NEW j \in Tasks \ {k}
        PROVE  Carries(j)
    <2>1. CASE task'[j] = task[j]
      BY <2>1, CarriesSame
    <2>2. CASE task'[j] = Do("read", "refresh")
      BY <2>2, DoFields, CarriesNothing
    <2>. QED
      BY <1>1, <2>1, <2>2 DEF Waits
  <1>. QED
    BY <1>1, <1>2, <1>3, FreshAnswered DEF Waits

LEMMA FreshNext == BaseInv /\ FreshInv /\ [SessionNext]_sessionVars => FreshInv'
  <1>. SUFFICES ASSUME BaseInv, FreshInv, [SessionNext]_sessionVars PROVE FreshInv'
    OBVIOUS
  <1>1. ASSUME UNCHANGED <<tokenVars, stored>>, task' = task
        PROVE  FreshInv'
    BY <1>1, CarriesSame, FreshQuiet
  <1>2. CASE StartLogin \/ StartLeave \/ \E k \in Calls : StartCall(k)
    <2>1. PICK k \in Tasks : Starts(k)
      BY <1>2, StartEffect
    <2>2. \A j \in Tasks : Carries(j)
      BY <2>1, CarriesSame, CarriesNothing DEF Starts, Only
    <2>. QED
      BY <2>1, <2>2, FreshQuiet DEF Starts
  <1>3. ASSUME NEW k \in Tasks, Passes(k)
        PROVE  FreshInv'
    <2>1. \A j \in Tasks : Carries(j)
      BY <1>3, CarriesSame, CarriesOn DEF Passes, Only
    <2>. QED
      BY <1>3, <2>1, FreshQuiet DEF Passes
  <1>4. ASSUME NEW k \in Tasks, TaskStep(k) \/ Lost(k)
        PROVE  FreshInv'
    <2>1. CASE ReadStored(k)
      <3>1. \A j \in Tasks : Carries(j)
        BY <2>1, ReadEffect, CarriesSame, CarriesOn DEF Only
      <3>. QED
        BY <2>1, <3>1, ReadEffect, FreshQuiet
    <2>2. ASSUME UNCHANGED <<tokenVars, stored>>,
                 \/ \E p \in Tokens \cup {None} : task' = Wake(p)
                 \/ \E pc \in {"idle", "clear"} : Ends(k, pc)
          PROVE  FreshInv'
      BY <2>2, CarriesWake, CarriesEnds, FreshQuiet
    <2>3. CASE NothingStored(k) \/ Publish(k) \/ Left(k)
      BY <2>2, <2>3, NothingEffect, PublishEffect, LeftEffect
    <2>4. CASE Arrives(k)
      BY <1>3, <2>4, ArrivesEffect, FreshSends
    <2>5. CASE RefusedAgain(k) \/ Lost(k)
      <3>1. UNCHANGED stored /\ \A j \in Tasks : Carries(j)
        BY <2>5, CatchEffect, CarriesEnds DEF Caught
      <3>. QED
        BY <2>5, <3>1, CatchEffect, FreshAnswered, FreshQuiet
    <2>6. CASE Clear(k)
      <3>1. Fits(k, task[k])
        BY DEF BaseInv, TasksFit
      <3>2. task'[k].req = None /\ task'[k].pc = "left" /\ Only(k)
        BY <2>6, <3>1, ClearEffect DEF Turns, Fits
      <3>3. \A j \in Tasks : Carries(j)
        BY <3>2, CarriesSame, CarriesNothing, NoneIsNothing DEF Only, Requests
      <3>. QED
        BY <2>6, <3>3, ClearEffect, FreshQuiet
    <2>. QED
      BY <1>4, <2>1, <2>3, <2>4, <2>5, <2>6, FreshSucceeds, FreshWaits, FreshStore DEF TaskStep
  <1>5. ASSUME NEW h \in Handlers, ServerStep(h)
        PROVE  FreshInv'
    <2>1. CASE ServeStep(h)
      BY <1>5, <2>1, FreshServe DEF ServerStep
    <2>2. CASE Unclaimed(h)
      <3>1. /\ UNCHANGED stored /\ \A j \in Tasks : Carries(j)
            /\ \A x \in Tokens : Fresh(x) => Untouched(x)'
        BY <1>5, <2>2, CarriesSame, UnclaimedSame, SameUntouched DEF ServerStep, appVars, Fresh
      <3>2. \A g \in Handlers : serve'[g].issued \in {None, serve[g].issued}
        BY <2>2, AnswerEffect DEF Unclaimed, BaseInv, TInv
      <3>. QED
        BY <3>1, <3>2, FreshPlain
    <2>. QED
      BY <1>5, <2>1, <2>2 DEF ServerStep
  <1>6. CASE Kill
    <2>1. \A j \in Tasks : Carries(j)
      <3>1. ASSUME NEW j \in Tasks
            PROVE  /\ task'[j].pc # "store" /\ task'[j].req # "me" /\ task'[j].body = None
        BY <1>6, RestoringTyped, DoFields, NoTaskFields, NoneIsNothing DEF Kill, Requests
      <3>. QED
        BY <3>1, CarriesNothing
    <2>. QED
      BY <1>6, <2>1, FreshQuiet DEF Kill
  <1>7. CASE ChangedElsewhere
    <2>1. /\ UNCHANGED stored /\ \A j \in Tasks : Carries(j)
          /\ \A x \in Tokens : Fresh(x) => Untouched(x)'
      BY <1>7, ChangedEffect, CarriesSame, ChangedSame, SameUntouched DEF appVars, Fresh
    <2>2. \A g \in Handlers : serve'[g].issued \in {None, serve[g].issued}
      BY <1>7, ChangedEffect
    <2>. QED
      BY <2>1, <2>2, FreshPlain
  <1>8. CASE Lapse
    BY <1>1, <1>8 DEF Lapse
  <1>9. CASE UNCHANGED sessionVars
    BY <1>1, <1>9 DEF sessionVars, appVars
  <1>. QED
    BY <1>2, <1>3, <1>4, <1>5, <1>6, <1>7, <1>8, <1>9, WrongPinEffect, TaskNames DEF SessionNext

----------------------------------------------------------------------------
(* An answer has its tokens                                                *)

HasPair(k) == task[k].pc \in {"store", "publish"} \/ task[k].req = "me" => task[k].pair # None

HasIssued(h) ==
    /\ serve[h].pc = "revokeOne" => serve[h].op = "logout"
    /\ serve[h].pc = "ok" /\ serve[h].op \in {"refresh", "login"} => serve[h].issued # None

\* A granted refresh or login was answered with tokens, and who stores or
\* shows tokens has some.
PairInv == (\A k \in Tasks : HasPair(k)) /\ (\A h \in Handlers : HasIssued(h))

LEMMA IssuedServe ==
    ASSUME BaseInv, PairInv, NEW h \in Handlers, ServeStep(h)
    PROVE  \A g \in Handlers : HasIssued(g)'
  <1>0. TInv /\ TokenTypeOK
    BY DEF BaseInv, TInv
  <1>1. \A g \in Handlers \ {h} : HasIssued(g)'
    BY <1>0, ServeEffect DEF PairInv, HasIssued
  <1>2. CASE \E t \in Tokens : Makes(h, t)
    BY <1>0, <1>1, <1>2, ServeEffect, NoneIsNothing DEF Makes, HasIssued
  <1>3. CASE ~\E t \in Tokens : Makes(h, t)
    <2>0. /\ serve'[h].op = serve[h].op /\ ~Issue(h)
          /\ {"revokeAll", "refused", "revokeOld", "issue", "ok", "revokeOne"} \subseteq ServePC
      BY <1>0, <1>3, ServeEffect, MakesEffect DEF ServePC
    <2>1. CASE RevokeAll(h)
      <3>1. serve[h].op \in {"refresh", "changePhone", "resetPin"}
        BY <1>0, <2>1 DEF RevokeAll, TInv, ServeShape
      <3>2. \/ To(h, "refused") \/ To(h, "issue")
            \/ To(h, "ok") /\ serve[h].op = "changePhone"
        BY <2>1, <3>1 DEF RevokeAll
      <3>. QED
        BY <1>0, <1>1, <2>0, <3>2, ToEffect DEF HasIssued
    <2>2. CASE LogoutRead(h) \/ RevokeOne(h)
      <3>1. serve[h].op = "logout" /\ (To(h, "ok") \/ To(h, "revokeOne"))
        BY <2>2 DEF LogoutRead, RevokeOne, PairInv, HasIssued
      <3>. QED
        BY <1>0, <1>1, <2>0, <3>1, ToEffect DEF HasIssued
    <2>3. CASE RotateReused(h) \/ RotateExpired(h) \/ RotateAccepted(h) \/ RevokeOld(h)
      <3>1. To(h, "revokeAll") \/ To(h, "refused") \/ To(h, "revokeOld") \/ To(h, "issue")
        BY <2>3 DEF RotateReused, RotateExpired, RotateAccepted, RevokeOld
      <3>. QED
        BY <1>0, <1>1, <2>0, <3>1, ToEffect DEF HasIssued
    <2>. QED
      BY <2>0, <2>1, <2>2, <2>3 DEF ServeStep
  <1>. QED
    BY <1>2, <1>3

LEMMA PairSame ==
    ASSUME PairInv, NEW j \in Tasks, task'[j] = task[j]
    PROVE  HasPair(j)'
  BY DEF PairInv, HasPair

LEMMA PairOn ==
    ASSUME PairInv, NEW j \in Tasks, task'[j].pc \notin {"store", "publish"},
           task'[j].req = task[j].req, task'[j].pair = task[j].pair
    PROVE  HasPair(j)'
  BY DEF PairInv, HasPair

LEMMA PairNone ==
    ASSUME NEW j \in Tasks, task'[j].pc \notin {"store", "publish"}, task'[j].req # "me"
    PROVE  HasPair(j)'
  BY DEF HasPair

LEMMA PairWake ==
    ASSUME BaseInv, PairInv, NEW p \in Tokens \cup {None}, task' = Wake(p), NEW j \in Tasks
    PROVE  HasPair(j)'
  <1>0. AppTypes
    BY DEF BaseInv
  <1>1. CASE j = "refresher"
    BY <1>0, <1>1, WakeEffect, NoTaskFields, NoneIsNothing, PairNone DEF Requests
  <1>2. CASE j # "refresher" /\ task[j].pc # "wait"
    BY <1>0, <1>2, WakeEffect, PairSame
  <1>3. CASE j # "refresher" /\ task[j].pc = "wait" /\ p = None
    <2>1. task'[j] = Do("read", "logout")
      BY <1>0, <1>3, WakeEffect
    <2>. QED
      BY <2>1, DoFields, PairNone
  <1>4. CASE j # "refresher" /\ task[j].pc = "wait" /\ p # None
    BY <1>0, <1>4, WakeEffect, PairOn
  <1>. QED
    BY <1>1, <1>2, <1>3, <1>4

LEMMA PairEnds ==
    ASSUME PairInv, NEW k \in Tasks, NEW pc \in {"idle", "clear"}, Ends(k, pc), NEW j \in Tasks
    PROVE  HasPair(j)'
  <1>1. CASE j = k
    BY <1>1, NoneIsNothing, PairNone DEF Ends, Requests
  <1>2. CASE j # k
    BY <1>2, PairSame DEF Ends, Only
  <1>. QED
    BY <1>1, <1>2

LEMMA IssuedQuiet ==
    ASSUME PairInv, UNCHANGED tokenVars
    PROVE  \A h \in Handlers : HasIssued(h)'
  BY DEF PairInv, HasIssued, tokenVars

LEMMA IssuedAnswered ==
    ASSUME BaseInv, PairInv, NEW k \in Tasks, NEW outcome \in {"ok", "refused"},
           Answered(k, outcome)
    PROVE  \A h \in Handlers : HasIssued(h)'
  BY AnsweredEffect DEF PairInv, HasIssued

LEMMA PairSucceeds ==
    ASSUME BaseInv, PairInv, NEW k \in Tasks, Succeeds(k)
    PROVE  PairInv'
  <1>0. Answered(k, "ok")
    BY SucceedsEffect
  <1>1. task[k].pc = "sent" /\ task[k].req \in {"refresh", "login"} =>
            serve[task[k].via].issued # None
    <2>1. task[k].pc = "sent" => /\ task[k].via \in Handlers /\ task[k].via # None
                                 /\ serve[task[k].via].pc = "ok"
      BY <1>0, AnsweredEffect, NoneIsNothing
    <2>2. task[k].pc = "sent" => serve[task[k].via].op = task[k].req
      BY <2>1 DEF BaseInv, ViaOK, Served
    <2>. QED
      BY <2>1, <2>2 DEF PairInv, HasIssued
  <1>2. task[k].req = "me" => task[k].pair # None
    BY DEF PairInv, HasPair
  <1>3. ASSUME NEW pc, NEW req, NEW p, Yields(k, pc, req, p), p # None
        PROVE  \A j \in Tasks : HasPair(j)'
    <2>1. HasPair(k)'
      BY <1>3 DEF Yields, HasPair
    <2>. QED
      BY <1>3, <2>1, PairSame DEF Yields, Only
  <1>4. CASE Ends(k, "clear") \/ Ends(k, "idle")
    BY <1>0, <1>4, PairEnds, IssuedAnswered DEF PairInv
  <1>5. CASE \E pc, req, p : Yields(k, pc, req, p) /\ p # None
    BY <1>0, <1>3, <1>5, IssuedAnswered DEF PairInv
  <1>. QED
    BY <1>1, <1>2, <1>4, <1>5, SucceedsEffect

LEMMA PairWaits ==
    ASSUME BaseInv, PairInv, NEW k \in Tasks, Unauthorized(k)
    PROVE  PairInv'
  <1>1. Answered(k, "refused") /\ Waits(k)
    BY UnauthorizedEffect
  <1>2. HasPair(k)'
    BY <1>1, PairOn DEF Waits
  <1>3. ASSUME NEW j \in Tasks \ {k}
        PROVE  HasPair(j)'
    <2>1. CASE task'[j] = task[j]
      BY <2>1, PairSame
    <2>2. CASE task'[j] = Do("read", "refresh")
      BY <2>2, DoFields, PairNone
    <2>. QED
      BY <1>1, <2>1, <2>2 DEF Waits
  <1>. QED
    BY <1>1, <1>2, <1>3, IssuedAnswered DEF PairInv

LEMMA PairStore ==
    ASSUME BaseInv, PairInv, NEW k \in Tasks, Store(k)
    PROVE  PairInv'
  <1>1. task[k].pc = "store" /\ task[k].pair # None /\ task'[k].pair = task[k].pair
        /\ Only(k) /\ UNCHANGED tokenVars
    BY StoreEffect DEF PairInv, HasPair, Yields, Turns
  <1>2. \A j \in Tasks : HasPair(j)'
    <2>1. HasPair(k)'
      BY <1>1 DEF HasPair
    <2>. QED
      BY <1>1, <2>1, PairSame DEF Only
  <1>. QED
    BY <1>1, <1>2, IssuedQuiet DEF PairInv

LEMMA PairNext == BaseInv /\ PairInv /\ [SessionNext]_sessionVars => PairInv'
  <1>. SUFFICES ASSUME BaseInv, PairInv, [SessionNext]_sessionVars PROVE PairInv'
    OBVIOUS
  <1>1. ASSUME UNCHANGED tokenVars, \A j \in Tasks : HasPair(j)'
        PROVE  PairInv'
    BY <1>1, IssuedQuiet DEF PairInv
  <1>2. CASE StartLogin \/ StartLeave \/ \E k \in Calls : StartCall(k)
    <2>1. PICK k \in Tasks : Starts(k)
      BY <1>2, StartEffect
    <2>2. \A j \in Tasks : HasPair(j)'
      BY <2>1, PairSame, PairNone DEF Starts, Only
    <2>. QED
      BY <1>1, <2>1, <2>2 DEF Starts
  <1>3. ASSUME NEW k \in Tasks, Passes(k)
        PROVE  PairInv'
    <2>1. \A j \in Tasks : HasPair(j)'
      BY <1>3, PairSame, PairOn DEF Passes, Only
    <2>. QED
      BY <1>1, <1>3, <2>1 DEF Passes
  <1>4. ASSUME NEW k \in Tasks, TaskStep(k) \/ Lost(k)
        PROVE  PairInv'
    <2>1. CASE ReadStored(k)
      <3>1. \A j \in Tasks : HasPair(j)'
        BY <2>1, ReadEffect, PairSame, PairOn DEF Only
      <3>. QED
        BY <1>1, <2>1, <3>1, ReadEffect
    <2>2. ASSUME UNCHANGED tokenVars,
                 \/ \E p \in Tokens \cup {None} : task' = Wake(p)
                 \/ \E pc \in {"idle", "clear"} : Ends(k, pc)
          PROVE  PairInv'
      BY <1>1, <2>2, PairWake, PairEnds
    <2>3. CASE NothingStored(k) \/ Publish(k) \/ Left(k)
      BY <2>2, <2>3, NothingEffect, PublishEffect, LeftEffect
    <2>4. CASE Arrives(k)
      <3>1. ASSUME NEW h \in Handlers, Sends(k, h)
            PROVE  PairInv'
        <4>1. \A j \in Tasks : HasPair(j)'
          BY <3>1, PairSame, PairOn DEF Sends, Only
        <4>2. \A g \in Handlers : HasIssued(g)'
          BY <3>1 DEF Sends, PairInv, HasIssued
        <4>. QED
          BY <4>1, <4>2 DEF PairInv
      <3>. QED
        BY <1>3, <2>4, <3>1, ArrivesEffect
    <2>5. CASE RefusedAgain(k) \/ Lost(k)
      <3>1. \A j \in Tasks : HasPair(j)'
        BY <2>5, CatchEffect, PairEnds DEF Caught
      <3>. QED
        BY <1>1, <2>5, <3>1, CatchEffect, IssuedAnswered DEF PairInv
    <2>6. CASE Clear(k)
      <3>1. Fits(k, task[k])
        BY DEF BaseInv, TasksFit
      <3>2. task'[k].req = None /\ task'[k].pc = "left" /\ Only(k)
        BY <2>6, <3>1, ClearEffect DEF Turns, Fits
      <3>3. \A j \in Tasks : HasPair(j)'
        BY <3>2, PairSame, PairNone, NoneIsNothing DEF Only, Requests
      <3>. QED
        BY <1>1, <2>6, <3>3, ClearEffect
    <2>. QED
      BY <1>4, <2>1, <2>3, <2>4, <2>5, <2>6, PairSucceeds, PairWaits, PairStore DEF TaskStep
  <1>5. ASSUME NEW h \in Handlers, ServerStep(h)
        PROVE  PairInv'
    <2>1. \A j \in Tasks : HasPair(j)'
      BY <1>5, PairSame DEF ServerStep, appVars
    <2>2. CASE Unclaimed(h)
      <3>1. \A g \in Handlers : HasIssued(g)'
        BY <2>2, AnswerEffect DEF Unclaimed, BaseInv, TInv, PairInv, HasIssued
      <3>. QED
        BY <2>1, <3>1 DEF PairInv
    <2>. QED
      BY <1>5, <2>1, <2>2, IssuedServe DEF ServerStep, PairInv
  <1>6. CASE Kill
    <2>1. \A j \in Tasks : HasPair(j)'
      <3>1. ASSUME NEW j \in Tasks
            PROVE  task'[j].pc \notin {"store", "publish"} /\ task'[j].req # "me"
        BY <1>6, RestoringTyped, DoFields, NoTaskFields, NoneIsNothing DEF Kill, Requests
      <3>. QED
        BY <3>1, PairNone
    <2>. QED
      BY <1>1, <1>6, <2>1 DEF Kill
  <1>7. CASE ChangedElsewhere
    <2>1. \A j \in Tasks : HasPair(j)'
      BY <1>7, ChangedEffect, PairSame DEF appVars
    <2>2. \A g \in Handlers : HasIssued(g)'
      BY <1>7, ChangedEffect DEF PairInv, HasIssued
    <2>. QED
      BY <2>1, <2>2 DEF PairInv
  <1>8. CASE Lapse
    BY <1>1, <1>8, PairSame DEF Lapse
  <1>9. CASE UNCHANGED sessionVars
    BY <1>1, <1>9, PairSame DEF sessionVars, appVars
  <1>. QED
    BY <1>2, <1>3, <1>4, <1>5, <1>6, <1>7, <1>8, <1>9, WrongPinEffect, TaskNames DEF SessionNext

----------------------------------------------------------------------------
(* A token the server has exchanged does not stay in the storage           *)

\* Task k is about to present token x, has presented it and will replace or
\* clear it, or is at that.
Redeems(k, x) ==
    \/ task[k].req = "refresh" /\ (task[k].pc = "read" \/ task[k].body = x)
    \/ task[k].pc \in {"store", "clear"}

\* Only restore refreshes token x, or has and will learn of it.
Reported(x) ==
    /\ \A h \in Handlers : Refreshes(h) /\ serve[h].given = x => task["restore"].via = h
    /\ Heirs(x) # {} => /\ task["restore"].pc = "sent" /\ task["restore"].req = "refresh"
                        /\ task["restore"].body = x /\ serve[task["restore"].via].pc = "ok"

\* A stored token that was refreshed is at a task which redeems it; when the
\* refresher has cleared the storage and something is stored again, it is at
\* restore, the only one that can have stored it.
SpentInv ==
    \A x \in Tokens : stored = x =>
        /\ ~Untouched(x) => Redeems("restore", x) \/ Redeems("refresher", x)
        /\ task["refresher"].pc = "left" /\ task["restore"].pc \notin {"store", "clear"}
                => Reported(x)

LEMMA RefreshingMeans ==
    ASSUME NEW x \in Tokens
    PROVE  /\ Refreshing(x) <=> \E h \in Handlers : Refreshes(h) /\ serve[h].given = x
           /\ Refreshing(x)' <=> \E h \in Handlers : Refreshes(h)' /\ serve'[h].given = x
  BY DEF Refreshing, Refreshes

LEMMA UntouchedReported ==
    ASSUME NEW x \in Tokens
    PROVE  Untouched(x)' => Reported(x)'
  BY RefreshingMeans DEF Untouched, Reported

\* Restore has nothing at the server that could concern a refresh.
Clears == /\ task["restore"].via = None \/ ~Refreshes(task["restore"].via)
          /\ ~(/\ task["restore"].pc = "sent" /\ task["restore"].req = "refresh"
               /\ serve[task["restore"].via].pc = "ok")

LEMMA ClearsUntouched ==
    ASSUME NEW x \in Tokens, Reported(x), Clears
    PROVE  Untouched(x)
  <1>1. ~Refreshing(x)
    <2>. SUFFICES ASSUME NEW h \in Handlers, Refreshes(h), serve[h].given = x PROVE FALSE
      BY RefreshingMeans
    <2>1. task["restore"].via = h
      BY DEF Reported
    <2>2. h # None
      BY NoneIsNothing
    <2>. QED
      BY <2>1, <2>2 DEF Clears
  <1>2. Heirs(x) = {}
    BY DEF Reported, Clears
  <1>. QED
    BY <1>1, <1>2 DEF Untouched

\* Nothing is stored, or what nobody has refreshed.
LEMMA SpentUntouched ==
    ASSUME \A x \in Tokens : stored' = x => Untouched(x)'
    PROVE  SpentInv'
  BY UntouchedReported DEF SpentInv

LEMMA SpentNothing ==
    ASSUME stored' = None
    PROVE  SpentInv'
  BY SpentUntouched, NoneIsNothing

\* Restore and what it has at the server stay as they are.
Stays == /\ task'["restore"] = task["restore"]
         /\ task["restore"].via # None =>
                serve'[task["restore"].via].pc = serve[task["restore"].via].pc

LEMMA SpentSame ==
    ASSUME BaseInv, SpentInv, SameServer, UNCHANGED stored,
           \A x \in Tokens : /\ stored = x /\ ~Untouched(x)
                             /\ Redeems("restore", x) \/ Redeems("refresher", x)
                => Redeems("restore", x)' \/ Redeems("refresher", x)',
           task'["refresher"].pc = "left" =>
                /\ task["refresher"].pc = "left"
                /\ \/ task'["restore"].pc \in {"store", "clear"} \/ Stays
                   \/ task["restore"].pc \notin {"store", "clear"} /\ Clears
    PROVE  SpentInv'
  <1>. SUFFICES ASSUME NEW x \in Tokens, stored = x
                PROVE  /\ ~Untouched(x)' => Redeems("restore", x)' \/ Redeems("refresher", x)'
                       /\ task'["refresher"].pc = "left" /\ task'["restore"].pc \notin {"store", "clear"}
                                => Reported(x)'
    BY DEF SpentInv
  <1>1. Untouched(x)' <=> Untouched(x)
    BY SameUntouched
  <1>2. ~Untouched(x)' => Redeems("restore", x)' \/ Redeems("refresher", x)'
    BY <1>1 DEF SpentInv
  <1>3. ASSUME task'["refresher"].pc = "left", task'["restore"].pc \notin {"store", "clear"}
        PROVE  Reported(x)'
    <2>1. CASE task["restore"].pc \notin {"store", "clear"} /\ Clears
      <3>1. Reported(x)
        BY <1>3, <2>1 DEF SpentInv
      <3>. QED
        BY <1>1, <2>1, <3>1, ClearsUntouched, UntouchedReported
    <2>2. CASE Stays
      <3>1. Reported(x)
        BY <1>3, <2>2 DEF SpentInv, Stays
      <3>2. \A h \in Handlers : Refreshes(h)' /\ serve'[h].given = x => task'["restore"].via = h
        BY <2>2, <3>1 DEF SameServer, Stays, Reported
      <3>3. Heirs(x)' # {} =>
                /\ task'["restore"].pc = "sent" /\ task'["restore"].req = "refresh"
                /\ task'["restore"].body = x /\ serve'[task'["restore"].via].pc = "ok"
        <4>1. task["restore"].pc = "sent" => task["restore"].via # None
          BY TaskNames DEF BaseInv, TasksFit, Fits
        <4>. QED
          BY <2>2, <3>1, <4>1 DEF SameServer, Stays, Reported
      <3>. QED
        BY <3>2, <3>3 DEF Reported
    <2>. QED
      BY <1>3, <2>1, <2>2
  <1>. QED
    BY <1>2, <1>3

\* A step of one task at most, which leaves the storage alone.
LEMMA SpentOnly ==
    ASSUME BaseInv, SpentInv, SameServer, UNCHANGED stored, NEW k \in Tasks, Only(k),
           k # "restore" => Stays,
           k \in {"restore", "refresher"} =>
                \A x \in Tokens : stored = x /\ Redeems(k, x) => Redeems(k, x)',
           k = "refresher" => task'[k].pc # "left",
           k = "restore" => \/ task'[k].pc \in {"store", "clear"}
                            \/ task[k].pc \notin {"store", "clear"} /\ Clears
    PROVE  SpentInv'
  <1>0. {"restore", "refresher"} \subseteq Tasks
    BY TaskNames
  <1>1. \A x \in Tokens : /\ stored = x /\ ~Untouched(x)
                          /\ Redeems("restore", x) \/ Redeems("refresher", x)
                => Redeems("restore", x)' \/ Redeems("refresher", x)'
    BY <1>0 DEF Only, Redeems
  <1>2. task'["refresher"].pc = "left" =>
                /\ task["refresher"].pc = "left"
                /\ \/ task'["restore"].pc \in {"store", "clear"} \/ Stays
                   \/ task["restore"].pc \notin {"store", "clear"} /\ Clears
    BY <1>0 DEF Only
  <1>. QED
    BY <1>1, <1>2, SpentSame

LEMMA StaysQuiet ==
    ASSUME task'["restore"] = task["restore"], UNCHANGED serve
    PROVE  Stays
  BY DEF Stays

LEMMA StaysAnswered ==
    ASSUME BaseInv, NEW k \in Tasks, NEW outcome \in {"ok", "refused"}, Answered(k, outcome),
           k # "restore", task'["restore"] = task["restore"]
    PROVE  Stays
  <1>. DEFINE v == task["restore"].via
  <1>1. ASSUME v # None
        PROVE  serve'[v].pc = serve[v].pc
    <2>1. v \in Handlers
      BY <1>1, TaskNames DEF BaseInv, AppTypes, TaskState
    <2>2. v # task[k].via
      BY <1>1, TaskNames DEF BaseInv, ViaOK
    <2>. QED
      BY <2>1, <2>2, AnsweredEffect
  <1>. QED
    BY <1>1 DEF Stays

\* Another request arrives where restore's is not.
LEMMA StaysArrives ==
    ASSUME BaseInv, NEW h \in Handlers, serve[h].pc = "idle",
           \A g \in Handlers \ {h} : serve'[g] = serve[g],
           task'["restore"] = task["restore"]
    PROVE  Stays
  <1>. DEFINE v == task["restore"].via
  <1>1. v # None => v \in Handlers \ {h}
    BY TaskNames DEF BaseInv, AppTypes, TaskState, ViaOK, Served
  <1>. QED
    BY <1>1 DEF Stays

\* A refused restore, one that was answered in another matter, one that has
\* not been sent.
LEMMA ClearsHolds ==
    ASSUME BaseInv
    PROVE  /\ task["restore"].pc # "sent" => Clears
           /\ Answered("restore", "refused") => Clears
           /\ task["restore"].req # "refresh" => Clears
  <1>. DEFINE t == task["restore"]
  <1>1. Fits("restore", t) /\ (t.via # None => t.via \in Handlers /\ Served("restore"))
    BY TaskNames DEF BaseInv, TasksFit, ViaOK, AppTypes, TaskState
  <1>2. t.pc # "sent" => Clears
    BY <1>1 DEF Fits, Clears
  <1>3. Answered("restore", "refused") => Clears
    BY <1>1 DEF Fits, Clears, Answered, Refreshes, Ended
  <1>4. t.req # "refresh" => Clears
    BY <1>1 DEF Fits, Clears, Refreshes, Served
  <1>. QED
    BY <1>2, <1>3, <1>4

\* A step of a task other than the two, or of one of them outside a refresh.
LEMMA SpentPlain ==
    ASSUME BaseInv, SpentInv, SameServer, UNCHANGED stored, NEW k \in Tasks, Only(k),
           k # "restore" => Stays,
           k \in {"restore", "refresher"} => /\ task[k].req # "refresh"
                                             /\ task[k].pc \notin {"store", "clear"},
           task'[k].pc # "left"
    PROVE  SpentInv'
  BY SpentOnly, ClearsHolds DEF Redeems

LEMMA SpentWake ==
    ASSUME BaseInv, SpentInv, UNCHANGED <<tokenVars, stored>>, NEW p \in Tokens \cup {None},
           task' = Wake(p), task["refresher"].pc \in {"publish", "left"},
           p = None => task["refresher"].pc = "left"
    PROVE  SpentInv'
  <1>0. AppTypes /\ SameServer /\ {"restore", "refresher"} \subseteq Tasks
    BY QuietSame, TaskNames DEF BaseInv
  <1>1. task'["refresher"].pc = "idle"
    BY <1>0, WakeEffect, NoTaskFields
  <1>2. task["refresher"].req = None
    BY <1>0 DEF BaseInv, TasksFit, Fits
  <1>3. ASSUME NEW x \in Tokens, stored = x, ~Untouched(x),
               Redeems("restore", x) \/ Redeems("refresher", x)
        PROVE  Redeems("restore", x)'
    <2>1. Redeems("restore", x)
      BY <1>2, <1>3, NoneIsNothing DEF Redeems, Requests
    <2>2. CASE task["restore"].pc # "wait"
      <3>1. task'["restore"] = task["restore"]
        BY <1>0, <2>2, WakeEffect
      <3>. QED
        BY <2>1, <3>1 DEF Redeems
    <2>3. CASE task["restore"].pc = "wait" /\ p # None
      BY <1>0, <2>1, <2>3, WakeEffect DEF Redeems
    <2>4. CASE task["restore"].pc = "wait" /\ p = None
      <3>1. Reported(x)
        BY <1>3, <2>4 DEF SpentInv
      <3>2. Clears
        BY <2>4, ClearsHolds
      <3>. QED
        BY <1>3, <3>1, <3>2, ClearsUntouched
    <2>. QED
      BY <2>2, <2>3, <2>4
  <1>. QED
    BY <1>0, <1>1, <1>3, SpentSame

LEMMA SpentSends ==
    ASSUME BaseInv, SpentInv, NEW k \in Tasks, NEW h \in Handlers, Sends(k, h)
    PROVE  SpentInv'
  <1>0. {"restore", "refresher"} \subseteq Tasks
    BY TaskNames
  <1>1. k # "restore" => Stays
    BY <1>0, StaysArrives DEF Sends, Only
  <1>2. CASE task[k].req # "refresh"
    BY <1>1, <1>2, SendsSame, SpentPlain DEF Sends
  <1>3. CASE task[k].req = "refresh"
    <2>0. k \in {"restore", "refresher"} /\ task[k].via = None /\ stored' = stored
      BY <1>3, OutFields DEF BaseInv, TasksFit, Fits, Sends
    <2>. SUFFICES ASSUME NEW x \in Tokens, stored = x
                  PROVE  /\ ~Untouched(x)' => Redeems("restore", x)' \/ Redeems("refresher", x)'
                         /\ task'["refresher"].pc = "left" => Reported(x)'
      BY <2>0 DEF SpentInv
    <2>1. /\ Heirs(x)' = Heirs(x)
          /\ Refreshing(x)' <=> Refreshing(x) \/ x = task[k].body
          /\ \A g \in Handlers \ {h} : serve'[g] = serve[g]
          /\ serve'[h].given = task[k].body /\ Refreshes(h)'
      BY <1>3, SendsRefresh
    <2>2. ~Untouched(x)' => Redeems("restore", x)' \/ Redeems("refresher", x)'
      <3>1. CASE x = task[k].body
        BY <1>3, <2>0, <3>1 DEF Sends, Redeems
      <3>2. CASE x # task[k].body
        <4>1. Untouched(x)' <=> Untouched(x)
          BY <2>1, <3>2 DEF Untouched
        <4>2. ~Redeems(k, x)
          BY <3>2 DEF Redeems, Sends
        <4>. QED
          BY <1>0, <2>0, <4>1, <4>2 DEF SpentInv, Redeems, Sends, Only
      <3>. QED
        BY <3>1, <3>2
    <2>3. ASSUME task'["refresher"].pc = "left"
          PROVE  Reported(x)'
      <3>1. k = "restore" /\ task["refresher"].pc = "left" /\ task[k].pc = "out"
        BY <1>0, <2>0, <2>3 DEF Sends, Only
      <3>2. Untouched(x)
        BY <3>1, ClearsHolds, ClearsUntouched DEF SpentInv
      <3>3. \A g \in Handlers : Refreshes(g)' /\ serve'[g].given = x => g = h
        <4>1. ASSUME NEW g \in Handlers \ {h}, Refreshes(g)', serve'[g].given = x
              PROVE  FALSE
          <5>1. Refreshes(g) /\ serve[g].given = x
            BY <2>1, <4>1 DEF Refreshes
          <5>. QED
            BY <3>2, <5>1, RefreshingMeans DEF Untouched
        <4>. QED
          BY <4>1
      <3>4. task'["restore"].via = h
        BY <3>1 DEF Sends
      <3>. QED
        BY <2>1, <3>2, <3>3, <3>4 DEF Reported, Untouched
    <2>. QED
      BY <2>2, <2>3
  <1>. QED
    BY <1>2, <1>3

LEMMA SpentServe ==
    ASSUME BaseInv, SpentInv, NEW h \in Handlers, ServeStep(h), UNCHANGED appVars
    PROVE  SpentInv'
  <1>0. stored' = stored /\ task' = task /\ "restore" \in Tasks
    BY TaskNames DEF appVars
  <1>. SUFFICES ASSUME NEW x \in Tokens, stored = x
                PROVE  /\ ~Untouched(x)' => Redeems("restore", x)' \/ Redeems("refresher", x)'
                       /\ task'["refresher"].pc = "left" /\ task'["restore"].pc \notin {"store", "clear"}
                                => Reported(x)'
    BY <1>0 DEF SpentInv
  <1>1. ~Untouched(x)' => Redeems("restore", x)' \/ Redeems("refresher", x)'
    BY <1>0, ServeTokens DEF SpentInv, Redeems
  <1>2. ASSUME Reported(x)
        PROVE  Reported(x)'
    <2>1. \A g \in Handlers : Refreshes(g)' /\ serve'[g].given = x => task'["restore"].via = g
      BY <1>0, <1>2, ServeTokens DEF Reported
    <2>2. CASE Heirs(x)' = Heirs(x)
      <3>1. ASSUME Heirs(x) # {}
            PROVE  serve'[task["restore"].via].pc = "ok"
        <4>1. task["restore"].pc = "sent" /\ serve[task["restore"].via].pc = "ok"
          BY <1>2, <3>1 DEF Reported
        <4>2. task["restore"].via \in Handlers
          BY <1>0, <4>1 DEF BaseInv, TasksFit, Fits, AppTypes, TaskState
        <4>3. serve[h].pc \notin Ended /\ \A g \in Handlers \ {h} : serve'[g] = serve[g]
          BY ServeEffect DEF BaseInv
        <4>. QED
          BY <4>1, <4>2, <4>3 DEF Ended
      <3>. QED
        BY <1>0, <1>2, <2>1, <2>2, <3>1 DEF Reported
    <2>3. CASE Refreshes(h) /\ serve[h].given = x /\ serve'[h].pc = "ok"
      <3>1. task["restore"].via = h /\ h # None
        BY <1>2, <2>3, NoneIsNothing DEF Reported
      <3>2. Served("restore") /\ task["restore"].pc = "sent"
        BY <1>0, <3>1 DEF BaseInv, ViaOK, TasksFit, Fits
      <3>. QED
        BY <1>0, <2>1, <2>3, <3>1, <3>2 DEF Reported, Served, Refreshes
    <2>. QED
      BY <2>2, <2>3, ServeTokens
  <1>. QED
    BY <1>0, <1>1, <1>2 DEF SpentInv

LEMMA SpentStore ==
    ASSUME BaseInv, FreshInv, PairInv, NEW k \in Tasks, Store(k)
    PROVE  SpentInv'
  <1>1. task[k].pc = "store" /\ stored' = task[k].pair /\ UNCHANGED tokenVars
    BY StoreEffect
  <1>2. ASSUME NEW x \in Tokens, stored' = x
        PROVE  Untouched(x)'
    <2>1. Held(k) = x
      BY <1>1, <1>2 DEF Held, Unstored
    <2>2. Untouched(x)
      BY <2>1 DEF FreshInv, Fresh
    <2>. QED
      BY <1>1, <2>2, QuietSame, SameUntouched
  <1>. QED
    BY <1>2, SpentUntouched

\* The refresh is over for task k: with a pair to store, or a storage to clear.
LEMMA SpentOver ==
    ASSUME BaseInv, SpentInv, SameServer, UNCHANGED stored, NEW k \in Tasks, Only(k),
           k # "restore" => Stays, task'[k].pc \in {"store", "clear"}
    PROVE  SpentInv'
  BY SpentOnly DEF Redeems

LEMMA SpentSucceeds ==
    ASSUME BaseInv, SpentInv, NEW k \in Tasks, Succeeds(k)
    PROVE  SpentInv'
  <1>1. /\ Answered(k, "ok") /\ UNCHANGED stored /\ Only(k)
        /\ task'[k].pc \in {"store", "clear"} \/ (/\ task[k].req # "refresh"
                                                  /\ task'[k].pc \in {"out", "publish", "idle"})
    BY SucceedsEffect DEF Yields, Ends
  <1>2. task[k].pc \notin {"store", "clear"} /\ SameServer
    BY <1>1, AnsweredSame DEF Answered
  <1>3. k # "restore" => Stays
    BY <1>1, StaysAnswered, TaskNames DEF Only
  <1>. QED
    BY <1>1, <1>2, <1>3, SpentOver, SpentPlain

LEMMA SpentCaught ==
    ASSUME BaseInv, SpentInv, NEW k \in Tasks, RefusedAgain(k) \/ Lost(k)
    PROVE  SpentInv'
  <1>1. /\ UNCHANGED stored /\ Only(k)
        /\ task'[k].pc = "clear" \/ (task[k].req # "refresh" /\ task'[k].pc = "idle")
        /\ \/ Answered(k, "refused")
           \/ task[k].pc \in {"out", "sent"} /\ UNCHANGED tokenVars
    BY CatchEffect DEF Caught, Ends
  <1>2. task[k].pc \notin {"store", "clear"} /\ SameServer
    BY <1>1, AnsweredSame, QuietSame DEF Answered
  <1>3. k # "restore" => Stays
    BY <1>1, StaysAnswered, StaysQuiet, TaskNames DEF Only, tokenVars
  <1>. QED
    BY <1>1, <1>2, <1>3, SpentOver, SpentPlain

LEMMA SpentWaits ==
    ASSUME BaseInv, SpentInv, NEW k \in Tasks, Unauthorized(k)
    PROVE  SpentInv'
  <1>1. /\ Answered(k, "refused") /\ Waits(k) /\ SameServer /\ UNCHANGED stored
        /\ task[k].pc \in {"sent", "refused"} /\ {"restore", "refresher"} \subseteq Tasks
    BY UnauthorizedEffect, AnsweredSame, TaskNames DEF Answered, Waits
  <1>2. ASSUME NEW j \in {"restore", "refresher"}, NEW x, Redeems(j, x)
        PROVE  Redeems(j, x)'
    <2>1. CASE j = k
      BY <1>1, <1>2, <2>1 DEF Waits, Redeems
    <2>2. CASE j # k
      <3>1. task[j].pc # "idle"
        <4>1. Fits(j, task[j])
          BY <1>1 DEF BaseInv, TasksFit
        <4>. QED
          BY <1>2, <4>1, NoneIsNothing DEF Redeems, Fits, Requests
      <3>2. task'[j] = task[j]
        BY <1>1, <2>2, <3>1 DEF Waits
      <3>. QED
        BY <1>2, <3>2 DEF Redeems
    <2>. QED
      BY <2>1, <2>2
  <1>3. ASSUME task'["refresher"].pc = "left"
        PROVE  /\ task["refresher"].pc = "left"
               /\ Stays \/ (task["restore"].pc \notin {"store", "clear"} /\ Clears)
    <2>1. task["refresher"].pc = "left"
      BY <1>1, <1>3, DoFields DEF Waits
    <2>2. CASE k = "restore"
      BY <1>1, <2>1, <2>2, ClearsHolds
    <2>3. CASE k # "restore"
      BY <1>1, <2>1, <2>3, StaysAnswered DEF Waits
    <2>. QED
      BY <2>1, <2>2, <2>3
  <1>. QED
    BY <1>1, <1>2, <1>3, SpentSame

LEMMA SpentKill ==
    ASSUME BaseInv, SpentInv, Kill
    PROVE  SpentInv'
  <1>1. SameServer /\ UNCHANGED stored /\ {"restore", "refresher"} \subseteq Tasks
    BY QuietSame, TaskNames DEF Kill
  <1>2. task'["restore"] = Do("read", "refresh") /\ task'["refresher"] = NoTask
    BY <1>1, RestoringTyped DEF Kill
  <1>3. \A x \in Tokens : Redeems("restore", x)'
    BY <1>2, DoFields DEF Redeems
  <1>4. task'["refresher"].pc # "left"
    BY <1>2, NoTaskFields
  <1>. QED
    BY <1>1, <1>3, <1>4, SpentSame

LEMMA SpentNext ==
    BaseInv /\ FreshInv /\ PairInv /\ SpentInv /\ [SessionNext]_sessionVars => SpentInv'
  <1>. SUFFICES ASSUME BaseInv, FreshInv, PairInv, SpentInv, [SessionNext]_sessionVars
                PROVE  SpentInv'
    OBVIOUS
  <1>0. {"restore", "refresher", "login"} \subseteq Tasks
    BY TaskNames
  <1>1. ASSUME UNCHANGED stored, task' = task, SameServer, Stays
        PROVE  SpentInv'
    <2>1. \A k, x : Redeems(k, x)' <=> Redeems(k, x)
      BY <1>1 DEF Redeems
    <2>. QED
      BY <1>1, <2>1, SpentSame
  <1>2. CASE StartLogin \/ StartLeave \/ \E k \in Calls : StartCall(k)
    <2>1. PICK k \in Tasks \ {"restore", "refresher"} : Starts(k)
      BY <1>2, StartEffect
    <2>2. Stays
      BY <1>0, <2>1, StaysQuiet DEF Starts, Only, tokenVars
    <2>. QED
      BY <2>1, <2>2, QuietSame, SpentPlain DEF Starts
  <1>3. ASSUME NEW k \in Tasks, Passes(k)
        PROVE  SpentInv'
    <2>1. k # "restore" => Stays
      BY <1>0, <1>3, StaysQuiet DEF Passes, Only, tokenVars
    <2>. QED
      BY <1>3, <2>1, QuietSame, SpentPlain DEF Passes
  <1>4. ASSUME NEW k \in Tasks, TaskStep(k) \/ Lost(k)
        PROVE  SpentInv'
    <2>1. CASE ReadStored(k)
      <3>1. /\ Only(k) /\ UNCHANGED <<tokenVars, stored>> /\ task[k].pc = "read"
            /\ task'[k].pc = "out" /\ task'[k].req = task[k].req /\ task'[k].body = stored
        BY <2>1, ReadEffect
      <3>2. k # "restore" => Stays
        BY <1>0, <3>1, StaysQuiet DEF Only, tokenVars
      <3>3. \A x \in Tokens : stored = x /\ Redeems(k, x) => Redeems(k, x)'
        BY <3>1 DEF Redeems
      <3>4. k = "restore" => task[k].pc \notin {"store", "clear"} /\ Clears
        BY <3>1, ClearsHolds
      <3>. QED
        BY <3>1, <3>2, <3>3, <3>4, QuietSame, SpentOnly
    <2>2. CASE NothingStored(k) \/ Clear(k)
      BY <2>2, NothingEffect, ClearEffect, SpentNothing
    <2>3. CASE Publish(k) \/ Left(k)
      <3>1. CASE k = "refresher"
        <4>1. task[k].pc = "publish" => task[k].pair # None
          BY DEF PairInv, HasPair
        <4>. QED
          BY <2>3, <3>1, <4>1, PublishEffect, LeftEffect, SpentWake
      <3>2. CASE k # "refresher"
        <4>1. /\ Ends(k, "idle") /\ UNCHANGED <<tokenVars, stored>>
              /\ task[k].pc \in {"publish", "left"}
          BY <2>3, <3>2, PublishEffect, LeftEffect
        <4>2. task[k].req # "refresh"
          BY <4>1, NoneIsNothing DEF BaseInv, TasksFit, Fits, Requests
        <4>3. k # "restore" => Stays
          BY <1>0, <4>1, StaysQuiet DEF Ends, Only, tokenVars
        <4>. QED
          BY <4>1, <4>2, <4>3, QuietSame, SpentPlain DEF Ends
      <3>. QED
        BY <3>1, <3>2
    <2>4. CASE Arrives(k)
      BY <1>3, <2>4, ArrivesEffect, SpentSends
    <2>. QED
      BY <1>4, <2>1, <2>2, <2>3, <2>4, SpentSucceeds, SpentCaught, SpentWaits, SpentStore
         DEF TaskStep
  <1>5. ASSUME NEW h \in Handlers, ServerStep(h)
        PROVE  SpentInv'
    <2>1. CASE ServeStep(h)
      BY <1>5, <2>1, SpentServe DEF ServerStep
    <2>2. CASE Unclaimed(h)
      <3>1. task["restore"].via # h /\ task' = task /\ stored' = stored
        BY <1>0, <1>5, <2>2 DEF Unclaimed, Unheard, ServerStep, appVars
      <3>2. \A g \in Handlers \ {h} : serve'[g] = serve[g]
        BY <2>2, AnswerEffect DEF Unclaimed, BaseInv, TInv
      <3>3. task["restore"].via \in Handlers \cup {None}
        BY <1>0 DEF BaseInv, AppTypes, TaskState
      <3>. QED
        BY <1>1, <2>2, <3>1, <3>2, <3>3, UnclaimedSame DEF Stays
    <2>. QED
      BY <1>5, <2>1, <2>2 DEF ServerStep
  <1>6. CASE ChangedElsewhere
    <2>1. Stays
      BY <1>6, ChangedEffect, StaysArrives DEF appVars
    <2>. QED
      BY <1>1, <1>6, <2>1, ChangedEffect, ChangedSame DEF appVars
  <1>7. CASE Lapse
    BY <1>1, <1>7, QuietSame, StaysQuiet DEF Lapse, tokenVars
  <1>8. CASE UNCHANGED sessionVars
    BY <1>1, <1>8, QuietSame, StaysQuiet DEF sessionVars, appVars, tokenVars
  <1>. QED
    BY <1>0, <1>2, <1>3, <1>4, <1>5, <1>6, <1>7, <1>8, WrongPinEffect, SpentKill
       DEF SessionNext

\* What is true when the app starts for the first time.
LEMMA StartsFresh ==
    ASSUME SessionInit
    PROVE  /\ \A x \in Tokens : /\ Untouched(x) /\ ~token[x].shared
           /\ \A h \in Handlers : serve[h].pc = "idle" /\ serve[h].issued = None
           /\ task["restore"] = Do("read", "refresh") /\ app.status = "unknown"
           /\ \A k \in Tasks \ {"restore"} : task[k] = NoTask
  <1>1. \A h \in Handlers : serve[h].pc = "idle" /\ serve[h].issued = None
    BY DEF SessionInit, NoRequest
  <1>. DEFINE Row(u) == [NoToken EXCEPT !.state = "LIVE", !.user = u]
  <1>2. PICK u \in Users : token = [t \in Tokens |-> IF t = stored THEN Row(u) ELSE NoToken]
    BY DEF SessionInit
  <1>3. /\ Row(u).parent = None /\ ~Row(u).shared
        /\ NoToken.parent = None /\ ~NoToken.shared
    BY DEF NoToken
  <1>. HIDE DEF Row
  <1>4. \A x \in Tokens : token[x].parent = None /\ ~token[x].shared
    BY <1>2, <1>3
  <1>5. \A x \in Tokens : Untouched(x)
    BY <1>1, <1>4, NoneIsNothing DEF Untouched, Heirs, Refreshing, Ended
  <1>. QED
    BY <1>1, <1>4, <1>5, RestoringTyped DEF SessionInit

LEMMA SpentInit == SessionInit => FreshInv /\ PairInv /\ SpentInv
  <1>. SUFFICES ASSUME SessionInit PROVE FreshInv /\ PairInv /\ SpentInv
    OBVIOUS
  <1>1. \A k \in Tasks : task[k].pc \in {"idle", "read"} /\ task[k].req \in {"refresh", None}
    BY StartsFresh, DoFields, NoTaskFields
  <1>2. FreshInv
    <2>1. \A k \in Tasks : Held(k) = None
      BY <1>1, NoneIsNothing DEF Held, Unstored, Requests
    <2>. QED
      BY <2>1, StartsFresh, NoneIsNothing DEF FreshInv
  <1>3. PairInv
    BY <1>1, StartsFresh, NoneIsNothing DEF PairInv, HasPair, HasIssued, Requests
  <1>4. SpentInv
    <2>1. task["refresher"].pc # "left"
      BY <1>1, TaskNames
    <2>. QED
      BY <2>1, StartsFresh DEF SpentInv
  <1>. QED
    BY <1>2, <1>3, <1>4

\* However the requests of the app interleave and whichever answers are lost,
\* once no refresh is under way and none has still to store or clear, the
\* token in the storage is one that the server has not exchanged.
THEOREM SpentNotStoredCorrect == SessionSpec => []SpentNotStored
  <1>. DEFINE Inv == BaseInv /\ FreshInv /\ PairInv /\ SpentInv
  <1>1. SessionInit => Inv
    BY BaseInit, SpentInit
  <1>2. Inv /\ [SessionNext]_sessionVars => Inv'
    BY BaseNext, FreshNext, PairNext, SpentNext
  <1>3. Inv => SpentNotStored
    <2>. SUFFICES ASSUME Inv, stored # None, ~Exchange PROVE Heirs(stored) = {}
      BY DEF SpentNotStored
    <2>1. stored \in Tokens /\ {"restore", "refresher"} \subseteq Tasks
      BY TaskNames DEF BaseInv, AppTypes
    <2>2. ~Redeems("restore", stored) /\ ~Redeems("refresher", stored)
      BY <2>1 DEF Exchange, Redeems
    <2>. QED
      BY <2>1, <2>2 DEF SpentInv, Untouched
  <1>. QED
    BY <1>1, <1>2, <1>3, PTL DEF SessionSpec

----------------------------------------------------------------------------
(* One refresh of a token at a time                                        *)

Calm == accidents \cap {"kill", "eager"} = {}

\* Restore refreshes before anybody else does anything; the refresher helps
\* it only while it waits.
Alone ==
    /\ task["restore"].req = "refresh" => app.status = "unknown"
    /\ app.status = "unknown" =>
        /\ \A k \in Tasks \ {"restore", "refresher"} : task[k].pc = "idle"
        /\ task["refresher"].pc # "idle" => task["restore"].pc = "wait"

\* A step of restore, or of the refresher while restore waits.
LEMMA AloneStep ==
    ASSUME Alone, app'.status = "unknown" => app.status = "unknown",
           task'["restore"].req = "refresh" =>
                task["restore"].req = "refresh" /\ app'.status = app.status,
           app.status = "unknown" /\ app'.status = "unknown" =>
                /\ \A k \in Tasks \ {"restore", "refresher"} : task'[k] = task[k]
                /\ \/ task'["restore"].pc = "wait" \/ task'["refresher"].pc = "idle"
                   \/ /\ task'["restore"].pc = task["restore"].pc
                      /\ task'["refresher"].pc = task["refresher"].pc
    PROVE  Alone'
  BY DEF Alone

\* A task that acts while the app restores is one of the two.
LEMMA ActsAlone ==
    ASSUME Alone, NEW k \in Tasks, task[k].pc # "idle"
    PROVE  /\ app.status = "unknown" => k \in {"restore", "refresher"}
           /\ app.status = "unknown" /\ k = "refresher" => task["restore"].pc = "wait"
           /\ app.status = "unknown" /\ k = "restore" /\ task[k].pc # "wait"
                => task["refresher"].pc = "idle"
           /\ k \notin {"restore", "refresher"} => task["restore"].req # "refresh"
  BY DEF Alone

\* A step of task k alone, which does not turn the request of restore into a
\* refresh, and does not leave the start-up while restore refreshes.
LEMMA AloneOnly ==
    ASSUME Alone, NEW k \in Tasks, Only(k), task[k].pc \notin {"idle", "wait"},
           app'.status = "unknown" => app.status = "unknown",
           k = "restore" /\ task'[k].req = "refresh" => task[k].req = "refresh",
           app'.status = app.status
                \/ (k # "refresher" /\ (k = "restore" => task'[k].req # "refresh"))
    PROVE  Alone'
  <1>0. {"restore", "refresher"} \subseteq Tasks
    BY TaskNames
  <1>1. task'["restore"].req = "refresh" =>
            task["restore"].req = "refresh" /\ app'.status = app.status
    BY <1>0, ActsAlone DEF Only
  <1>2. ASSUME app.status = "unknown"
        PROVE  /\ \A j \in Tasks \ {"restore", "refresher"} : task'[j] = task[j]
               /\ task'["restore"].pc = "wait" \/ task'["refresher"].pc = "idle"
    <2>1. CASE k = "restore"
      BY <1>0, <1>2, <2>1, ActsAlone DEF Only
    <2>2. CASE k = "refresher"
      BY <1>0, <1>2, <2>2, ActsAlone DEF Only
    <2>. QED
      BY <1>2, <2>1, <2>2, ActsAlone
  <1>. QED
    BY <1>1, <1>2, AloneStep

LEMMA AloneWake ==
    ASSUME BaseInv, Alone, NEW p \in Tokens \cup {None}, task' = Wake(p),
           task["refresher"].pc # "idle", app'.status = "unknown" => app.status = "unknown",
           app'.status = app.status \/ p = None
    PROVE  Alone'
  <1>0. AppTypes /\ {"restore", "refresher"} \subseteq Tasks
    BY TaskNames DEF BaseInv
  <1>1. task'["refresher"].pc = "idle"
    BY <1>0, WakeEffect, NoTaskFields
  <1>2. task'["restore"].req = "refresh" =>
            task["restore"].req = "refresh" /\ app'.status = app.status
    <2>1. task["restore"].pc = "wait" /\ p = None => task'["restore"].req # "refresh"
      BY <1>0, WakeEffect, DoFields
    <2>2. task["restore"].pc = "wait" /\ p # None =>
                task'["restore"].req = task["restore"].req
      BY <1>0, WakeEffect
    <2>3. task["restore"].pc # "wait" =>
                /\ task'["restore"].req = task["restore"].req
                /\ app.status # "unknown" /\ task["restore"].req # "refresh"
      BY <1>0, WakeEffect, ActsAlone DEF Alone
    <2>. QED
      BY <2>1, <2>2, <2>3
  <1>3. ASSUME app.status = "unknown", NEW k \in Tasks \ {"restore", "refresher"}
        PROVE  task'[k] = task[k]
    BY <1>0, <1>3, WakeEffect DEF Alone
  <1>. QED
    BY <1>1, <1>2, <1>3, AloneStep

LEMMA AloneWaits ==
    ASSUME BaseInv, Alone, NEW k \in Tasks, Waits(k), task[k].pc \in {"sent", "refused"}
    PROVE  Alone'
  <1>0. {"restore", "refresher"} \subseteq Tasks /\ UNCHANGED app
    BY TaskNames DEF Waits
  <1>1. task'["restore"].req = "refresh" => task["restore"].req = "refresh"
    BY <1>0 DEF Waits
  <1>2. ASSUME app.status = "unknown"
        PROVE  /\ \A j \in Tasks \ {"restore", "refresher"} : task'[j] = task[j]
               /\ task'["restore"].pc = "wait"
    <2>1. CASE k = "restore"
      BY <2>1 DEF Waits
    <2>2. CASE k = "refresher"
      BY <1>0, <1>2, <2>2, ActsAlone DEF Waits
    <2>. QED
      BY <1>2, <2>1, <2>2, ActsAlone
  <1>. QED
    BY <1>0, <1>1, <1>2, AloneStep

LEMMA AloneNext ==
    ASSUME BaseInv, Calm, Alone, SessionNext
    PROVE  Alone'
  <1>0. {"restore", "refresher", "login"} \subseteq Tasks
    BY TaskNames
  <1>1. ASSUME UNCHANGED app, task' = task
        PROVE  Alone'
    BY <1>1 DEF Alone
  <1>2. CASE StartLogin \/ StartLeave \/ \E k \in Calls : StartCall(k)
    <2>1. PICK k \in Tasks \ {"restore", "refresher"} : Starts(k)
      BY <1>2, StartEffect
    <2>2. app.status # "unknown" /\ UNCHANGED app /\ task'["restore"] = task["restore"]
      BY <1>0, <2>1 DEF Starts, Only, Calm
    <2>. QED
      BY <2>2 DEF Alone
  <1>3. ASSUME NEW k \in Tasks, Passes(k)
        PROVE  Alone'
    BY <1>3, AloneOnly DEF Passes
  <1>4. ASSUME NEW k \in Tasks, TaskStep(k) \/ Lost(k)
        PROVE  Alone'
    <2>1. CASE ReadStored(k)
      BY <2>1, ReadEffect, AloneOnly
    <2>2. ASSUME NEW pc \in {"idle", "clear"}, Ends(k, pc), task[k].pc \notin {"idle", "wait"},
                 app'.status = "unknown" => app.status = "unknown",
                 app'.status = app.status \/ k # "refresher"
          PROVE  Alone'
      <3>1. task'[k].req # "refresh"
        BY <2>2, NoneIsNothing DEF Ends, Requests
      <3>. QED
        BY <2>2, <3>1, AloneOnly DEF Ends
    <2>3. CASE NothingStored(k)
      <3>1. CASE k = "refresher"
        BY <2>3, <3>1, NothingEffect, AloneWake
      <3>2. CASE k # "refresher"
        BY <2>2, <2>3, <3>2, NothingEffect
      <3>. QED
        BY <3>1, <3>2
    <2>4. CASE Publish(k) \/ Left(k)
      <3>1. CASE k = "refresher"
        BY <2>4, <3>1, PublishEffect, LeftEffect, AloneWake
      <3>2. CASE k # "refresher"
        BY <2>2, <2>4, <3>2, PublishEffect, LeftEffect
      <3>. QED
        BY <3>1, <3>2
    <2>5. CASE Arrives(k)
      <3>1. ASSUME NEW h \in Handlers, Sends(k, h)
            PROVE  Alone'
        BY <3>1, AloneOnly DEF Sends
      <3>. QED
        BY <1>3, <2>5, <3>1, ArrivesEffect
    <2>6. CASE Succeeds(k)
      <3>1. /\ Only(k) /\ UNCHANGED app /\ task[k].pc \in {"sent", "ok"}
            /\ task'[k].req \in {None, "me"}
        BY <2>6, SucceedsEffect DEF Yields, Ends, Answered
      <3>2. task'[k].req # "refresh"
        BY <3>1, NoneIsNothing DEF Requests
      <3>. QED
        BY <3>1, <3>2, AloneOnly
    <2>7. CASE RefusedAgain(k) \/ Lost(k)
      <3>1. UNCHANGED app /\ task[k].pc \in {"out", "sent", "refused"}
            /\ (Ends(k, "clear") \/ Ends(k, "idle"))
        BY <2>7, CatchEffect DEF Caught, Answered
      <3>. QED
        BY <2>2, <3>1
    <2>8. CASE Store(k)
      BY <2>8, StoreEffect, AloneOnly DEF Yields, Turns
    <2>9. CASE Clear(k)
      BY <2>9, ClearEffect, AloneOnly DEF Turns
    <2>10. CASE Unauthorized(k)
      <3>1. Waits(k) /\ task[k].pc \in {"sent", "refused"}
        BY <2>10, UnauthorizedEffect DEF Answered
      <3>. QED
        BY <3>1, AloneWaits
    <2>. QED
      BY <1>4, <2>1, <2>3, <2>4, <2>5, <2>6, <2>7, <2>8, <2>9, <2>10 DEF TaskStep
  <1>5. CASE \E h \in Handlers : ServerStep(h)
    BY <1>1, <1>5 DEF ServerStep, appVars
  <1>6. CASE Lapse \/ ChangedElsewhere
    BY <1>1, <1>6 DEF Lapse, ChangedElsewhere, appVars
  <1>7. ~Kill
    BY DEF Kill, Calm
  <1>. QED
    BY <1>0, <1>2, <1>3, <1>4, <1>5, <1>6, <1>7, WrongPinEffect DEF SessionNext

\* What task k has on its way to the server, or there, is the only refresh of
\* its token.
OnlyMine(k) ==
    task[k].req = "refresh" /\ task[k].pc \in {"out", "sent"} =>
        \A h \in Handlers : Refreshes(h) /\ serve[h].given = task[k].body => task[k].via = h

\* The refresher is at the refresh of token x or has given it up.
Joined(x) ==
    \/ task["refresher"].pc \in {"clear", "left"}
    \/ task["refresher"].pc = "sent" /\ task["refresher"].body = x

\* Who refreshes token x will replace it or is about to clear it.
Presenting(x) ==
    \/ task["refresher"].pc = "clear"
    \/ task["refresher"].pc = "sent" /\ task["refresher"].body = x
    \/ /\ app.status = "unknown"
       /\ \/ task["restore"].pc = "clear"
          \/ /\ task["restore"].pc = "sent" /\ task["restore"].req = "refresh"
             /\ task["restore"].body = x

Single ==
    /\ \A x \in Tokens : ~token[x].shared
    /\ \A x \in Tokens : stored = x /\ Refreshing(x) => Presenting(x)
    /\ OnlyMine("restore") /\ OnlyMine("refresher")
    /\ \A x \in Tokens : /\ task["restore"].req = "refresh" /\ task["restore"].pc = "wait"
                         /\ task["restore"].body = x /\ Refreshing(x)
            => Joined(x)

LEMMA Two == {"restore", "refresher"} \subseteq Tasks
  BY TaskNames

\* Once the answer is there nobody refreshes the token any more.
LEMMA AnsweredMine ==
    ASSUME BaseInv, Single, NEW k \in {"restore", "refresher"}, NEW outcome \in {"ok", "refused"},
           Answered(k, outcome), task[k].req = "refresh"
    PROVE  task[k].body \in Tokens /\ ~Refreshing(task[k].body)
  <1>1. Fits(k, task[k]) /\ task[k].body \in Tokens \cup {None}
    BY Two DEF BaseInv, TasksFit, AppTypes, TaskState
  <1>2. task[k].pc = "sent" /\ serve[task[k].via].pc = outcome /\ task[k].body \in Tokens
    BY <1>1 DEF Fits, Answered
  <1>3. ~Refreshes(task[k].via)
    BY <1>2 DEF Refreshes, Ended
  <1>4. OnlyMine(k)
    BY DEF Single
  <1>. QED
    BY <1>2, <1>3, <1>4, RefreshingMeans DEF OnlyMine

LEMMA MineSame ==
    ASSUME SameServer, NEW k \in Tasks,
           \/ task'[k] = task[k] /\ OnlyMine(k)
           \/ task'[k].req # "refresh" \/ task'[k].pc \notin {"out", "sent"}
           \/ task'[k].body \in Tokens /\ ~Refreshing(task'[k].body)
    PROVE  OnlyMine(k)'
  <1>1. CASE task'[k].body \in Tokens /\ ~Refreshing(task'[k].body)
    <2>1. ASSUME NEW h \in Handlers, Refreshes(h)' PROVE serve'[h].given # task'[k].body
      BY <1>1, <2>1, RefreshingMeans DEF SameServer
    <2>. QED
      BY <2>1 DEF OnlyMine
  <1>2. CASE task'[k].req # "refresh" \/ task'[k].pc \notin {"out", "sent"}
    BY <1>2 DEF OnlyMine
  <1>3. CASE task'[k] = task[k] /\ OnlyMine(k)
    BY <1>3 DEF OnlyMine, SameServer
  <1>. QED
    BY <1>1, <1>2, <1>3

LEMMA SingleSame ==
    ASSUME Single, SameServer, OnlyMine("restore")', OnlyMine("refresher")',
           \A x \in Tokens : stored' = x /\ Refreshing(x) => Presenting(x)',
           \A x \in Tokens : /\ task'["restore"].req = "refresh" /\ task'["restore"].pc = "wait"
                             /\ task'["restore"].body = x /\ Refreshing(x)
                => Joined(x)'
    PROVE  Single'
  <1>1. \A x \in Tokens : /\ ~token'[x].shared
                          /\ Refreshing(x)' <=> Refreshing(x)
    BY DEF SameServer, Single
  <1>. QED
    BY <1>1 DEF Single

\* The two stand still, and so does the app while it restores.
LEMMA SingleStill ==
    ASSUME Single, Alone, SameServer, stored' \in {None, stored},
           task'["restore"] = task["restore"], task'["refresher"] = task["refresher"],
           app'.status = app.status \/ app.status # "unknown"
    PROVE  Single'
  <1>1. OnlyMine("restore")' /\ OnlyMine("refresher")'
    BY Two, MineSame DEF Single
  <1>2. \A x \in Tokens : stored' = x /\ Refreshing(x) => Presenting(x)'
    BY NoneIsNothing DEF Single, Presenting
  <1>3. \A x \in Tokens : /\ task'["restore"].req = "refresh" /\ task'["restore"].pc = "wait"
                          /\ task'["restore"].body = x /\ Refreshing(x)
                => Joined(x)'
    BY DEF Single, Joined
  <1>. QED
    BY <1>1, <1>2, <1>3, SingleSame

\* Restore makes a step, and may start the refresher.
LEMMA SingleRestore ==
    ASSUME Single, SameServer, stored' \in {None, stored},
           \/ task'["refresher"] = task["refresher"]
           \/ task["refresher"].pc = "idle" /\ task'["refresher"].pc = "read",
           task["restore"].pc = "clear" => stored' = None,
           task["restore"].pc = "sent" /\ task["restore"].req = "refresh" =>
                \/ ~Refreshing(task["restore"].body)
                \/ task'["restore"].pc = "clear" /\ app'.status = app.status,
           \/ task'["restore"].req # "refresh"
           \/ task'["restore"].pc \notin {"out", "sent", "wait"}
           \/ task'["restore"].body \in Tokens /\ ~Refreshing(task'["restore"].body)
    PROVE  Single'
  <1>1. OnlyMine("restore")'
    BY Two, MineSame
  <1>2. OnlyMine("refresher")'
    BY Two, MineSame DEF Single
  <1>3. ASSUME NEW x \in Tokens, stored' = x, Refreshing(x)
        PROVE  Presenting(x)'
    <2>1. stored = x /\ stored' # None /\ Presenting(x)
      BY <1>3, NoneIsNothing DEF Single
    <2>. QED
      BY <1>3, <2>1 DEF Presenting
  <1>. QED
    BY <1>1, <1>2, <1>3, SingleSame

\* The refresher makes a step of its own.
LEMMA SingleRefresher ==
    ASSUME Single, SameServer, stored' \in {None, stored},
           task'["restore"] = task["restore"], app'.status = app.status,
           task["refresher"].pc # "left",
           task["refresher"].pc = "clear" => stored' = None /\ task'["refresher"].pc = "left",
           task["refresher"].pc = "sent" =>
                \/ task'["refresher"].pc = "clear"
                \/ ~Refreshing(task["refresher"].body),
           \/ task'["refresher"].pc \notin {"out", "sent"}
           \/ task'["refresher"].body \in Tokens /\ ~Refreshing(task'["refresher"].body)
    PROVE  Single'
  <1>1. OnlyMine("restore")' /\ OnlyMine("refresher")'
    BY Two, MineSame DEF Single
  <1>2. ASSUME NEW x \in Tokens, stored' = x, Refreshing(x)
        PROVE  Presenting(x)'
    <2>1. stored = x /\ stored' # None /\ Presenting(x)
      BY <1>2, NoneIsNothing DEF Single
    <2>. QED
      BY <1>2, <2>1 DEF Presenting
  <1>3. \A x \in Tokens : /\ task'["restore"].req = "refresh" /\ task'["restore"].pc = "wait"
                          /\ task'["restore"].body = x /\ Refreshing(x)
                => Joined(x)'
    BY DEF Single, Joined
  <1>. QED
    BY <1>1, <1>2, <1>3, SingleSame

LEMMA SingleWake ==
    ASSUME BaseInv, Single, Alone, UNCHANGED <<tokenVars, stored>>, NEW p \in Tokens \cup {None},
           task' = Wake(p), task["refresher"].pc \in {"read", "publish", "left"},
           p = None \/ task["refresher"].pc = "publish"
    PROVE  Single'
  <1>0. AppTypes /\ SameServer
    BY Two, QuietSame DEF BaseInv
  <1>1. \A x \in Tokens : ~(stored = x /\ Refreshing(x))
    BY DEF Single, Alone, Presenting
  <1>2. OnlyMine("refresher")'
    <2>1. task'["refresher"].pc = "idle"
      BY <1>0, WakeEffect, NoTaskFields
    <2>. QED
      BY <1>0, <2>1, MineSame, Two
  <1>3. OnlyMine("restore")' /\ (task'["restore"].req = "refresh" => task'["restore"].pc # "wait")
    <2>1. CASE task["restore"].pc # "wait"
      <3>1. task'["restore"] = task["restore"]
        BY <1>0, <2>1, WakeEffect, Two
      <3>. QED
        BY <1>0, <2>1, <3>1, MineSame, Two DEF Single
    <2>2. CASE task["restore"].pc = "wait" /\ p = None
      <3>1. task'["restore"] = Do("read", "logout")
        BY <1>0, <2>2, WakeEffect, Two
      <3>2. task'["restore"].req # "refresh" /\ task'["restore"].pc # "wait"
        BY <3>1, DoFields
      <3>. QED
        BY <1>0, <3>2, MineSame, Two
    <2>3. CASE task["restore"].pc = "wait" /\ p # None
      <3>1. /\ task'["restore"].pc = "out" /\ task'["restore"].req = task["restore"].req
            /\ task'["restore"].body = task["restore"].body
        BY <1>0, <2>3, WakeEffect, Two
      <3>2. task["restore"].req = "refresh" => task["restore"].body \in Tokens
        BY <2>3, Two DEF BaseInv, AppTypes, TaskState, TasksFit, Fits
      <3>3. \A x \in Tokens : ~Joined(x)
        BY <2>3 DEF Joined
      <3>4. task["restore"].req = "refresh" => ~Refreshing(task["restore"].body)
        BY <2>3, <3>2, <3>3 DEF Single
      <3>. QED
        BY <1>0, <3>1, <3>2, <3>4, MineSame, Two
    <2>. QED
      BY <2>1, <2>2, <2>3
  <1>. QED
    BY <1>0, <1>1, <1>2, <1>3, SingleSame

\* A refresh arrives: nobody else is at its token.
LEMMA SingleSendsRefresh ==
    ASSUME BaseInv, Single, Alone, NEW k \in Tasks, NEW h \in Handlers, Sends(k, h),
           task[k].req = "refresh"
    PROVE  Single'
  <1>. DEFINE b == task[k].body
  <1>0. /\ k \in {"restore", "refresher"} /\ task[k].via = None /\ task[k].pc = "out"
        /\ stored' = stored /\ app' = app /\ b \in Tokens
    BY OutFields DEF BaseInv, TasksFit, Fits, Sends, Issued
  <1>1. /\ serve'[h].given = b /\ Refreshes(h)' /\ ~Refreshes(h)
        /\ \A g \in Handlers \ {h} : serve'[g] = serve[g]
        /\ \A x \in Tokens : /\ Refreshing(x)' <=> Refreshing(x) \/ x = b
                             /\ token'[x].shared <=>
                                    token[x].shared \/ (x = b /\ Refreshing(x))
    BY SendsRefresh
  <1>2. \A g \in Handlers \ {h} : Refreshes(g)' <=> Refreshes(g)
    BY <1>1 DEF Refreshes
  <1>3. ~Refreshing(b)
    <2>1. OnlyMine(k)
      BY <1>0 DEF Single
    <2>. QED
      BY <1>0, <2>1, RefreshingMeans, NoneIsNothing DEF OnlyMine
  <1>4. \A x \in Tokens : ~token'[x].shared
    BY <1>1, <1>3 DEF Single
  <1>5. /\ task'[k].pc = "sent" /\ task'[k].via = h /\ task'[k].req = "refresh"
        /\ task'[k].body = b /\ Only(k)
    BY DEF Sends
  <1>6. OnlyMine(k)'
    <2>1. ASSUME NEW g \in Handlers \ {h}, Refreshes(g)', serve'[g].given = b
          PROVE  FALSE
      BY <1>0, <1>1, <1>2, <1>3, <2>1, RefreshingMeans
    <2>. QED
      BY <1>5, <2>1 DEF OnlyMine
  <1>7. k = "refresher" => task["restore"].pc \notin {"out", "sent"} \/ task["restore"].req # "refresh"
    BY <1>0 DEF Alone
  <1>8. k = "restore" => task["refresher"].pc = "idle" /\ app.status = "unknown"
    BY <1>0 DEF Alone
  <1>9. OnlyMine("restore")' /\ OnlyMine("refresher")'
    <2>1. CASE k = "restore"
      BY <1>5, <1>6, <1>8, <2>1, Two DEF OnlyMine, Only
    <2>2. CASE k = "refresher"
      BY <1>5, <1>6, <1>7, <2>2, Two DEF OnlyMine, Only
    <2>. QED
      BY <1>0, <2>1, <2>2
  <1>10. ASSUME NEW x \in Tokens, stored' = x, Refreshing(x)'
         PROVE  Presenting(x)'
    <2>1. CASE k = "restore"
      <3>1. x = b \/ ~Refreshing(x)
        BY <1>0, <1>8, <1>10, <2>1 DEF Single, Presenting
      <3>. QED
        BY <1>0, <1>1, <1>5, <1>8, <1>10, <2>1, <3>1 DEF Presenting
    <2>2. CASE k = "refresher"
      <3>1. x = b \/ ~Refreshing(x)
        BY <1>0, <1>10, <2>2 DEF Single, Alone, Presenting
      <3>. QED
        BY <1>1, <1>5, <1>10, <2>2, <3>1 DEF Presenting
    <2>. QED
      BY <1>0, <2>1, <2>2
  <1>11. ASSUME NEW x \in Tokens, task'["restore"].req = "refresh", task'["restore"].pc = "wait",
                task'["restore"].body = x, Refreshing(x)'
         PROVE  Joined(x)'
    <2>1. k = "refresher" /\ task'["restore"] = task["restore"]
      BY <1>0, <1>5, <1>11, Two DEF Only
    <2>2. x = b \/ ~Refreshing(x)
      BY <1>0, <1>11, <2>1 DEF Single, Joined
    <2>. QED
      BY <1>1, <1>5, <1>11, <2>1, <2>2 DEF Joined
  <1>. QED
    BY <1>4, <1>9, <1>10, <1>11 DEF Single

LEMMA SingleServe ==
    ASSUME BaseInv, Single, NEW h \in Handlers, ServeStep(h), UNCHANGED appVars
    PROVE  Single'
  <1>0. stored' = stored /\ task' = task /\ app' = app
    BY DEF appVars
  <1>1. \A g \in Handlers : Refreshes(g)' => Refreshes(g) /\ serve'[g].given = serve[g].given
    BY ServeTokens
  <1>2. \A x \in Tokens : /\ Refreshing(x)' => Refreshing(x)
                          /\ ~token[x].shared => ~token'[x].shared
    BY ServeTokens
  <1>3. \A k : OnlyMine(k) => OnlyMine(k)'
    BY <1>0, <1>1 DEF OnlyMine
  <1>4. \A x : /\ Presenting(x) => Presenting(x)'
               /\ Joined(x) => Joined(x)'
    BY <1>0 DEF Presenting, Joined
  <1>. QED
    BY <1>0, <1>2, <1>3, <1>4 DEF Single

LEMMA SingleStore ==
    ASSUME BaseInv, FreshInv, Single, NEW k \in Tasks, Store(k)
    PROVE  Single'
  <1>0. /\ task[k].pc = "store" /\ stored' = task[k].pair /\ SameServer /\ Only(k)
        /\ \/ k = "restore" /\ task'[k].req = "me"
           \/ k # "restore" /\ task'[k].pc = "publish"
    BY StoreEffect, QuietSame DEF Yields, Turns
  <1>1. ASSUME NEW x \in Tokens, stored' = x
        PROVE  ~Refreshing(x)
    BY <1>0, <1>1 DEF Held, Unstored, FreshInv, Fresh, Untouched
  <1>2. OnlyMine("restore")' /\ OnlyMine("refresher")'
    BY <1>0, MineSame, Two DEF Single, Only
  <1>3. \A x \in Tokens : /\ task'["restore"].req = "refresh" /\ task'["restore"].pc = "wait"
                          /\ task'["restore"].body = x /\ Refreshing(x)
                => Joined(x)'
    BY <1>0, Two DEF Single, Joined, Only
  <1>. QED
    BY <1>0, <1>1, <1>2, <1>3, SingleSame

\* Tasks other than the two, and the app outside its start.
LEMMA SingleOther ==
    ASSUME Single, Alone, SameServer, stored' \in {None, stored},
           NEW k \in Tasks \ {"restore", "refresher"}, Only(k), task[k].pc # "idle"
    PROVE  Single'
  <1>1. app.status # "unknown"
    BY ActsAlone
  <1>. QED
    BY <1>1, SingleStill, Two DEF Only

LEMMA SingleArrives ==
    ASSUME BaseInv, Single, Alone, NEW k \in Tasks,
           Passes(k) \/ \E h \in Handlers : Sends(k, h)
    PROVE  Single'
  <1>1. CASE task[k].req = "refresh"
    BY <1>1, SingleSendsRefresh DEF Passes
  <1>2. CASE task[k].req # "refresh"
    <2>1. /\ Only(k) /\ SameServer /\ stored' = stored /\ task[k].pc = "out"
          /\ task'[k].req # "refresh" /\ app' = app
      BY <1>2, QuietSame, SendsSame DEF Passes, Sends
    <2>2. CASE k = "restore"
      BY <2>1, <2>2, SingleRestore, Two DEF Only
    <2>3. k # "refresher"
      <3>1. CASE k = "refresher"
        BY <1>2, <2>1, <3>1 DEF BaseInv, TasksFit, Fits
      <3>. QED
        BY <3>1
    <2>. QED
      BY <2>1, <2>2, <2>3, SingleOther
  <1>. QED
    BY <1>1, <1>2

LEMMA SingleReads ==
    ASSUME BaseInv, Single, Alone, NEW k \in Tasks, ReadStored(k)
    PROVE  Single'
  <1>1. /\ Only(k) /\ SameServer /\ stored' = stored /\ app' = app
        /\ task[k].pc = "read" /\ task'[k].pc = "out" /\ task'[k].req = task[k].req
        /\ task'[k].body = stored /\ stored \in Tokens
    BY ReadEffect, QuietSame DEF BaseInv, AppTypes
  <1>2. CASE k = "restore"
    <2>1. task[k].req = "refresh" => ~Refreshing(stored)
      BY <1>1, <1>2 DEF Alone, Single, Presenting
    <2>. QED
      BY <1>1, <1>2, <2>1, SingleRestore, Two DEF Only
  <1>3. CASE k = "refresher"
    <2>1. ~Refreshing(stored)
      BY <1>1, <1>3 DEF Alone, Single, Presenting
    <2>. QED
      BY <1>1, <1>3, <2>1, SingleRefresher, Two DEF Only
  <1>. QED
    BY <1>1, <1>2, <1>3, SingleOther

\* The refresh has ended for task k one way or the other.
LEMMA SingleEnds ==
    ASSUME BaseInv, Single, Alone, SameServer, NEW k \in Tasks, Only(k), stored' = stored,
           task[k].pc \notin {"idle", "wait", "clear", "left"},
           task'[k].req # "refresh", task'[k].pc # "sent",
           k = "refresher" => task'[k].pc # "out" /\ app'.status = app.status,
           k \in {"restore", "refresher"} /\ task[k].pc = "sent" /\ task[k].req = "refresh" =>
                \/ ~Refreshing(task[k].body)
                \/ task'[k].pc = "clear" /\ app'.status = app.status
    PROVE  Single'
  <1>1. CASE k = "restore"
    BY <1>1, SingleRestore, Two DEF Only
  <1>2. CASE k = "refresher"
    <2>1. task[k].pc = "sent" => task[k].req = "refresh"
      BY <1>2, NoneIsNothing DEF BaseInv, TasksFit, Fits, Requests
    <2>. QED
      BY <1>2, <2>1, SingleRefresher, Two DEF Only
  <1>. QED
    BY <1>1, <1>2, SingleOther

LEMMA SingleWaits ==
    ASSUME BaseInv, Single, Alone, NEW k \in Tasks, Unauthorized(k)
    PROVE  Single'
  <1>1. /\ Answered(k, "refused") /\ Waits(k) /\ SameServer /\ stored' = stored /\ app' = app
        /\ task[k].pc \in {"sent", "refused"}
    BY UnauthorizedEffect, AnsweredSame DEF Waits, Answered
  <1>2. k \in {"restore", "refresher"} /\ task[k].req = "refresh" =>
            task[k].body \in Tokens /\ ~Refreshing(task[k].body)
    BY <1>1, AnsweredMine
  <1>3. CASE k = "restore"
    <2>1. \/ task'["refresher"] = task["refresher"]
          \/ task["refresher"].pc = "idle" /\ task'["refresher"].pc = "read"
      BY <1>1, <1>3, DoFields, Two DEF Waits
    <2>. QED
      BY <1>1, <1>2, <1>3, <2>1, SingleRestore DEF Waits
  <1>4. CASE k = "refresher"
    <2>1. task[k].req = "refresh"
      BY <1>1, <1>4, NoneIsNothing DEF BaseInv, TasksFit, Fits, Requests
    <2>2. task'["restore"] = task["restore"]
      BY <1>1, <1>4, Two DEF Waits
    <2>. QED
      BY <1>1, <1>2, <1>4, <2>1, <2>2, SingleRefresher DEF Waits
  <1>5. CASE k \notin {"restore", "refresher"}
    <2>1. task'["restore"] = task["restore"]
      BY <1>1, <1>5, Two DEF Waits
    <2>2. CASE task["refresher"].pc = "idle"
      <3>1. task'["refresher"].pc = "read"
        BY <1>1, <1>5, <2>2, DoFields, Two DEF Waits
      <3>. QED
        BY <1>1, <2>1, <2>2, <3>1, SingleRefresher
    <2>3. CASE task["refresher"].pc # "idle"
      <3>1. task'["refresher"] = task["refresher"]
        BY <1>1, <1>5, <2>3, Two DEF Waits
      <3>. QED
        BY <1>1, <2>1, <3>1, SingleStill
    <2>. QED
      BY <2>2, <2>3
  <1>. QED
    BY <1>3, <1>4, <1>5

LEMMA SingleNext ==
    ASSUME BaseInv, FreshInv, PairInv, Calm, Alone, Single, SessionNext
    PROVE  Single'
  <1>1. ASSUME stored' = stored, app' = app, task' = task, SameServer
        PROVE  Single'
    BY <1>1, SingleStill
  <1>2. CASE StartLogin \/ StartLeave \/ \E k \in Calls : StartCall(k)
    <2>1. PICK k \in Tasks \ {"restore", "refresher"} : Starts(k)
      BY <1>2, StartEffect
    <2>. QED
      BY <2>1, QuietSame, SingleStill, Two DEF Starts, Only
  <1>3. ASSUME NEW k \in Tasks, TaskStep(k) \/ Lost(k)
        PROVE  Single'
    <2>1. CASE NothingStored(k)
      <3>1. /\ task[k].pc = "read" /\ UNCHANGED <<tokenVars, stored>>
            /\ \/ k = "refresher" /\ task' = Wake(None)
               \/ k # "refresher" /\ (Ends(k, "clear") \/ Ends(k, "idle"))
        BY <2>1, NothingEffect
      <3>2. CASE k = "refresher"
        BY <3>1, <3>2, SingleWake
      <3>3. CASE k # "refresher"
        BY <3>1, <3>3, QuietSame, NoneIsNothing, SingleEnds DEF Ends, Requests
      <3>. QED
        BY <3>2, <3>3
    <2>2. CASE Publish(k)
      <3>1. /\ task[k].pc = "publish" /\ UNCHANGED <<tokenVars, stored>>
            /\ \/ k = "refresher" /\ \E p \in Tokens \cup {None} : task' = Wake(p)
               \/ k # "refresher" /\ Ends(k, "idle")
        BY <2>2, PublishEffect
      <3>2. CASE k = "refresher"
        BY <3>1, <3>2, SingleWake
      <3>3. CASE k # "refresher"
        BY <3>1, <3>3, QuietSame, NoneIsNothing, SingleEnds DEF Ends, Requests
      <3>. QED
        BY <3>2, <3>3
    <2>3. CASE Left(k)
      <3>1. /\ task[k].pc = "left" /\ UNCHANGED <<tokenVars, stored>> /\ SameServer
            /\ \/ k = "refresher" /\ task' = Wake(None)
               \/ k # "refresher" /\ Ends(k, "idle")
        BY <2>3, LeftEffect, QuietSame
      <3>2. CASE k = "refresher"
        BY <3>1, <3>2, SingleWake
      <3>3. CASE k = "restore"
        BY <3>1, <3>3, NoneIsNothing, SingleRestore, Two DEF Ends, Only, Requests
      <3>4. CASE k \notin {"restore", "refresher"}
        BY <3>1, <3>4, SingleOther DEF Ends
      <3>. QED
        BY <3>2, <3>3, <3>4
    <2>4. CASE Succeeds(k)
      <3>1. /\ Answered(k, "ok") /\ UNCHANGED <<app, stored>> /\ Only(k)
            /\ task[k].pc \in {"sent", "ok"} /\ task'[k].pc # "sent"
            /\ task'[k].req \in {None, "me"}
            /\ task'[k].pc = "out" => task[k].req = "login"
        BY <2>4, SucceedsEffect DEF Yields, Ends, Answered
      <3>2. /\ task'[k].req # "refresh" /\ SameServer
            /\ k = "refresher" => task'[k].pc # "out"
        BY <3>1, AnsweredSame, NoneIsNothing DEF Requests, BaseInv, TasksFit, Fits
      <3>. QED
        BY <3>1, <3>2, AnsweredMine, SingleEnds
    <2>5. CASE RefusedAgain(k) \/ Lost(k)
      <3>1. /\ UNCHANGED <<app, stored>> /\ Only(k)
            /\ task'[k].pc = "clear" \/ (task[k].req # "refresh" /\ task'[k].pc = "idle")
            /\ task'[k].req = None
            /\ Answered(k, "refused") \/ UNCHANGED tokenVars
            /\ task[k].pc \in {"out", "sent", "refused"}
        BY <2>5, CatchEffect DEF Caught, Ends, Answered
      <3>2. SameServer /\ task'[k].req # "refresh"
        BY <3>1, AnsweredSame, QuietSame, NoneIsNothing DEF Requests
      <3>. QED
        BY <3>1, <3>2, SingleEnds
    <2>6. CASE Clear(k)
      <3>1. /\ task[k].pc = "clear" /\ stored' = None /\ task'[k].pc = "left" /\ Only(k)
            /\ SameServer /\ app' = app
        BY <2>6, ClearEffect, QuietSame DEF Turns
      <3>2. CASE k = "restore"
        BY <3>1, <3>2, SingleRestore, Two DEF Only
      <3>3. CASE k = "refresher"
        BY <3>1, <3>3, SingleRefresher, Two DEF Only
      <3>4. CASE k \notin {"restore", "refresher"}
        BY <3>1, <3>4, SingleOther
      <3>. QED
        BY <3>2, <3>3, <3>4
    <2>. QED
      BY <1>3, <2>1, <2>2, <2>3, <2>4, <2>5, <2>6, ArrivesEffect, SingleArrives,
         SingleReads, SingleWaits, SingleStore DEF TaskStep
  <1>4. CASE WrongPin
    BY <1>4, WrongPinEffect, SingleArrives, TaskNames
  <1>5. CASE \E h \in Handlers : ServerStep(h)
    BY <1>1, <1>5, SingleServe, UnclaimedSame DEF ServerStep, appVars
  <1>6. CASE Lapse \/ ChangedElsewhere
    BY <1>1, <1>6, QuietSame, ChangedSame DEF Lapse, ChangedElsewhere, appVars
  <1>7. ~Kill
    BY DEF Kill, Calm
  <1>. QED
    BY <1>2, <1>3, <1>4, <1>5, <1>6, <1>7 DEF SessionNext

LEMMA SingleInit == SessionInit => Alone /\ Single
  <1>. SUFFICES ASSUME SessionInit PROVE Alone /\ Single
    OBVIOUS
  <1>1. /\ task["restore"].pc = "read" /\ app.status = "unknown"
        /\ \A k \in Tasks \ {"restore"} : task[k].pc = "idle"
        /\ \A x \in Tokens : ~token[x].shared /\ ~Refreshing(x)
    BY StartsFresh, DoFields, NoTaskFields DEF Untouched
  <1>2. Alone
    BY <1>1, Two DEF Alone
  <1>3. Single
    BY <1>1, Two DEF Single, OnlyMine
  <1>. QED
    BY <1>2, <1>3

\* Unless the app is killed or the user signs out while it restores, it never
\* has two refreshes of one token at the server, whatever calls fail together,
\* whichever sign-outs and logins interleave and whichever answers are lost.
THEOREM SingleFlightCorrect == SessionSpec => []SingleFlight
  <1>. DEFINE Inv == /\ BaseInv /\ FreshInv /\ PairInv
                     /\ Calm => Alone /\ Single
  <1>1. SessionInit => Inv
    BY BaseInit, SpentInit, SingleInit
  <1>2. Inv /\ [SessionNext]_sessionVars => Inv'
    <2>. SUFFICES ASSUME Inv, [SessionNext]_sessionVars PROVE Inv'
      OBVIOUS
    <2>1. BaseInv' /\ FreshInv' /\ PairInv'
      BY BaseNext, FreshNext, PairNext
    <2>2. ASSUME Calm'
          PROVE  Alone' /\ Single'
      <3>1. Calm /\ Alone /\ Single
        BY <2>2 DEF SessionNext, sessionVars, Calm
      <3>2. CASE SessionNext
        BY <3>1, <3>2, AloneNext, SingleNext
      <3>3. CASE UNCHANGED sessionVars
        <4>1. stored' = stored /\ app' = app /\ task' = task /\ SameServer
          BY <3>3, QuietSame DEF sessionVars, appVars
        <4>2. Alone'
          BY <3>1, <4>1 DEF Alone
        <4>. QED
          BY <3>1, <4>1, <4>2, SingleStill
      <3>. QED
        BY <3>2, <3>3
    <2>. QED
      BY <2>1, <2>2
  <1>3. Inv => SingleFlight
    BY DEF SingleFlight, Calm, Single
  <1>. QED
    BY <1>1, <1>2, <1>3, PTL DEF SessionSpec

----------------------------------------------------------------------------
(* What holds of the tokens holds of the app's                             *)

LEMMA TokenSteps ==
    ASSUME BaseInv, [SessionNext]_sessionVars
    PROVE  [TokenNext]_tokenVars
  <1>1. CASE StartLogin \/ StartLeave \/ \E k \in Calls : StartCall(k)
    BY <1>1 DEF StartLogin, StartLeave, StartCall
  <1>2. ASSUME NEW k \in Tasks, TaskStep(k) \/ Lost(k)
        PROVE  [TokenNext]_tokenVars
    <2>1. CASE \E outcome \in {"ok", "refused"} : Answered(k, outcome)
      BY <2>1, AnsweredEffect
    <2>2. CASE Arrives(k)
      BY <2>2, ArrivesEffect DEF Passes
    <2>3. CASE ReadStored(k) \/ NothingStored(k) \/ Store(k) \/ Publish(k) \/ Clear(k) \/ Left(k)
      BY <2>3 DEF ReadStored, NothingStored, Store, Publish, Clear, Left
    <2>4. CASE Lost(k)
      BY <2>4 DEF Lost
    <2>. QED
      BY <1>2, <2>1, <2>2, <2>3, <2>4 DEF TaskStep, Succeeds, Unauthorized, RefusedAgain
  <1>3. ASSUME NEW h \in Handlers, ServerStep(h)
        PROVE  [TokenNext]_tokenVars
    BY <1>3 DEF ServerStep, Unclaimed, TokenNext
  <1>4. CASE WrongPin \/ Lapse \/ Kill
    BY <1>4 DEF WrongPin, Lapse, Kill
  <1>5. CASE ChangedElsewhere
    BY <1>5, ChangedEffect
  <1>6. CASE UNCHANGED sessionVars
    BY <1>6 DEF sessionVars, tokenVars
  <1>. QED
    BY <1>1, <1>2, <1>3, <1>4, <1>5, <1>6 DEF SessionNext

\* Everything that happens between the app and the server is, of the tokens,
\* a step of their module, so that what the server promises any client it
\* keeps with this one: revoking is final, a token that was not presented
\* twice at once is exchanged at most once, and each step is one of the ledger.
THEOREM SessionServed ==
    SessionSpec => /\ [][TokenNext]_tokenVars /\ RevokedIsFinal /\ []OneHeir
                   /\ [][Ledger!LedgerNext]_<<Rights, Parents>>
  <1>. DEFINE Inv == BaseInv /\ OneRefresh /\ OneHeir
  <1>1. SessionInit => Inv
    <2>. SUFFICES ASSUME SessionInit PROVE Inv
      OBVIOUS
    <2>1. \A h \in Handlers : ~Refreshes(h)
      BY StartsFresh DEF Refreshes, Ended
    <2>2. \A t \in Tokens : Heirs(t) = {}
      BY StartsFresh DEF Untouched
    <2>. QED
      BY <2>1, <2>2, BaseInit DEF OneRefresh, OneHeir
  <1>2. Inv /\ [SessionNext]_sessionVars => Inv' /\ [TokenNext]_tokenVars
    BY BaseNext, TokenSteps, OneRefreshInductive, OneHeirInductive DEF BaseInv
  <1>3. Inv /\ [TokenNext]_tokenVars =>
            [\A t \in Tokens : token[t].state = "REVOKED" /\ ~Exchanging(t) =>
                /\ token'[t].state = "REVOKED"
                /\ ~Exchanging(t)'
                /\ Heirs(t)' = Heirs(t)]_tokenVars
    BY RevokedStays DEF BaseInv
  <1>4. Inv /\ Inv' /\ [TokenNext]_tokenVars => [Ledger!LedgerNext]_<<Rights, Parents>>
    BY LedgerStep DEF BaseInv
  <1>. QED
    BY <1>1, <1>2, <1>3, <1>4, PTL DEF SessionSpec, RevokedIsFinal

\* In the same worlds as SingleFlight every token of the app is exchanged at
\* most once, and is revoked by then: what OneHeir says of tokens that were
\* not presented twice at once is true of all of them.
THEOREM ExchangedOnce ==
    SessionSpec => [](Calm => \A t \in Tokens :
        /\ \A x, y \in Heirs(t) : x = y
        /\ Heirs(t) # {} => token[t].state = "REVOKED" /\ ~Exchanging(t))
  <1>1. SingleFlight /\ OneHeir => (Calm => \A t \in Tokens :
            /\ \A x, y \in Heirs(t) : x = y
            /\ Heirs(t) # {} => token[t].state = "REVOKED" /\ ~Exchanging(t))
    BY DEF SingleFlight, OneHeir, Calm
  <1>. QED
    BY <1>1, SingleFlightCorrect, SessionServed, PTL

============================================================================

--------------------------- MODULE MobileSession ---------------------------
(***************************************************************************)
(* The session of the my-closet app on one device (apps/mobile/lib:        *)
(* features/auth/auth_state.dart, core/network/auth_interceptor.dart,      *)
(* core/storage) against the refresh tokens of the API (RefreshTokens).    *)
(* The app's coroutines are tasks that step from await to await: restore   *)
(* at start-up, the PIN login, the sign-out button, calls of screens, and  *)
(* the refresh that the interceptor shares among them.  EVERY request      *)
(* passes through the interceptor, the refresh itself included: at its     *)
(* first 401 it waits for the shared refresh and is sent again.            *)
(*                                                                         *)
(* Not represented: the stored access token (nothing reads it), the last   *)
(* phone number, device ids, the answer of GET /auth/me; signup and PIN    *)
(* reset, which end in setSession as the PIN login does; the biometric     *)
(* login.  An answer 500 is to the app what a lost one is.                 *)
(***************************************************************************)
EXTENDS RefreshTokens

CONSTANTS
    Calls,          \* guarded requests of screens that can overlap
    Worlds          \* sets of accidents, see AccidentKinds

(***************************************************************************)
(* lost     a connection fails or times out: the request may never arrive, *)
(*          or be served without the app learning the answer               *)
(* kill     the app is killed and started again                            *)
(* eager    the sign-out button is pressed while restore is under way      *)
(* change   the user changes the phone number on another device            *)
(***************************************************************************)
AccidentKinds == {"lost", "kill", "eager", "change"}

Requests == {"refresh", "logout", "login", "me", "call"}

ASSUME SessionAssumption ==
    /\ Worlds \subseteq SUBSET AccidentKinds
    /\ Calls \cap {"restore", "login", "leave", "refresher"} = {}
    /\ None \notin Handlers \cup Requests

VARIABLES
    app,        \* AuthState: status and access token
    stored,     \* the refresh token in the device's secure storage
    lapsed,     \* access tokens up to this one have expired
    task,       \* the coroutines
    accidents   \* what may happen in this behaviour; it never changes

appVars == <<app, stored, lapsed, task>>
sessionVars == <<tokenVars, appVars, accidents>>

Tasks == {"restore", "login", "leave", "refresher"} \cup Calls

\* An access token bears the number of the refresh token issued with it.
AppState == [status: {"unknown", "signedOut", "authenticated"},
             access: Tokens \cup {None}]

TaskPC == {"idle", "read", "out", "sent", "ok", "refused", "wait", "store",
           "publish", "clear", "left"}

\* req is the request at hand, cred its bearer token, body the refresh token
\* it presents, via the handler that serves it, pair the tokens received.
TaskState ==
    [pc: TaskPC, req: Requests \cup {None},
     cred: Tokens \cup {None}, body: Tokens \cup {None}, retried: BOOLEAN,
     via: Handlers \cup {None}, pair: Tokens \cup {None}]

NoTask == [pc |-> "idle", req |-> None, cred |-> None, body |-> None,
           retried |-> FALSE, via |-> None, pair |-> None]

Do(pc, req) == [NoTask EXCEPT !.pc = pc, !.req = req]

Set(k, t) == task' = [task EXCEPT ![k] = t]

Starting == [status |-> "unknown", access |-> None]

\* The router starts restore with the app.
Restoring == [k \in Tasks |-> IF k = "restore" THEN Do("read", "refresh") ELSE NoTask]

\* The app starts for the first time, or with a token of an earlier session.
SessionInit ==
    /\ stored \in {None, 1}
    /\ \E u \in Users :
          token = [t \in Tokens |-> IF t = stored
                    THEN [NoToken EXCEPT !.state = "LIVE", !.user = u] ELSE NoToken]
    /\ serve = [h \in Handlers |-> NoRequest]
    /\ app = Starting
    /\ lapsed = 0
    /\ task = Restoring
    /\ accidents \in Worlds

\* The access token of an Authorization header passes the guard.
Good(a) == a # None /\ a > lapsed

Busy == {k \in Tasks \ {"refresher"} : task[k].pc # "idle"}

\* The handler that takes the next request: any idle one, they are alike.
Free == LET idle == {h \in Handlers : serve[h].pc = "idle"} IN
        IF idle = {} THEN {} ELSE {CHOOSE h \in idle : TRUE}

\* Served without a client: it gave up, died, or is another device.
Unheard(h) == \A k \in Tasks : task[k].via # h

\* Bound: the user and time act only while n rows more are left than the tasks
\* and unheard requests may need: one each, for a refresh or a login, and two
\* for a login or a restore that is refused and sent again.
Room(n) == Cardinality(Tokens \ Issued) >=
               n + Cardinality(Busy) + Cardinality(Busy \cap {"restore", "login"})
                 + Cardinality({h \in Handlers : serve[h].pc \notin Ended /\ Unheard(h)})

----------------------------------------------------------------------------
(* What starts tasks                                                       *)

\* _submitPin on the login screen, where the router leads when signed out.
StartLogin ==
    /\ Room(2) /\ app.status = "signedOut" /\ task["login"].pc = "idle"
    /\ Set("login", Do("out", "login"))
    /\ UNCHANGED <<tokenVars, app, stored, lapsed>>

\* A screen's request; onRequest adds the access token of the moment.
StartCall(k) ==
    /\ Room(1) /\ app.status = "authenticated" /\ task[k].pc = "idle"
    /\ Set(k, [Do("out", "call") EXCEPT !.cred = app.access])
    /\ UNCHANGED <<tokenVars, app, stored, lapsed>>

\* signOut by the button of the home screen, which shows while restoring too.
StartLeave ==
    /\ task["leave"].pc = "idle"
    /\ \/ app.status = "authenticated" /\ Room(1)
       \/ app.status = "unknown" /\ Room(1) /\ "eager" \in accidents
    /\ Set("leave", Do("read", "logout"))
    /\ UNCHANGED <<tokenVars, app, stored, lapsed>>

----------------------------------------------------------------------------
(* Steps of a task                                                         *)

\* restore, refreshToken and signOut read the stored token and present it.
ReadStored(k) ==
    /\ task[k].pc = "read" /\ stored # None
    /\ Set(k, [task[k] EXCEPT !.pc = "out", !.body = stored, !.cred = app.access])
    /\ UNCHANGED <<tokenVars, app, stored, lapsed>>

\* The refresh has ended with token p, or with none, and every waiting
\* request goes on: it is sent again with p, or fails and onUnauthorized
\* signs out.  What a request that fails would still do itself, the sign-out
\* does too, so the task goes on as the sign-out.
WakeForgotten(p) ==                 \* mutant: who waits is not told of a failure
    [k \in Tasks |-> IF k = "refresher" THEN NoTask
                     ELSE IF task[k].pc # "wait" \/ p = None THEN task[k]
                     ELSE [task[k] EXCEPT !.pc = "out", !.cred = p, !.retried = TRUE]]

Wake(p) ==
    [k \in Tasks |-> IF k = "refresher" THEN NoTask
                     ELSE IF task[k].pc # "wait" THEN task[k]
                     ELSE IF p = None THEN Do("read", "logout")
                     ELSE [task[k] EXCEPT !.pc = "out", !.cred = p, !.retried = TRUE]]

\* Nothing is stored: restore is signed out, a sign-out has nobody to tell,
\* refreshToken ends with null.
NothingStored(k) ==
    /\ task[k].pc = "read" /\ stored = None
    /\ CASE k = "refresher"           -> task' = Wake(None) /\ UNCHANGED app
         [] task[k].req = "logout"    -> Set(k, Do("clear", None)) /\ UNCHANGED app
         [] OTHER -> Set(k, NoTask) /\ app' = [status |-> "signedOut", access |-> None]
    /\ UNCHANGED <<tokenVars, stored, lapsed>>

\* The request reaches the API: a handler takes it, or the guard, which is
\* all that me and a call meet here, lets it through or refuses it.
Arrives(k) ==
    LET t == task[k] IN
    /\ t.pc = "out"
    /\ IF t.req \in {"refresh", "login"} \/ (t.req = "logout" /\ Good(t.cred))
       THEN \E h \in Free :
                /\ CASE t.req = "refresh" -> Refresh(h, t.body)
                     [] t.req = "login"   -> \E u \in Users : Login(h, u)
                     [] t.req = "logout"  -> Logout(h, token[t.body].user, t.body)
                /\ Set(k, [t EXCEPT !.pc = "sent", !.via = h])
       ELSE /\ Set(k, [t EXCEPT !.pc = IF Good(t.cred) THEN "ok" ELSE "refused"])
            /\ UNCHANGED tokenVars
    /\ UNCHANGED <<app, stored, lapsed>>

\* The PIN is wrong: 401 before any token is issued.
WrongPin ==
    /\ task["login"].pc = "out" /\ task["login"].req = "login"
    /\ Set("login", [task["login"] EXCEPT !.pc = "refused"])
    /\ UNCHANGED <<tokenVars, app, stored, lapsed>>

\* The answer to task k's request reaches the app.
Answered(k, outcome) ==
    \/ task[k].pc = outcome /\ UNCHANGED tokenVars
    \/ task[k].pc = "sent" /\ serve[task[k].via].pc = outcome /\ Answer(task[k].via)

\* With its answer, refreshToken and restore store the pair first, the login
\* first asks who the user is.
Succeeds(k) ==
    LET t == task[k]
        got == IF t.via # None THEN serve[t.via].issued ELSE t.pair IN
    /\ Answered(k, "ok")
    /\ Set(k, CASE t.req = "refresh" -> [Do("store", None) EXCEPT !.pair = got]
                [] t.req = "login"   -> [Do("out", "me") EXCEPT !.cred = got, !.pair = got]
                [] t.req = "me"      -> [Do(IF k = "restore" THEN "publish" ELSE "store",
                                            None) EXCEPT !.pair = got]
                [] t.req = "logout"  -> Do("clear", None)
                [] t.req = "call"    -> NoTask)
    /\ UNCHANGED <<app, stored, lapsed>>

\* onError at a first 401: _refreshOnce joins the refresh in flight, or
\* starts one.  A refresh that is refused joins itself.
NotShared(k) ==                     \* mutant: each 401 starts a refresh anew
    /\ ~task[k].retried /\ Answered(k, "refused")
    /\ task' = [task EXCEPT ![k].pc = "wait", ![k].via = None,
                            !["refresher"] = Do("read", "refresh")]
    /\ UNCHANGED <<app, stored, lapsed>>

Unauthorized(k) ==
    /\ ~task[k].retried /\ Answered(k, "refused")
    /\ task' = [j \in Tasks |->
            IF j = k THEN [task[k] EXCEPT !.pc = "wait", !.via = None]
            ELSE IF j = "refresher" /\ task[j].pc = "idle" THEN Do("read", "refresh")
            ELSE task[j]]
    /\ UNCHANGED <<app, stored, lapsed>>

\* The catch blocks: restore, refreshToken and signOut clear the storage,
\* the others show an error.
Catch(k) == Set(k, IF task[k].req \in {"refresh", "logout"} \/ k = "restore"
                   THEN Do("clear", None) ELSE NoTask)

\* A 401 to a request that was sent again.
RefusedAgain(k) ==
    /\ task[k].retried /\ Answered(k, "refused")
    /\ Catch(k)
    /\ UNCHANGED <<app, stored, lapsed>>

\* The guard's own answer is lost as well as the request would be.
Lost(k) ==
    /\ "lost" \in accidents
    /\ task[k].pc \in {"out", "sent"}
    /\ Catch(k)
    /\ UNCHANGED <<tokenVars, app, stored, lapsed>>

StoreAccessOnly(k) ==               \* mutant: the new refresh token is not stored
    /\ task[k].pc = "store"
    /\ Set(k, IF k = "restore" THEN [Do("out", "me") EXCEPT !.cred = task[k].pair,
                                                           !.pair = task[k].pair]
              ELSE [task[k] EXCEPT !.pc = "publish"])
    /\ UNCHANGED <<tokenVars, app, stored, lapsed>>

\* _storage.write; restore asks who the user is only then.
Store(k) ==
    /\ task[k].pc = "store"
    /\ stored' = task[k].pair
    /\ Set(k, IF k = "restore" THEN [Do("out", "me") EXCEPT !.cred = task[k].pair,
                                                           !.pair = task[k].pair]
              ELSE [task[k] EXCEPT !.pc = "publish"])
    /\ UNCHANGED <<tokenVars, app, lapsed>>

\* The new state; refreshToken copies the status of the moment.
Publish(k) ==
    /\ task[k].pc = "publish"
    /\ IF k = "refresher"
       THEN app' = [app EXCEPT !.access = task[k].pair] /\ task' = Wake(task[k].pair)
       ELSE /\ app' = [status |-> "authenticated", access |-> task[k].pair]
            /\ Set(k, NoTask)
    /\ UNCHANGED <<tokenVars, stored, lapsed>>

\* _storage.clear
Clear(k) ==
    /\ task[k].pc = "clear"
    /\ stored' = None
    /\ Set(k, [task[k] EXCEPT !.pc = "left"])
    /\ UNCHANGED <<tokenVars, app, lapsed>>

LeftLocked(k) ==                    \* mutant: a status of the enum nobody handles
    /\ task[k].pc = "left"
    /\ app' = [status |-> "locked", access |-> None]
    /\ IF k = "refresher" THEN task' = Wake(None) ELSE Set(k, NoTask)
    /\ UNCHANGED <<tokenVars, stored, lapsed>>

\* The new state of each of the three.
Left(k) ==
    /\ task[k].pc = "left"
    /\ app' = [status |-> "signedOut", access |-> None]
    /\ IF k = "refresher" THEN task' = Wake(None) ELSE Set(k, NoTask)
    /\ UNCHANGED <<tokenVars, stored, lapsed>>

TaskStep(k) ==
    \/ ReadStored(k) \/ NothingStored(k) \/ Arrives(k) \/ Succeeds(k)
    \/ Unauthorized(k) \/ RefusedAgain(k) \/ Store(k) \/ Publish(k)
    \/ Clear(k) \/ Left(k)

----------------------------------------------------------------------------
(* The server and the rest of the world                                    *)

\* An answer nobody waits for any more, or that another device gets.
Unclaimed(h) == Unheard(h) /\ Answer(h)

ServerStep(h) == (ServeStep(h) \/ Unclaimed(h)) /\ UNCHANGED appVars

\* The app's access token expires.
Lapse ==
    /\ Room(1) /\ Good(app.access)
    /\ lapsed' = app.access
    /\ UNCHANGED <<tokenVars, app, stored, task>>

\* The app dies and starts again; its requests go on at the server.
Kill ==
    /\ "kill" \in accidents /\ Room(2)
    /\ app' = Starting /\ task' = Restoring
    /\ UNCHANGED <<tokenVars, stored, lapsed>>

\* Another device changes the phone number and so revokes every refresh token.
\* Bound: only while there are tokens to revoke.
ChangedElsewhere ==
    /\ "change" \in accidents /\ Room(1) /\ Live # {}
    /\ \E h \in Free, u \in Users : ChangePhone(h, u)
    /\ UNCHANGED appVars

SessionNext ==
    /\ \/ StartLogin \/ StartLeave \/ \E k \in Calls : StartCall(k)
       \/ WrongPin \/ \E k \in Tasks : TaskStep(k) \/ Lost(k)
       \/ \E h \in Handlers : ServerStep(h)
       \/ Lapse \/ Kill \/ ChangedElsewhere
    /\ UNCHANGED accidents

SessionSpec == SessionInit /\ [][SessionNext]_sessionVars

\* Dart's event loop resumes every coroutine whose await has an answer, and
\* the server's every handler.  The user, time and accidents owe nothing.
FairSessionSpec ==
    /\ SessionSpec
    /\ \A k \in Tasks : WF_<<tokenVars, appVars>>(TaskStep(k))
    /\ \A h \in Handlers : WF_<<tokenVars, appVars>>(ServerStep(h))
----------------------------------------------------------------------------
(* Properties                                                              *)

SessionTypeOK ==
    /\ TokenTypeOK
    /\ app \in AppState
    /\ stored \in Tokens \cup {None}
    /\ lapsed \in 0..MaxTokens
    /\ task \in [Tasks -> TaskState]
    /\ accidents \in Worlds

\* Whatever calls fail together, sign-outs and logins interleave and answers
\* get lost, the app never has two refreshes of one token at the server,
\* which would take the second for the reuse of a stolen token and end every
\* session of the user.
SingleFlight ==
    accidents \cap {"kill", "eager"} = {} => \A t \in Tokens : ~token[t].shared

\* A refresh of the app is under way.
Exchange ==
    \E k \in Tasks : task[k].req = "refresh" \/ task[k].pc \in {"store", "clear"}

\* Once its refresh is over, however it went, the app does not hold on to a
\* token that the server has exchanged: presenting it would look like reuse.
SpentNotStored ==
    stored # None /\ ~Exchange => Heirs(stored) = {}

\* The refresh was refused and waits for itself.
Stuck == task["refresher"].pc = "wait"

\* Unless the app is killed for ever, every task of it ends, and with it the
\* spinner of its screen, or the shared refresh has come to wait for itself.
TasksEnd ==
    <>[][~Kill]_sessionVars =>
        \A k \in Tasks : task[k].pc # "idle" ~> task[k].pc = "idle" \/ Stuck

----------------------------------------------------------------------------
(* What the documents say, and the code does not                           *)

\* auth-login/spec.md:225: a refresh token that has expired or is invalid is
\* answered with 401 and leads to the login screen.
RefusedSignsOut ==
    \A k \in Tasks : task[k].req = "refresh" /\ task[k].pc = "wait"
                        ~> app.status = "signedOut"
============================================================================

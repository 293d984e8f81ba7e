---------------------------- MODULE BrowserSession ----------------------------
(***************************************************************************)
(* A browser with several tabs, the session routes of the frontend server  *)
(* and the refresh sessions behind them: lib/api-client.ts, lib/session.ts,*)
(* lib/backend.ts, lib/authenticated-backend.ts, app/api/session and the   *)
(* session handling of app/page.tsx.                                       *)
(*                                                                         *)
(* The tabs share the cookies.  A tab has one exchange of each kind at a   *)
(* time with a session route; its silent refresh is shared by its calls.   *)
(* An exchange takes the cookie when it is sent and changes the cookies    *)
(* when its answer arrives; in between, the server asks the backend and    *)
(* gives up after ten seconds, which does not stop the backend.            *)
(*                                                                         *)
(* Access tokens are short-lived and may be rejected at any time: a call   *)
(* to the API is one step, its answer nondeterministic.                    *)
(***************************************************************************)
EXTENDS RefreshSessions

CONSTANTS
    Tabs,
    Calls,    \* pairs of a tab and "load", loadSession, or any other call
    MaxLate,  \* bound on the requests that outlive their exchange
    MaxForms  \* bound on the logins and logouts that run at the same time

ASSUME BrowserAssumption ==
    Calls \subseteq Tabs \X {"load", "work"} /\ {MaxLate, MaxForms} \subseteq Nat

VARIABLES
    jar,      \* the refresh cookie
    exch,     \* the exchanges with the session routes
    late,     \* requests the backend may still carry out for nobody
    lost,     \* tokens the browser never got
    waiting,  \* the calls that wait for the silent refresh of their tab
    ui        \* what each tab shows

vars == <<store, jar, exch, late, lost, waiting, ui>>

Kinds == {"login", "refresh", "logout"}

Exchanges == Tabs \X Kinds

\* token is what was sent, status and new what was answered.  An answer is
\* broken when the backend accepted the request and its tokens did not come
\* through: the body broke off, was late or malformed.
Exchange == [st : {"none", "sent", "answered"}, token : 0..MaxTokens,
             status : {"ok", "denied", "failed", "broken"}, new : 0..MaxTokens]

NoExchange == [st |-> "none", token |-> 0, status |-> "ok", new |-> 0]

\* Types; an answer carries a token if it succeeds, and only then, and a call
\* waits for a refresh that is under way.
TypeOK ==
    /\ StoreTypeOK
    /\ jar \in 0..MaxTokens
    /\ exch \in [Exchanges -> Exchange]
    /\ late \subseteq Kinds \X (0..MaxTokens)
    /\ lost \subseteq Tokens
    /\ waiting \subseteq Calls
    /\ ui \in [Tabs -> {"in", "out"}]
    /\ \A e \in Exchanges :
           exch[e].st = "answered" /\ e[2] # "logout"
               => (exch[e].new # 0 <=> exch[e].status = "ok")
    /\ \A c \in waiting : exch[<<c[1], "refresh">>].st # "none"

Init ==
    /\ StoreInit
    /\ jar = 0
    /\ exch = [e \in Exchanges |-> NoExchange]
    /\ late = {} /\ lost = {} /\ waiting = {}
    /\ ui = [t \in Tabs |-> "out"]

-----------------------------------------------------------------------------
(* The session routes and the backend *)

Sent(token) == [NoExchange EXCEPT !.st = "sent", !.token = token]

\* Without a refresh cookie the route answers itself.
Send(e) ==
    exch' = [exch EXCEPT ![e] =
                IF e[2] = "login" THEN Sent(0)
                ELSE IF jar # 0 THEN Sent(jar)
                ELSE [NoExchange EXCEPT !.st = "answered", !.status = "denied"]]

\* The backend carries out a request.
Execute(kind, token, status, new) ==
    \/ kind = "login" /\ Login(status, new)
    \/ kind = "refresh" /\ Rotate(token, status, new)
    \/ kind = "logout" /\ Revoke(token, status, new)

Answers == {"ok", "denied", "failed"} \X (0..MaxTokens)

\* The refreshes that end in failedRefresh: its answer clears the cookies.
FailedRefresh(e, status) == e[2] = "refresh" /\ status \in {"denied", "broken"}

\* The token that was sent is of interest only if the cookies are to be cleared.
Answered(e, status, new) ==
    exch' = [exch EXCEPT ![e] =
                [st |-> "answered",
                 token |-> IF FailedRefresh(e, status) THEN exch[e].token ELSE 0,
                 status |-> status, new |-> new]]

Serve(e) ==
    /\ exch[e].st = "sent"
    /\ \E a \in Answers : Execute(e[2], exch[e].token, a[1], a[2]) /\ Answered(e, a[1], a[2])
    /\ UNCHANGED <<jar, late, lost, waiting, ui>>

\* The backend has logged in or rotated, and the answer says so, but
\* isSessionTokenPayload does not find the tokens in it: they are lost.
ServeBroken(e) ==
    /\ exch[e].st = "sent" /\ e[2] # "logout"
    /\ \E n \in Tokens :
           Execute(e[2], exch[e].token, "ok", n) /\ lost' = lost \cup {n}
    /\ Answered(e, "broken", 0)
    /\ UNCHANGED <<jar, late, waiting, ui>>

\* Mutant of GiveUp: the refresh route waits for the backend without a timeout.
GiveUpForms(e) ==
    /\ exch[e].st = "sent" /\ e[2] # "refresh"
    /\ Answered(e, "failed", 0)
    /\ UNCHANGED <<store, jar, late, lost, waiting, ui>>

\* The backend cannot be reached, or fails; or the time is over, and the
\* backend may still carry the request out (with a token that is not
\* current it changes nothing).
GiveUp(e) ==
    /\ exch[e].st = "sent"
    /\ Answered(e, "failed", 0)
    /\ \/ late' = late
       \/ /\ Cardinality(late) < MaxLate
          /\ IF e[2] = "login" THEN \E s \in Sessions : rows[s] = NoRow
                               ELSE Usable(exch[e].token)
          /\ late' = late \cup {<<e[2], exch[e].token>>}
    /\ UNCHANGED <<store, jar, lost, waiting, ui>>

ServeLate ==
    /\ \E r \in late, a \in Answers :
           /\ Execute(r[1], r[2], a[1], a[2])
           /\ late' = late \ {r}
           /\ lost' = lost \cup ({a[2]} \ {0})
    /\ UNCHANGED <<jar, exch, waiting, ui>>

-----------------------------------------------------------------------------
(* The tabs *)

Forms == {e \in Exchanges : e[2] # "refresh" /\ exch[e].st # "none"}

Submit(e) ==
    /\ Cardinality(Forms) < MaxForms
    /\ exch[e].st = "none"
    /\ Send(e)
    /\ UNCHANGED <<store, jar, late, lost, waiting, ui>>

StartLogin(t) == ui[t] = "out" /\ Submit(<<t, "login">>)

StartLogout(t) == ui[t] = "in" /\ Submit(<<t, "logout">>)

\* What the tab shows after a call that got any answer but 401, or none.
Shows(c, shown) ==
    IF c[2] = "work" THEN shown = ui[c[1]]
    ELSE shown = "out" \/ (shown = "in" /\ active /\ jar # 0)

MayCall(c) == c \notin waiting /\ (c[2] = "work" => ui[c[1]] = "in")

CallAnswered(c) ==
    /\ MayCall(c)
    /\ \E shown \in {"in", "out"} : Shows(c, shown) /\ ui' = [ui EXCEPT ![c[1]] = shown]
    /\ UNCHANGED <<store, jar, exch, late, lost, waiting>>

\* 401: the silent refresh of the tab is joined, or started.
CallDenied(c) ==
    /\ MayCall(c)
    /\ waiting' = waiting \cup {c}
    /\ IF exch[<<c[1], "refresh">>].st = "none" THEN Send(<<c[1], "refresh">>)
                                                ELSE UNCHANGED exch
    /\ UNCHANGED <<store, jar, late, lost, ui>>

Waiting(t) == {c \in waiting : c[1] = t}

\* The calls of the tab go on when its refresh has ended: they are repeated
\* once, or they end.  A call that gets 401 again, or for which the session has
\* expired, announces it; loadSession takes any failure for the end of the session.
Resume(t, status) ==
    /\ waiting' = waiting \ Waiting(t)
    /\ ui' \in {[ui EXCEPT ![t] = shown] : shown \in
                   IF Waiting(t) = {} THEN {ui[t]}
                   ELSE IF status = "denied" THEN {"out"}
                   ELSE IF <<t, "load">> \notin waiting
                   THEN IF status = "ok" THEN {"out", ui[t]} ELSE {ui[t]}
                   ELSE IF status = "ok" /\ active THEN {"in", "out"} ELSE {"out"}}

\* A login that succeeds is followed by loadSession, one that fails by a message.
GoOn(e, status) ==
    IF e[2] = "refresh" THEN Resume(e[1], status)
    ELSE /\ waiting' = waiting
         /\ ui' \in {[ui EXCEPT ![e[1]] = shown] : shown \in
                        IF e[2] = "logout" THEN {"out"}
                        ELSE IF status = "ok" /\ active THEN {"in", "out"} ELSE {ui[e[1]]}}

\* Mutant of Cookie: a refresh replaces the access token only.
CookieKept(e) ==
    IF e[2] = "logout" \/ FailedRefresh(e, exch[e].status) THEN 0
    ELSE IF exch[e].status = "ok" /\ e[2] = "login" THEN exch[e].new
    ELSE jar

\* Mutant of Cookie: an outage clears the cookies.
CookieCleared(e) ==
    IF e[2] # "login" /\ exch[e].status # "ok" THEN 0
    ELSE IF exch[e].status = "ok" THEN exch[e].new
    ELSE jar

\* The cookie after the answer of a session route.  A refresh that fails with
\* 502 keeps it only if the backend did not accept the token.
Cookie(e) ==
    IF e[2] = "logout" \/ FailedRefresh(e, exch[e].status) THEN 0
    ELSE IF exch[e].status = "ok" THEN exch[e].new
    ELSE jar

Deliver(e) ==
    /\ exch[e].st = "answered"
    /\ jar' = Cookie(e)
    /\ exch' = [exch EXCEPT ![e] = NoExchange]
    /\ GoOn(e, exch[e].status)
    /\ UNCHANGED <<store, late, lost>>

\* The answer is lost on its way to the browser.
Lose(e) ==
    /\ exch[e].st = "answered"
    /\ exch' = [exch EXCEPT ![e] = NoExchange]
    /\ lost' = lost \cup ({exch[e].new} \ {0})
    /\ GoOn(e, "failed")
    /\ UNCHANGED <<store, jar, late>>

\* The refresh cookie lives as long as its session.
SessionExpires ==
    /\ \E s \in Sessions :
           /\ Expire(s)
           /\ jar' = IF jar = rows[s].token THEN 0 ELSE jar
    /\ UNCHANGED <<exch, late, lost, waiting, ui>>

UserDeactivated == Deactivate /\ UNCHANGED <<jar, exch, late, lost, waiting, ui>>

Next ==
    \/ \E t \in Tabs : StartLogin(t) \/ StartLogout(t)
    \/ \E c \in Calls : CallAnswered(c) \/ CallDenied(c)
    \/ \E e \in Exchanges : Serve(e) \/ ServeBroken(e) \/ GiveUp(e) \/ Deliver(e) \/ Lose(e)
    \/ ServeLate \/ SessionExpires \/ UserDeactivated

\* The frontend server gives up in time, and every answer arrives or its
\* connection breaks.  Nothing is assumed of the backend.
Fairness ==
    \A t \in Tabs : /\ WF_vars(GiveUp(<<t, "refresh">>))
                    /\ WF_vars(Deliver(<<t, "refresh">>) \/ Lose(<<t, "refresh">>))

Spec == Init /\ [][Next]_vars /\ Fairness

-----------------------------------------------------------------------------
(* Properties *)

\* A refresh token is exchanged at most once, however many tabs send it and
\* however late the backend carries out a request (rotate_refresh_session).
ExchangedOnce ==
    \A m, n \in Tokens : origin[m] = origin[n] /\ origin[m] # 0 => m = n

\* The refresh cookie is the current token of its session, or the token that
\* replaced it is on its way to the browser, or was lost (setSessionCookies).
CookieKeepsUp ==
    jar = 0 \/ Current(jar)
    \/ \E n \in Tokens :
           /\ origin[n] = jar
           /\ n \in lost \/ \E e \in Exchanges : exch[e].st = "answered" /\ exch[e].new = n

\* A refresh cookie that can be used is deleted by a logout, or by the end of a
\* refresh that was about another token: it had none to send, sent one that was
\* exchanged before, or had its own exchanged while the answer broke (failedRefresh).
UsableCookieKept ==
    [][(Usable(jar) /\ active /\ jar' = 0 /\ rows' = rows)
           => \E e \in Exchanges :
                  /\ exch[e].st = "answered" /\ exch'[e].st = "none"
                  /\ e[2] = "logout"
                     \/ (FailedRefresh(e, exch[e].status) /\ exch[e].token # jar)]_vars

\* Every call of a tab comes to an end, whatever the backend does (apiFetch).
CallsEnd == \A c \in Calls : c \in waiting ~> c \notin waiting

\* A logout the backend carries out revokes the session of the cookie: does not
\* hold where the database refuses the statement (BrowserSessionLogout.cfg).
LogoutRevokes ==
    [][\A e \in Exchanges, n \in Tokens :
           e[2] = "logout" /\ exch[e].token = n /\ Usable(n) /\ Serve(e)
               => ~ Usable(n)']_vars

\* A refresh that fails for another reason than a session that has ended keeps
\* the cookie, at least one that works: does not hold where the answer of the
\* backend breaks and the user has logged in meanwhile (BrowserSessionOutage.cfg).
OutageKeepsCookie ==
    [][\A e \in Exchanges :
           e[2] = "refresh" /\ exch[e].status \in {"failed", "broken"} /\ Usable(jar) /\ active
               /\ Deliver(e) => jar' = jar]_vars

=============================================================================

------------------------- MODULE BrowserSessionProofs -------------------------
(***************************************************************************)
(* Proofs about BrowserSession for any tabs, calls, sessions and bounds.   *)
(*                                                                         *)
(* The argument: only the cookie, the exchanges and the late requests hold *)
(* tokens that can reach the backend.  A token that was answered and not   *)
(* delivered is in none of them, so it is the current one of its session   *)
(* when it is delivered; and a token that was exchanged is never current   *)
(* again, because tokens only grow.                                        *)
(***************************************************************************)
EXTENDS BrowserSession, TLAPS

\* The tokens of the backend: none is ahead of the last one issued, a row has
\* its own, and one that was exchanged is older and no longer current.
StoreInv ==
    /\ StoreTypeOK
    /\ \A s \in Sessions : rows[s].token <= issued
    /\ \A s, q \in Sessions : rows[s].token = rows[q].token /\ rows[s].token # 0 => s = q
    /\ \A m \in Tokens : m > issued => origin[m] = 0
    /\ \A m \in Tokens : origin[m] # 0 => origin[m] < m
    /\ \A m \in Tokens, s \in Sessions : origin[m] # 0 => origin[m] # rows[s].token
    /\ ExchangedOnce

\* The tokens outside the backend were issued.
TokensIssued ==
    /\ jar <= issued
    /\ \A e \in Exchanges : exch[e].token <= issued /\ exch[e].new <= issued
    /\ \A r \in late : r[2] <= issued

Fresh(e) == exch[e].st = "answered" /\ exch[e].new # 0

\* A token on its way to the browser is current, and nobody can send it.
Unused(e) ==
    /\ Current(exch[e].new)
    /\ jar # exch[e].new
    /\ \A f \in Exchanges : exch[f].token # exch[e].new
    /\ \A r \in late : r[2] # exch[e].new
    /\ \A f \in Exchanges \ {e} : Fresh(f) => exch[f].new # exch[e].new

FreshUnused == \A e \in Exchanges : Fresh(e) => Unused(e)

LogoutsGetNone ==
    \A e \in Exchanges : exch[e].st = "answered" /\ e[2] = "logout" => exch[e].new = 0

\* A token the backend has refused, or has exchanged for one that was lost, will
\* not be accepted later.
DenialsLast ==
    \A e \in Exchanges :
        exch[e].st = "answered" /\ FailedRefresh(e, exch[e].status)
            => ~ (active /\ Usable(exch[e].token))

IInv ==
    /\ TypeOK
    /\ StoreInv
    /\ TokensIssued
    /\ FreshUnused
    /\ LogoutsGetNone
    /\ DenialsLast
    /\ CookieKeepsUp

-----------------------------------------------------------------------------
(* The backend: a step gives out a new token or leaves the tokens alone *)

Renews(s, old, new) == rows[s].token = old /\ Issue(s, old) /\ new = issued + 1

Keeps ==
    /\ rows' \in [Sessions -> Row]
    /\ active' \in BOOLEAN /\ (active' => active)
    /\ UNCHANGED <<issued, origin, refuses>>
    /\ \A s \in Sessions : rows'[s].token = rows[s].token /\ (rows'[s].open => rows[s].open)

LEMMA StoreUnchangedKeeps == StoreTypeOK /\ UNCHANGED store => Keeps
BY DEF StoreTypeOK, store, Keeps

LEMMA RenewsStore ==
    ASSUME StoreInv, NEW s \in Sessions, NEW old, NEW new, Renews(s, old, new)
    PROVE  /\ StoreInv'
           /\ new \in Tokens /\ new = issued + 1 /\ issued' = issued + 1 /\ active' = active
           /\ rows'[s].token = new /\ \A q \in Sessions \ {s} : rows'[q] = rows[q]
           /\ origin'[new] = old /\ \A n \in Tokens \ {new} : origin'[n] = origin[n]
<1>1. /\ issued \in Nat /\ MaxTokens \in Nat /\ issued + 1 <= MaxTokens
      /\ new = issued + 1 /\ new \in Tokens /\ issued' = issued + 1
      /\ active' = active /\ refuses' = refuses
      /\ rows[s].token = old /\ old \in 0..MaxTokens /\ old <= issued
  BY RefreshAssumption DEF Renews, Issue, StoreInv, StoreTypeOK, Tokens, Row
<1>2. /\ rows' \in [Sessions -> Row]
      /\ rows'[s].token = new /\ rows'[s].open = rows[s].open
      /\ \A q \in Sessions \ {s} : rows'[q] = rows[q]
  BY <1>1 DEF Renews, Issue, StoreInv, StoreTypeOK, Row
<1>3. /\ origin' \in [Tokens -> 0..MaxTokens]
      /\ origin'[new] = old /\ \A n \in Tokens \ {new} : origin'[n] = origin[n]
  BY <1>1 DEF Renews, Issue, StoreInv, StoreTypeOK
<1>4. StoreTypeOK'
  BY <1>1, <1>2, <1>3 DEF StoreInv, StoreTypeOK
<1>5. \A q \in Sessions : rows'[q].token <= issued'
  BY <1>1, <1>2 DEF StoreInv, StoreTypeOK, Row
<1>6. \A p, q \in Sessions : rows'[p].token = rows'[q].token /\ rows'[p].token # 0 => p = q
  <2> SUFFICES ASSUME NEW p \in Sessions, NEW q \in Sessions,
                      rows'[p].token = rows'[q].token, rows'[p].token # 0, p # q
               PROVE  FALSE
    OBVIOUS
  <2>1. CASE p = s
    BY <2>1, <1>1, <1>2 DEF StoreInv, StoreTypeOK, Row
  <2>2. CASE q = s
    BY <2>2, <1>1, <1>2 DEF StoreInv, StoreTypeOK, Row
  <2>3. CASE p # s /\ q # s
    BY <2>3, <1>2 DEF StoreInv
  <2> QED BY <2>1, <2>2, <2>3
<1>7. \A m \in Tokens : m > issued' => origin'[m] = 0
  BY <1>1, <1>3 DEF StoreInv, Tokens
<1>8. \A m \in Tokens : origin'[m] # 0 => origin'[m] < m
  BY <1>1, <1>3 DEF StoreInv
<1>9. \A m \in Tokens, q \in Sessions : origin'[m] # 0 => origin'[m] # rows'[q].token
  <2> SUFFICES ASSUME NEW m \in Tokens, NEW q \in Sessions,
                      origin'[m] # 0, origin'[m] = rows'[q].token
               PROVE  FALSE
    OBVIOUS
  <2>1. origin'[m] <= issued
    <3>1. CASE m = new
      BY <3>1, <1>1, <1>3
    <3>2. CASE m # new
      BY <3>2, <1>1, <1>3 DEF StoreInv, StoreTypeOK, Tokens
    <3> QED BY <3>1, <3>2
  <2>2. q # s /\ rows[q].token = origin'[m]
    BY <2>1, <1>1, <1>2
  <2>3. CASE m = new
    BY <2>2, <2>3, <1>1, <1>3 DEF StoreInv
  <2>4. CASE m # new
    BY <2>2, <2>4, <1>3 DEF StoreInv
  <2> QED BY <2>3, <2>4
<1>10. ExchangedOnce'
  <2> SUFFICES ASSUME NEW m \in Tokens, NEW n \in Tokens,
                      origin'[m] = origin'[n], origin'[m] # 0, m # n
               PROVE  FALSE
    BY DEF ExchangedOnce
  <2>1. CASE m = new
    BY <2>1, <1>1, <1>3 DEF StoreInv
  <2>2. CASE n = new
    BY <2>2, <1>1, <1>3 DEF StoreInv
  <2>3. CASE m # new /\ n # new
    BY <2>3, <1>3 DEF StoreInv, ExchangedOnce
  <2> QED BY <2>1, <2>2, <2>3
<1>11. StoreInv'
  BY <1>4, <1>5, <1>6, <1>7, <1>8, <1>9, <1>10 DEF StoreInv
<1> QED BY <1>1, <1>2, <1>3, <1>11

LEMMA KeepsStore ==
    ASSUME StoreInv, Keeps
    PROVE  StoreInv'
<1>1. StoreTypeOK'
  BY DEF Keeps, StoreInv, StoreTypeOK
<1>2. \A m \in Tokens, q \in Sessions : origin'[m] # 0 => origin'[m] # rows'[q].token
  BY DEF Keeps, StoreInv
<1>3. ExchangedOnce'
  BY DEF Keeps, StoreInv, ExchangedOnce
<1> QED BY <1>1, <1>2, <1>3 DEF Keeps, StoreInv

\* Every request the backend carries out is of one of the two kinds.
Given(kind, token, status, new) ==
    /\ kind # "logout" /\ status = "ok"
    /\ \E s \in Sessions : Renews(s, IF kind = "login" THEN 0 ELSE token, new)

NotGiven(kind, token, status, new) ==
    /\ Keeps
    /\ new = 0
    /\ kind # "logout" => status # "ok"
    /\ kind = "refresh" /\ status = "denied" => ~ (active /\ Usable(token))

LEMMA ExecuteSplits ==
    ASSUME StoreInv, NEW kind \in Kinds, NEW token \in 0..MaxTokens,
           NEW status, NEW new, Execute(kind, token, status, new)
    PROVE  Given(kind, token, status, new) \/ NotGiven(kind, token, status, new)
<1>1. CASE kind = "login" /\ Login(status, new)
  <2>1. CASE active
    <3>1. PICK s \in Sessions : rows[s] = NoRow /\ Issue(s, 0)
      BY <1>1, <2>1 DEF Login
    <3>2. Renews(s, 0, new) /\ status = "ok"
      BY <1>1, <2>1, <3>1 DEF Login, Renews, Issue, NoRow
    <3> QED BY <1>1, <3>2 DEF Given
  <2>2. CASE ~ active
    BY <1>1, <2>2, StoreUnchangedKeeps DEF Login, NotGiven, StoreInv
  <2> QED BY <2>1, <2>2
<1>2. CASE kind = "refresh" /\ Rotate(token, status, new)
  <2>1. CASE Refused(status, new)
    BY <1>2, <2>1, StoreUnchangedKeeps DEF Refused, NotGiven, StoreInv
  <2>2. CASE ~ refuses /\ active /\ Usable(token)
    BY <1>2, <2>2 DEF Rotate, Refused, Given, Renews, Issue
  <2>3. CASE ~ refuses /\ ~ (active /\ Usable(token))
    BY <1>2, <2>3, StoreUnchangedKeeps DEF Rotate, Refused, NotGiven, StoreInv
  <2> QED BY <1>2, <2>1, <2>2, <2>3 DEF Rotate
<1>3. CASE kind = "logout" /\ Revoke(token, status, new)
  <2>1. CASE Refused(status, new)
    BY <1>3, <2>1, StoreUnchangedKeeps DEF Refused, NotGiven, StoreInv
  <2>2. CASE ~ refuses
    BY <1>3, <2>2 DEF Revoke, Refused, NotGiven, Keeps, StoreInv, StoreTypeOK, Row
  <2> QED BY <1>3, <2>1, <2>2 DEF Revoke
<1> QED BY <1>1, <1>2, <1>3 DEF Execute

-----------------------------------------------------------------------------
(* The initial state, and steps that leave the backend alone *)

LEMMA InitInv == Init => IInv
<1> SUFFICES ASSUME Init PROVE IInv
  OBVIOUS
<1>1. \A e \in Exchanges : exch[e] = NoExchange
  BY DEF Init
<1>2. TypeOK
  <2>1. NoExchange \in Exchange
    BY RefreshAssumption DEF NoExchange, Exchange
  <2>2. StoreTypeOK
    BY RefreshAssumption DEF Init, StoreInit, StoreTypeOK, NoRow, Row
  <2> QED BY <1>1, <2>1, <2>2, RefreshAssumption DEF Init, TypeOK, NoExchange
<1>3. StoreInv
  BY <1>2, RefreshAssumption DEF Init, StoreInit, StoreInv, TypeOK, NoRow, Tokens, ExchangedOnce
<1>4. TokensIssued
  BY <1>1 DEF Init, StoreInit, TokensIssued, NoExchange
<1>5. FreshUnused /\ LogoutsGetNone /\ DenialsLast
  BY <1>1 DEF FreshUnused, LogoutsGetNone, DenialsLast, Fresh, NoExchange
<1>6. CookieKeepsUp
  BY DEF Init, CookieKeepsUp
<1> QED BY <1>2, <1>3, <1>4, <1>5, <1>6 DEF IInv

LEMMA SameStore ==
    ASSUME StoreInv, UNCHANGED store
    PROVE  StoreInv' /\ StoreTypeOK'
<1>1. Keeps
  BY StoreUnchangedKeeps DEF StoreInv
<1> QED BY <1>1, KeepsStore DEF StoreInv

LEMMA ExchangeTypes ==
    ASSUME TypeOK, NEW e \in Exchanges
    PROVE  /\ exch[e] \in Exchange
           /\ exch[e].token \in 0..MaxTokens /\ exch[e].new \in 0..MaxTokens
           /\ e[1] \in Tabs /\ e[2] \in Kinds
BY DEF TypeOK, Exchange, Exchanges

LEMMA RefreshOfCall ==
    ASSUME NEW c \in Calls
    PROVE  c[1] \in Tabs /\ <<c[1], "refresh">> \in Exchanges
BY BrowserAssumption DEF Exchanges, Kinds

\* An exchange begins: the token that is sent is the cookie's.
LEMMA SendInv ==
    ASSUME IInv, NEW e \in Exchanges, exch[e].st = "none", Send(e),
           UNCHANGED <<store, jar, late, lost, ui>>,
           waiting' \subseteq Calls,
           \A c \in waiting' : c \in waiting \/ e = <<c[1], "refresh">>
    PROVE  IInv'
<1>1. PICK x \in Exchange :
         /\ exch' = [exch EXCEPT ![e] = x]
         /\ x.new = 0 /\ x.st \in {"sent", "answered"} /\ x.token \in {0, jar}
         /\ x.st = "answered" => x.status = "denied" /\ x.token = 0
  <2> DEFINE denied == [NoExchange EXCEPT !.st = "answered", !.status = "denied"]
  <2>1. denied \in Exchange /\ Sent(0) \in Exchange /\ Sent(jar) \in Exchange
    <3>1. 0 \in 0..MaxTokens /\ jar \in 0..MaxTokens
      BY RefreshAssumption DEF IInv, TypeOK
    <3>2. NoExchange \in Exchange
      BY <3>1 DEF NoExchange, Exchange
    <3>3. \A n \in 0..MaxTokens : Sent(n) \in Exchange
      BY <3>2 DEF Sent, Exchange
    <3>4. denied \in Exchange
      BY <3>2 DEF Exchange
    <3> QED BY <3>1, <3>3, <3>4
  <2>2. CASE e[2] = "login"
    <3>1. exch' = [exch EXCEPT ![e] = Sent(0)]
      BY <2>2 DEF Send
    <3> QED BY <2>1, <3>1 DEF Sent, NoExchange
  <2>3. CASE e[2] # "login" /\ jar # 0
    <3>1. exch' = [exch EXCEPT ![e] = Sent(jar)]
      BY <2>3 DEF Send
    <3> QED BY <2>1, <3>1 DEF Sent, NoExchange
  <2>4. CASE e[2] # "login" /\ jar = 0
    <3>1. exch' = [exch EXCEPT ![e] = denied]
      BY <2>4 DEF Send
    <3> QED BY <2>1, <3>1 DEF NoExchange
  <2> QED BY <2>2, <2>3, <2>4
<1>2. exch'[e] = x /\ \A f \in Exchanges \ {e} : exch'[f] = exch[f]
  BY <1>1 DEF IInv, TypeOK
<1>3. TypeOK'
  <2>1. \A c \in waiting' : exch'[<<c[1], "refresh">>].st # "none"
    BY <1>1, <1>2, RefreshOfCall DEF IInv, TypeOK
  <2>2. \A f \in Exchanges :
           exch'[f].st = "answered" /\ f[2] # "logout"
               => (exch'[f].new # 0 <=> exch'[f].status = "ok")
    BY <1>1, <1>2 DEF IInv, TypeOK
  <2> QED BY <1>1, <1>2, <2>1, <2>2, SameStore DEF IInv, TypeOK
<1>4. TokensIssued'
  BY <1>1, <1>2, RefreshAssumption DEF IInv, TokensIssued, StoreInv, StoreTypeOK, store
<1>5. FreshUnused'
  <2> SUFFICES ASSUME NEW f \in Exchanges, Fresh(f)'
               PROVE  Unused(f)'
    BY DEF FreshUnused
  <2>1. f # e /\ exch'[f] = exch[f] /\ Fresh(f) /\ Unused(f)
    BY <1>1, <1>2 DEF Fresh, IInv, FreshUnused
  <2> QED BY <1>1, <1>2, <2>1 DEF Unused, Fresh, Current, store
<1>6. LogoutsGetNone' /\ DenialsLast'
  BY <1>1, <1>2 DEF IInv, LogoutsGetNone, DenialsLast, Usable, store
<1>7. CookieKeepsUp'
  BY <1>1, <1>2 DEF IInv, CookieKeepsUp, Current, store
<1> QED BY <1>3, <1>4, <1>5, <1>6, <1>7, SameStore DEF IInv
-----------------------------------------------------------------------------
(* Answers *)

LEMMA AnsweredRecord ==
    ASSUME TypeOK, NEW e \in Exchanges, NEW status \in {"ok", "denied", "failed", "broken"},
           NEW new \in 0..MaxTokens, Answered(e, status, new)
    PROVE  /\ exch' \in [Exchanges -> Exchange]
           /\ exch'[e].st = "answered" /\ exch'[e].status = status /\ exch'[e].new = new
           /\ exch'[e].token \in {0, exch[e].token}
           /\ FailedRefresh(e, status) => exch'[e].token = exch[e].token
           /\ \A f \in Exchanges \ {e} : exch'[f] = exch[f]
<1> DEFINE token == IF FailedRefresh(e, status) THEN exch[e].token ELSE 0
           x == [st |-> "answered", token |-> token, status |-> status, new |-> new]
<1>1. exch[e] \in Exchange /\ token \in 0..MaxTokens
  <2>1. exch[e] \in Exchange /\ exch[e].token \in 0..MaxTokens /\ 0 \in 0..MaxTokens
    BY RefreshAssumption, ExchangeTypes
  <2> QED BY <2>1
<1>2. exch' = [exch EXCEPT ![e] = x]
  BY DEF Answered
<1> HIDE DEF token
<1>3. x \in Exchange
  BY <1>1 DEF Exchange
<1>4. x.st = "answered" /\ x.status = status /\ x.new = new /\ x.token = token
  BY <1>1 DEF Exchange
<1>5. exch'[e] = x /\ \A f \in Exchanges \ {e} : exch'[f] = exch[f]
  BY <1>2 DEF TypeOK
<1>6. token \in {0, exch[e].token} /\ (FailedRefresh(e, status) => token = exch[e].token)
  BY DEF token
<1> QED BY <1>2, <1>3, <1>4, <1>5, <1>6 DEF TypeOK

\* An answer without a token; the request may go on at the backend.
LEMMA AnsweredKeepsInv ==
    ASSUME IInv, Keeps, NEW e \in Exchanges, exch[e].st = "sent",
           NEW status \in {"ok", "denied", "failed", "broken"}, Answered(e, status, 0),
           e[2] # "logout" => status # "ok",
           FailedRefresh(e, status) => ~ (active /\ Usable(exch[e].token)),
           late' \subseteq late \cup {<<e[2], exch[e].token>>},
           UNCHANGED <<jar, waiting, ui>>, lost' \subseteq Tokens, lost \subseteq lost'
    PROVE  IInv'
<1>1. /\ exch' \in [Exchanges -> Exchange]
      /\ exch'[e].st = "answered" /\ exch'[e].status = status /\ exch'[e].new = 0
      /\ exch'[e].token \in {0, exch[e].token}
      /\ FailedRefresh(e, status) => exch'[e].token = exch[e].token
      /\ \A f \in Exchanges \ {e} : exch'[f] = exch[f]
  BY AnsweredRecord, RefreshAssumption DEF IInv
<1>2. TypeOK'
  <2>1. \A c \in waiting' : exch'[<<c[1], "refresh">>].st # "none"
    BY <1>1, RefreshOfCall DEF IInv, TypeOK
  <2>2. \A f \in Exchanges :
           exch'[f].st = "answered" /\ f[2] # "logout"
               => (exch'[f].new # 0 <=> exch'[f].status = "ok")
    BY <1>1 DEF IInv, TypeOK
  <2>3. late' \subseteq Kinds \X (0..MaxTokens)
    BY ExchangeTypes DEF IInv, TypeOK
  <2> QED BY <1>1, <2>1, <2>2, <2>3, KeepsStore DEF IInv, TypeOK, StoreInv
<1>3. TokensIssued'
  BY <1>1, RefreshAssumption DEF IInv, TokensIssued, StoreInv, StoreTypeOK, Keeps
<1>4. FreshUnused'
  <2> SUFFICES ASSUME NEW f \in Exchanges, Fresh(f)'
               PROVE  Unused(f)'
    BY DEF FreshUnused
  <2>1. f # e /\ exch'[f] = exch[f] /\ Fresh(f) /\ Unused(f)
    BY <1>1 DEF Fresh, IInv, FreshUnused
  <2>2. \A g \in Exchanges : exch'[g].token # exch'[f].new
    BY <1>1, <2>1 DEF Unused, Fresh
  <2>3. \A g \in Exchanges \ {f} : Fresh(g)' => exch'[g].new # exch'[f].new
    BY <1>1, <2>1 DEF Unused, Fresh
  <2>4. \A r \in late' : r[2] # exch'[f].new
    BY <2>1 DEF Unused
  <2> QED BY <2>1, <2>2, <2>3, <2>4 DEF Unused, Current, Keeps
<1>5. LogoutsGetNone'
  BY <1>1 DEF IInv, LogoutsGetNone
<1>6. DenialsLast'
  BY <1>1 DEF IInv, DenialsLast, Usable, Keeps
<1>7. CookieKeepsUp'
  BY <1>1 DEF IInv, CookieKeepsUp, Current, Keeps
<1> QED BY <1>2, <1>3, <1>4, <1>5, <1>6, <1>7, KeepsStore DEF IInv

\* An answer with a new token, for the token that was sent.
LEMMA AnsweredRenewsInv ==
    ASSUME IInv, NEW e \in Exchanges, exch[e].st = "sent", e[2] # "logout",
           NEW s \in Sessions, NEW new,
           Renews(s, IF e[2] = "login" THEN 0 ELSE exch[e].token, new),
           Answered(e, "ok", new), UNCHANGED <<jar, late, lost, waiting, ui>>
    PROVE  IInv'
<1> DEFINE old == IF e[2] = "login" THEN 0 ELSE exch[e].token
<1>1. /\ StoreInv'
      /\ new \in Tokens /\ new = issued + 1 /\ issued' = issued + 1 /\ active' = active
      /\ rows'[s].token = new /\ \A q \in Sessions \ {s} : rows'[q] = rows[q]
      /\ origin'[new] = old /\ \A n \in Tokens \ {new} : origin'[n] = origin[n]
  BY RenewsStore DEF IInv
<1>2. rows[s].token = old /\ old \in {0, exch[e].token} /\ old \in 0..MaxTokens
  BY ExchangeTypes, RefreshAssumption DEF Renews, IInv
<1> HIDE DEF old
<1>3. /\ issued \in Nat /\ MaxTokens \in Nat /\ new \in 0..MaxTokens /\ new # 0
      /\ ~ (new <= issued)
  BY <1>1, RefreshAssumption DEF IInv, StoreInv, StoreTypeOK, Tokens
<1>4. /\ exch' \in [Exchanges -> Exchange]
      /\ exch'[e].st = "answered" /\ exch'[e].status = "ok" /\ exch'[e].new = new
      /\ exch'[e].token \in {0, exch[e].token}
      /\ \A f \in Exchanges \ {e} : exch'[f] = exch[f]
  BY <1>3, AnsweredRecord DEF IInv
<1>5. TypeOK'
  <2>1. \A c \in waiting' : exch'[<<c[1], "refresh">>].st # "none"
    BY <1>4, RefreshOfCall DEF IInv, TypeOK
  <2>2. \A f \in Exchanges :
           exch'[f].st = "answered" /\ f[2] # "logout"
               => (exch'[f].new # 0 <=> exch'[f].status = "ok")
    BY <1>3, <1>4 DEF IInv, TypeOK
  <2> QED BY <1>1, <1>4, <2>1, <2>2 DEF IInv, TypeOK, StoreInv
<1>6. TokensIssued'
  <2>1. /\ jar' <= issued'
        /\ \A r \in late' : r[2] <= issued'
    BY <1>1, <1>3 DEF IInv, TokensIssued, TypeOK
  <2>2. \A f \in Exchanges : exch'[f].token <= issued' /\ exch'[f].new <= issued'
    BY <1>1, <1>3, <1>4, ExchangeTypes DEF IInv, TokensIssued
  <2> QED BY <2>1, <2>2 DEF TokensIssued
<1>7. FreshUnused'
  <2> SUFFICES ASSUME NEW f \in Exchanges, Fresh(f)'
               PROVE  Unused(f)'
    BY DEF FreshUnused
  <2>1. \A g \in Exchanges : exch'[g].token <= issued
    BY <1>3, <1>4 DEF IInv, TokensIssued
  <2>2. CASE f = e
    <3>1. Current(exch[f].new)'
      BY <1>1, <1>3, <1>4, <2>2 DEF Current
    <3>2. \A g \in Exchanges \ {f} : Fresh(g)' => exch'[g].new # exch'[f].new
      BY <1>3, <1>4, <2>2 DEF IInv, TokensIssued
    <3> QED BY <1>3, <1>4, <2>1, <2>2, <3>1, <3>2 DEF Unused, IInv, TokensIssued
  <2>3. CASE f # e
    <3>1. exch'[f] = exch[f] /\ Fresh(f) /\ Unused(f) /\ exch[f].new <= issued
      BY <1>4, <2>3 DEF Fresh, IInv, FreshUnused, TokensIssued
    <3>2. exch[f].new # old
      BY <1>2, <3>1 DEF Unused, Fresh
    <3>3. Current(exch[f].new)'
      BY <1>1, <1>2, <3>1, <3>2 DEF Unused, Current
    <3>4. \A g \in Exchanges : exch'[g].token # exch'[f].new
      BY <1>4, <3>1 DEF Unused, Fresh
    <3>5. \A g \in Exchanges \ {f} : Fresh(g)' => exch'[g].new # exch'[f].new
      BY <1>3, <1>4, <3>1 DEF Unused, Fresh
    <3> QED BY <3>1, <3>3, <3>4, <3>5 DEF Unused
  <2> QED BY <2>2, <2>3
<1>8. LogoutsGetNone'
  BY <1>4 DEF IInv, LogoutsGetNone
<1>9. DenialsLast'
  <2> SUFFICES ASSUME NEW f \in Exchanges, exch'[f].st = "answered",
                      FailedRefresh(f, exch'[f].status), active', Usable(exch[f].token)'
               PROVE  FALSE
    BY DEF DenialsLast
  <2>1. f # e /\ exch'[f] = exch[f] /\ exch[f].token <= issued
    BY <1>4 DEF IInv, TokensIssued, FailedRefresh
  <2>2. Usable(exch[f].token)
    BY <1>1, <1>3, <2>1 DEF Usable
  <2> QED BY <1>1, <2>1, <2>2 DEF IInv, DenialsLast
<1>10. CookieKeepsUp'
  <2> SUFFICES ASSUME jar # 0
               PROVE  CookieKeepsUp'
    BY DEF CookieKeepsUp
  <2>1. CASE jar = old
    BY <1>1, <1>4, <2>1 DEF CookieKeepsUp
  <2>2. CASE jar # old /\ Current(jar)
    BY <1>1, <1>2, <2>2 DEF CookieKeepsUp, Current
  <2>3. CASE ~ Current(jar)
    <3>1. PICK n \in Tokens :
             /\ origin[n] = jar
             /\ n \in lost \/ \E f \in Exchanges : exch[f].st = "answered" /\ exch[f].new = n
      BY <2>3 DEF IInv, CookieKeepsUp
    <3>2. n # new
      BY <1>1, <1>3, <3>1 DEF IInv, StoreInv
    <3> QED BY <1>1, <1>4, <3>1, <3>2 DEF CookieKeepsUp
  <2> QED BY <2>1, <2>2, <2>3
<1> QED BY <1>1, <1>5, <1>6, <1>7, <1>8, <1>9, <1>10 DEF IInv

LEMMA ServeInv ==
    ASSUME IInv, NEW e \in Exchanges, Serve(e)
    PROVE  IInv'
<1>1. PICK a \in Answers : Execute(e[2], exch[e].token, a[1], a[2]) /\ Answered(e, a[1], a[2])
  BY DEF Serve
<1>2. /\ exch[e].st = "sent" /\ UNCHANGED <<jar, late, lost, waiting, ui>>
      /\ a[1] \in {"ok", "denied", "failed"} /\ a[2] \in 0..MaxTokens
  BY DEF Serve, Answers
<1>3. e[2] \in Kinds /\ exch[e].token \in 0..MaxTokens
  BY ExchangeTypes DEF IInv
<1>4. \/ Given(e[2], exch[e].token, a[1], a[2])
      \/ NotGiven(e[2], exch[e].token, a[1], a[2])
  BY <1>1, <1>3, ExecuteSplits DEF IInv
<1>5. CASE Given(e[2], exch[e].token, a[1], a[2])
  BY <1>1, <1>2, <1>5, AnsweredRenewsInv DEF Given
<1>6. CASE NotGiven(e[2], exch[e].token, a[1], a[2])
  <2>1. lost' \subseteq Tokens /\ lost \subseteq lost'
    BY <1>2 DEF IInv, TypeOK
  <2>2. a[1] # "broken"
    BY <1>2
  <2> QED BY <1>1, <1>2, <1>6, <2>1, <2>2, AnsweredKeepsInv DEF NotGiven, FailedRefresh
<1> QED BY <1>4, <1>5, <1>6

\* A token that is given out and gets lost in the answer.
LEMMA BrokenRenewsInv ==
    ASSUME IInv, NEW e \in Exchanges, exch[e].st = "sent", e[2] # "logout",
           NEW s \in Sessions, NEW new \in Tokens,
           Renews(s, IF e[2] = "login" THEN 0 ELSE exch[e].token, new),
           Answered(e, "broken", 0), lost' = lost \cup {new},
           UNCHANGED <<jar, late, waiting, ui>>
    PROVE  IInv'
<1> DEFINE old == IF e[2] = "login" THEN 0 ELSE exch[e].token
<1>1. /\ StoreInv'
      /\ new \in Tokens /\ new = issued + 1 /\ issued' = issued + 1 /\ active' = active
      /\ rows'[s].token = new /\ \A q \in Sessions \ {s} : rows'[q] = rows[q]
      /\ origin'[new] = old /\ \A n \in Tokens \ {new} : origin'[n] = origin[n]
  BY RenewsStore DEF IInv
<1>2. /\ rows[s].token = old /\ old \in {0, exch[e].token}
      /\ e[2] = "refresh" => old = exch[e].token
  BY DEF Renews
<1> HIDE DEF old
<1>3. issued \in Nat /\ MaxTokens \in Nat /\ ~ (new <= issued) /\ new \in lost'
  BY <1>1, RefreshAssumption DEF IInv, StoreInv, StoreTypeOK, Tokens
<1>4. /\ exch' \in [Exchanges -> Exchange]
      /\ exch'[e].st = "answered" /\ exch'[e].status = "broken" /\ exch'[e].new = 0
      /\ exch'[e].token \in {0, exch[e].token}
      /\ FailedRefresh(e, "broken") => exch'[e].token = exch[e].token
      /\ \A f \in Exchanges \ {e} : exch'[f] = exch[f]
  BY AnsweredRecord, RefreshAssumption DEF IInv
<1>5. TypeOK'
  <2>1. \A c \in waiting' : exch'[<<c[1], "refresh">>].st # "none"
    BY <1>4, RefreshOfCall DEF IInv, TypeOK
  <2>2. \A f \in Exchanges :
           exch'[f].st = "answered" /\ f[2] # "logout"
               => (exch'[f].new # 0 <=> exch'[f].status = "ok")
    BY <1>4 DEF IInv, TypeOK
  <2> QED BY <1>1, <1>4, <2>1, <2>2 DEF IInv, TypeOK, StoreInv
<1>6. TokensIssued'
  <2>1. jar' <= issued' /\ \A r \in late' : r[2] <= issued'
    BY <1>1, <1>3 DEF IInv, TokensIssued, TypeOK
  <2>2. \A f \in Exchanges : exch'[f].token <= issued' /\ exch'[f].new <= issued'
    BY <1>1, <1>3, <1>4, ExchangeTypes DEF IInv, TokensIssued
  <2> QED BY <2>1, <2>2 DEF TokensIssued
<1>7. FreshUnused'
  <2> SUFFICES ASSUME NEW f \in Exchanges, Fresh(f)'
               PROVE  Unused(f)'
    BY DEF FreshUnused
  <2>1. f # e /\ exch'[f] = exch[f] /\ Fresh(f) /\ Unused(f)
    BY <1>4 DEF Fresh, IInv, FreshUnused
  <2>2. exch[f].new # old
    BY <1>2, <2>1 DEF Unused, Fresh
  <2>3. Current(exch[f].new)'
    BY <1>1, <1>2, <2>1, <2>2 DEF Unused, Current
  <2>4. \A g \in Exchanges : exch'[g].token # exch'[f].new
    BY <1>4, <2>1 DEF Unused, Fresh
  <2>5. \A g \in Exchanges \ {f} : Fresh(g)' => exch'[g].new # exch'[f].new
    BY <1>4, <2>1 DEF Unused, Fresh
  <2> QED BY <2>1, <2>3, <2>4, <2>5 DEF Unused
<1>8. LogoutsGetNone'
  BY <1>4 DEF IInv, LogoutsGetNone
<1>9. DenialsLast'
  <2> SUFFICES ASSUME NEW f \in Exchanges, exch'[f].st = "answered",
                      FailedRefresh(f, exch'[f].status), active', Usable(exch[f].token)'
               PROVE  FALSE
    BY DEF DenialsLast
  <2>1. CASE f = e
    <3>1. exch'[e].token = old
      BY <1>2, <1>4, <2>1 DEF FailedRefresh
    <3>2. origin'[new] # 0 /\ \E q \in Sessions : rows'[q].token = origin'[new]
      BY <1>1, <2>1, <3>1 DEF Usable
    <3> QED BY <1>1, <3>2 DEF StoreInv
  <2>2. CASE f # e
    <3>1. exch'[f] = exch[f] /\ exch[f].token <= issued
      BY <1>4, <2>2 DEF IInv, TokensIssued
    <3>2. Usable(exch[f].token)
      BY <1>1, <1>3, <3>1 DEF Usable
    <3> QED BY <1>1, <3>1, <3>2 DEF IInv, DenialsLast
  <2> QED BY <2>1, <2>2
<1>10. CookieKeepsUp'
  <2> SUFFICES ASSUME jar # 0
               PROVE  CookieKeepsUp'
    BY DEF CookieKeepsUp
  <2>1. CASE jar = old
    BY <1>1, <1>3, <2>1 DEF CookieKeepsUp
  <2>2. CASE jar # old /\ Current(jar)
    BY <1>1, <1>2, <2>2 DEF CookieKeepsUp, Current
  <2>3. CASE ~ Current(jar)
    <3>1. PICK n \in Tokens :
             /\ origin[n] = jar
             /\ n \in lost \/ \E f \in Exchanges : exch[f].st = "answered" /\ exch[f].new = n
      BY <2>3 DEF IInv, CookieKeepsUp
    <3>2. n # new
      BY <1>1, <1>3, <3>1 DEF IInv, StoreInv
    <3> QED BY <1>1, <1>4, <3>1, <3>2 DEF CookieKeepsUp
  <2> QED BY <2>1, <2>2, <2>3
<1> QED BY <1>1, <1>5, <1>6, <1>7, <1>8, <1>9, <1>10 DEF IInv

LEMMA ServeBrokenInv ==
    ASSUME IInv, NEW e \in Exchanges, ServeBroken(e)
    PROVE  IInv'
<1>1. /\ exch[e].st = "sent" /\ e[2] # "logout" /\ Answered(e, "broken", 0)
      /\ UNCHANGED <<jar, late, waiting, ui>>
  BY DEF ServeBroken
<1>2. PICK n \in Tokens : Execute(e[2], exch[e].token, "ok", n) /\ lost' = lost \cup {n}
  BY DEF ServeBroken
<1>3. e[2] \in Kinds /\ exch[e].token \in 0..MaxTokens
  BY ExchangeTypes DEF IInv
<1>4. Given(e[2], exch[e].token, "ok", n)
  BY <1>1, <1>2, <1>3, ExecuteSplits DEF IInv, NotGiven
<1> QED BY <1>1, <1>2, <1>4, BrokenRenewsInv DEF Given

LEMMA GiveUpInv ==
    ASSUME IInv, NEW e \in Exchanges, GiveUp(e)
    PROVE  IInv'
<1>1. Keeps
  BY StoreUnchangedKeeps DEF GiveUp, IInv, StoreInv
<1>2. /\ exch[e].st = "sent" /\ Answered(e, "failed", 0)
      /\ late' \subseteq late \cup {<<e[2], exch[e].token>>}
      /\ UNCHANGED <<jar, waiting, ui>> /\ lost' \subseteq Tokens /\ lost \subseteq lost'
  BY DEF GiveUp, IInv, TypeOK
<1> QED BY <1>1, <1>2, AnsweredKeepsInv DEF FailedRefresh

-----------------------------------------------------------------------------
(* Steps without an exchange *)

LEMMA KeepsInv ==
    ASSUME IInv, Keeps, exch' = exch, jar' \in {0, jar}, late' \subseteq late,
           lost \subseteq lost', lost' \subseteq Tokens, waiting' \subseteq waiting,
           ui' \in [Tabs -> {"in", "out"}]
    PROVE  IInv'
<1>1. TypeOK'
  BY KeepsStore, RefreshAssumption DEF IInv, TypeOK, StoreInv
<1>2. TokensIssued'
  BY RefreshAssumption DEF IInv, TokensIssued, StoreInv, StoreTypeOK, Keeps
<1>3. FreshUnused'
  BY DEF IInv, FreshUnused, Unused, Fresh, Current, Keeps
<1>4. LogoutsGetNone' /\ DenialsLast'
  BY DEF IInv, LogoutsGetNone, DenialsLast, Usable, Keeps
<1>5. CookieKeepsUp'
  BY DEF IInv, CookieKeepsUp, Current, Keeps
<1> QED BY <1>1, <1>2, <1>3, <1>4, <1>5, KeepsStore DEF IInv

\* A token that is given out for nobody.
LEMMA LostRenewsInv ==
    ASSUME IInv, NEW s \in Sessions, NEW r \in late, NEW new,
           Renews(s, IF r[1] = "login" THEN 0 ELSE r[2], new),
           late' = late \ {r}, lost' = lost \cup ({new} \ {0}),
           UNCHANGED <<jar, exch, waiting, ui>>
    PROVE  IInv'
<1> DEFINE old == IF r[1] = "login" THEN 0 ELSE r[2]
<1>1. /\ StoreInv'
      /\ new \in Tokens /\ new = issued + 1 /\ issued' = issued + 1 /\ active' = active
      /\ rows'[s].token = new /\ \A q \in Sessions \ {s} : rows'[q] = rows[q]
      /\ origin'[new] = old /\ \A n \in Tokens \ {new} : origin'[n] = origin[n]
  BY RenewsStore DEF IInv
<1>2. rows[s].token = old /\ old \in {0, r[2]}
  BY DEF Renews
<1> HIDE DEF old
<1>3. issued \in Nat /\ MaxTokens \in Nat /\ new # 0 /\ ~ (new <= issued) /\ new \in lost'
  BY <1>1, RefreshAssumption DEF IInv, StoreInv, StoreTypeOK, Tokens
<1>4. TypeOK'
  BY <1>1 DEF IInv, TypeOK, StoreInv
<1>5. TokensIssued'
  <2>1. jar' <= issued' /\ \A q \in late' : q[2] <= issued'
    BY <1>1, <1>3 DEF IInv, TokensIssued, TypeOK
  <2>2. \A f \in Exchanges : exch'[f].token <= issued' /\ exch'[f].new <= issued'
    BY <1>1, <1>3, ExchangeTypes DEF IInv, TokensIssued
  <2> QED BY <2>1, <2>2 DEF TokensIssued
<1>6. FreshUnused'
  <2> SUFFICES ASSUME NEW f \in Exchanges, Fresh(f)'
               PROVE  Unused(f)'
    BY DEF FreshUnused
  <2>1. Fresh(f) /\ Unused(f)
    BY DEF Fresh, IInv, FreshUnused
  <2>2. exch[f].new # old
    BY <1>2, <2>1 DEF Unused, Fresh
  <2>3. Current(exch[f].new)'
    BY <1>1, <1>2, <2>1, <2>2 DEF Unused, Current
  <2> QED BY <2>1, <2>3 DEF Unused, Fresh
<1>7. LogoutsGetNone'
  BY DEF IInv, LogoutsGetNone
<1>8. DenialsLast'
  <2> SUFFICES ASSUME NEW f \in Exchanges, exch'[f].st = "answered",
                      FailedRefresh(f, exch'[f].status), active', Usable(exch[f].token)'
               PROVE  FALSE
    BY DEF DenialsLast
  <2>1. Usable(exch[f].token)
    BY <1>1, <1>3 DEF Usable, IInv, TokensIssued
  <2> QED BY <1>1, <2>1 DEF IInv, DenialsLast
<1>9. CookieKeepsUp'
  <2> SUFFICES ASSUME jar # 0
               PROVE  CookieKeepsUp'
    BY DEF CookieKeepsUp
  <2>1. CASE jar = old
    BY <1>1, <1>3, <2>1 DEF CookieKeepsUp
  <2>2. CASE jar # old /\ Current(jar)
    BY <1>1, <1>2, <2>2 DEF CookieKeepsUp, Current
  <2>3. CASE ~ Current(jar)
    <3>1. PICK n \in Tokens :
             /\ origin[n] = jar
             /\ n \in lost \/ \E f \in Exchanges : exch[f].st = "answered" /\ exch[f].new = n
      BY <2>3 DEF IInv, CookieKeepsUp
    <3>2. n # new
      BY <1>1, <1>3, <3>1 DEF IInv, StoreInv
    <3> QED BY <1>1, <3>1, <3>2 DEF CookieKeepsUp
  <2> QED BY <2>1, <2>2, <2>3
<1> QED BY <1>1, <1>4, <1>5, <1>6, <1>7, <1>8, <1>9 DEF IInv

LEMMA ServeLateInv ==
    ASSUME IInv, ServeLate
    PROVE  IInv'
<1>1. PICK r \in late, a \in Answers :
         /\ Execute(r[1], r[2], a[1], a[2])
         /\ late' = late \ {r}
         /\ lost' = lost \cup ({a[2]} \ {0})
  BY DEF ServeLate
<1>2. UNCHANGED <<jar, exch, waiting, ui>> /\ a[2] \in 0..MaxTokens
  BY DEF ServeLate, Answers
<1>3. r[1] \in Kinds /\ r[2] \in 0..MaxTokens
  BY DEF IInv, TypeOK
<1>4. Given(r[1], r[2], a[1], a[2]) \/ NotGiven(r[1], r[2], a[1], a[2])
  BY <1>1, <1>3, ExecuteSplits DEF IInv
<1>5. CASE Given(r[1], r[2], a[1], a[2])
  BY <1>1, <1>2, <1>5, LostRenewsInv DEF Given
<1>6. CASE NotGiven(r[1], r[2], a[1], a[2])
  <2>1. lost' = lost /\ Keeps
    BY <1>1, <1>6 DEF NotGiven
  <2> QED BY <1>1, <1>2, <2>1, KeepsInv DEF IInv, TypeOK
<1> QED BY <1>4, <1>5, <1>6

LEMMA SessionExpiresInv ==
    ASSUME IInv, SessionExpires
    PROVE  IInv'
<1>1. PICK s \in Sessions : Expire(s) /\ jar' = IF jar = rows[s].token THEN 0 ELSE jar
  BY DEF SessionExpires
<1>2. Keeps
  BY <1>1 DEF Expire, Keeps, IInv, StoreInv, StoreTypeOK, Row
<1> QED BY <1>1, <1>2, KeepsInv DEF SessionExpires, IInv, TypeOK

LEMMA UserDeactivatedInv ==
    ASSUME IInv, UserDeactivated
    PROVE  IInv'
<1>1. Keeps
  BY DEF UserDeactivated, Deactivate, Keeps, IInv, StoreInv, StoreTypeOK
<1> QED BY <1>1, KeepsInv DEF UserDeactivated, IInv, TypeOK

LEMMA CallAnsweredInv ==
    ASSUME IInv, NEW c \in Calls, CallAnswered(c)
    PROVE  IInv'
<1>1. Keeps
  BY StoreUnchangedKeeps DEF CallAnswered, IInv, StoreInv
<1>2. ui' \in [Tabs -> {"in", "out"}]
  BY DEF CallAnswered, IInv, TypeOK
<1> QED BY <1>1, <1>2, KeepsInv DEF CallAnswered, IInv, TypeOK

-----------------------------------------------------------------------------
(* Exchanges begin and end *)

LEMMA SubmitInv ==
    ASSUME IInv, NEW e \in Exchanges, Submit(e)
    PROVE  IInv'
<1>1. waiting' \subseteq Calls /\ waiting' = waiting
  BY DEF Submit, IInv, TypeOK
<1> QED BY <1>1, SendInv DEF Submit

LEMMA CallDeniedInv ==
    ASSUME IInv, NEW c \in Calls, CallDenied(c)
    PROVE  IInv'
<1> DEFINE e == <<c[1], "refresh">>
<1>1. e \in Exchanges /\ waiting' = waiting \cup {c} /\ waiting' \subseteq Calls
  BY RefreshOfCall DEF CallDenied, IInv, TypeOK
<1>2. CASE exch[e].st = "none"
  BY <1>1, <1>2, SendInv DEF CallDenied
<1>3. CASE exch[e].st # "none"
  <2>1. UNCHANGED <<store, jar, exch, late, lost, ui>>
    BY <1>3 DEF CallDenied
  <2>2. TypeOK'
    BY <1>1, <1>3, <2>1, SameStore DEF IInv, TypeOK
  <2>3. TokensIssued' /\ LogoutsGetNone' /\ DenialsLast'
    BY <2>1 DEF IInv, TokensIssued, LogoutsGetNone, DenialsLast, Usable, store
  <2>4. FreshUnused' /\ CookieKeepsUp'
    BY <2>1 DEF IInv, FreshUnused, Unused, Fresh, CookieKeepsUp, Current, store
  <2> QED BY <2>1, <2>2, <2>3, <2>4, SameStore DEF IInv
<1> QED BY <1>2, <1>3

LEMMA GoOnTypes ==
    ASSUME TypeOK, NEW e \in Exchanges, NEW status, GoOn(e, status)
    PROVE  /\ waiting' \subseteq waiting /\ ui' \in [Tabs -> {"in", "out"}]
           /\ \A c \in waiting' : e # <<c[1], "refresh">>
<1>1. CASE e[2] = "refresh"
  <2>1. Resume(e[1], status)
    BY <1>1 DEF GoOn
  <2>2. waiting' = waiting \ Waiting(e[1])
    BY <2>1 DEF Resume
  <2>3. ui' \in [Tabs -> {"in", "out"}]
    BY <2>1, ExchangeTypes DEF Resume, TypeOK
  <2> QED BY <2>2, <2>3 DEF Waiting
<1>2. CASE e[2] # "refresh"
  <2>1. ui' \in [Tabs -> {"in", "out"}]
    BY <1>2, ExchangeTypes DEF GoOn, TypeOK
  <2> QED BY <1>2, <2>1 DEF GoOn
<1> QED BY <1>1, <1>2

LEMMA EndInv ==
    ASSUME IInv, NEW e \in Exchanges, exch[e].st = "answered",
           exch' = [exch EXCEPT ![e] = NoExchange], UNCHANGED <<store, late>>,
           NEW status, GoOn(e, status),
           jar' \in {0, jar} \/ (Fresh(e) /\ jar' = exch[e].new),
           lost \subseteq lost', lost' \subseteq Tokens,
           Fresh(e) /\ jar' = jar => exch[e].new \in lost'
    PROVE  IInv'
<1>1. NoExchange \in Exchange
  BY RefreshAssumption DEF NoExchange, Exchange
<1>2. exch'[e] = NoExchange /\ \A f \in Exchanges \ {e} : exch'[f] = exch[f]
  BY DEF IInv, TypeOK
<1>3. TypeOK'
  <2>1. \A c \in waiting' : exch'[<<c[1], "refresh">>].st # "none"
    BY <1>2, GoOnTypes, RefreshOfCall DEF IInv, TypeOK
  <2>2. \A f \in Exchanges :
           exch'[f].st = "answered" /\ f[2] # "logout"
               => (exch'[f].new # 0 <=> exch'[f].status = "ok")
    BY <1>2 DEF IInv, TypeOK, NoExchange
  <2>3. jar' \in 0..MaxTokens
    BY ExchangeTypes, RefreshAssumption DEF IInv, TypeOK
  <2>4. exch' \in [Exchanges -> Exchange]
    BY <1>1 DEF IInv, TypeOK
  <2> QED BY <2>1, <2>2, <2>3, <2>4, GoOnTypes, SameStore DEF IInv, TypeOK
<1>4. TokensIssued'
  BY <1>2, RefreshAssumption DEF IInv, TokensIssued, StoreInv, StoreTypeOK, store, NoExchange
<1>5. FreshUnused'
  <2> SUFFICES ASSUME NEW f \in Exchanges, Fresh(f)'
               PROVE  Unused(f)'
    BY DEF FreshUnused
  <2>1. f # e /\ exch'[f] = exch[f] /\ Fresh(f) /\ Unused(f)
    BY <1>2 DEF Fresh, IInv, FreshUnused, NoExchange
  <2>2. jar' # exch'[f].new
    BY <2>1 DEF Unused, Fresh
  <2>3. \A g \in Exchanges : exch'[g].token # exch'[f].new
    BY <1>2, <2>1 DEF Unused, Fresh, NoExchange
  <2>4. \A g \in Exchanges \ {f} : Fresh(g)' => exch'[g].new # exch'[f].new
    BY <1>2, <2>1 DEF Unused, Fresh, NoExchange
  <2> QED BY <2>1, <2>2, <2>3, <2>4 DEF Unused, Current, store
<1>6. LogoutsGetNone' /\ DenialsLast'
  BY <1>2 DEF IInv, LogoutsGetNone, DenialsLast, Usable, store, NoExchange
<1>7. CookieKeepsUp'
  <2>1. CASE jar' = jar /\ jar # 0 /\ ~ Current(jar)
    <3>1. PICK n \in Tokens :
             /\ origin[n] = jar
             /\ n \in lost \/ \E f \in Exchanges : exch[f].st = "answered" /\ exch[f].new = n
      BY <2>1 DEF IInv, CookieKeepsUp
    <3>2. n # 0
      BY DEF Tokens
    <3>3. n \in lost' \/ \E f \in Exchanges : exch'[f].st = "answered" /\ exch'[f].new = n
      BY <1>2, <2>1, <3>1, <3>2 DEF Fresh
    <3> QED BY <2>1, <3>1, <3>3 DEF CookieKeepsUp, store
  <2>2. CASE jar' = jar /\ Current(jar)
    BY <2>2 DEF CookieKeepsUp, Current, store
  <2>3. CASE Fresh(e) /\ jar' = exch[e].new
    <3>1. Current(exch[e].new)
      BY <2>3 DEF IInv, FreshUnused, Unused
    <3> QED BY <2>3, <3>1 DEF CookieKeepsUp, Current, store
  <2>4. CASE jar' = 0
    BY <2>4 DEF CookieKeepsUp
  <2> QED BY <2>1, <2>2, <2>3, <2>4
<1> QED BY <1>3, <1>4, <1>5, <1>6, <1>7, SameStore DEF IInv

LEMMA DeliverInv ==
    ASSUME IInv, NEW e \in Exchanges, Deliver(e)
    PROVE  IInv'
<1>1. e[2] # "logout" => (exch[e].new # 0 <=> exch[e].status = "ok")
  BY DEF Deliver, IInv, TypeOK
<1>2. jar' \in {0, jar} \/ (Fresh(e) /\ jar' = exch[e].new)
  BY <1>1, ExchangeTypes DEF Deliver, Cookie, Fresh, IInv, Kinds
<1>3. Fresh(e) => jar' = exch[e].new /\ jar # exch[e].new
  BY <1>1, ExchangeTypes DEF Deliver, Cookie, FailedRefresh, Fresh, IInv, LogoutsGetNone,
                             FreshUnused, Unused, Kinds
<1>4. lost \subseteq lost' /\ lost' \subseteq Tokens
  BY DEF Deliver, IInv, TypeOK
<1> QED BY <1>2, <1>3, <1>4, EndInv DEF Deliver

LEMMA LoseInv ==
    ASSUME IInv, NEW e \in Exchanges, Lose(e)
    PROVE  IInv'
<1>1. exch[e].new \in 0..MaxTokens
  BY ExchangeTypes DEF IInv
<1>2. /\ lost \subseteq lost' /\ lost' \subseteq Tokens
      /\ Fresh(e) => exch[e].new \in lost'
  <2>1. exch[e].new # 0 => exch[e].new \in Tokens
    BY <1>1, RefreshAssumption DEF Tokens
  <2>2. lost' = lost \cup ({exch[e].new} \ {0}) /\ lost \subseteq Tokens
    BY DEF Lose, IInv, TypeOK
  <2> QED BY <2>1, <2>2 DEF Fresh
<1> QED BY <1>2, EndInv DEF Lose

-----------------------------------------------------------------------------
(* Theorems *)

LEMMA StepInv ==
    ASSUME IInv, [Next]_vars
    PROVE  IInv'
<1>1. ASSUME NEW t \in Tabs, StartLogin(t) \/ StartLogout(t) PROVE IInv'
  BY <1>1, SubmitInv DEF StartLogin, StartLogout, Exchanges, Kinds
<1>2. ASSUME NEW c \in Calls, CallAnswered(c) \/ CallDenied(c) PROVE IInv'
  BY <1>2, CallAnsweredInv, CallDeniedInv
<1>3. ASSUME NEW e \in Exchanges, Serve(e) \/ ServeBroken(e) \/ GiveUp(e) \/ Deliver(e) \/ Lose(e) PROVE IInv'
  BY <1>3, ServeInv, ServeBrokenInv, GiveUpInv, DeliverInv, LoseInv
<1>4. CASE ServeLate \/ SessionExpires \/ UserDeactivated
  BY <1>4, ServeLateInv, SessionExpiresInv, UserDeactivatedInv
<1>5. CASE UNCHANGED vars
  <2>1. Keeps
    BY <1>5, StoreUnchangedKeeps DEF vars, IInv, StoreInv
  <2> QED BY <1>5, <2>1, KeepsInv DEF vars, IInv, TypeOK
<1> QED BY <1>1, <1>2, <1>3, <1>4, <1>5 DEF Next

LEMMA Invariance == Spec => []IInv
<1>1. IInv /\ [Next]_vars => IInv'
  BY StepInv
<1> QED BY InitInv, <1>1, PTL DEF Spec

\* Tokens, cookies, exchanges and calls keep their types (RefreshSessions, BrowserSession).
THEOREM TypeCorrect == Spec => []TypeOK
<1>1. IInv => TypeOK
  BY DEF IInv
<1> QED BY Invariance, <1>1, PTL

\* No number of tabs, lost answers and late requests makes the backend exchange
\* one token twice (rotate_refresh_session).
THEOREM TokensAreExchangedOnce == Spec => []ExchangedOnce
<1>1. IInv => ExchangedOnce
  BY DEF IInv, StoreInv
<1> QED BY Invariance, <1>1, PTL

\* The refresh cookie is never more than one exchange behind its session, and
\* only while the token it lacks is under way or was lost (setSessionCookies).
THEOREM CookieIsLast == Spec => []CookieKeepsUp
<1>1. IInv => CookieKeepsUp
  BY DEF IInv
<1> QED BY Invariance, <1>1, PTL

LEMMA StepKeepsCookie ==
    ASSUME IInv, [Next]_vars, Usable(jar), active, jar' = 0, rows' = rows
    PROVE  \E e \in Exchanges :
               /\ exch[e].st = "answered" /\ exch'[e].st = "none"
               /\ e[2] = "logout"
                  \/ (FailedRefresh(e, exch[e].status) /\ exch[e].token # jar)
<1>1. jar # 0 /\ jar' # jar
  BY DEF Usable
<1>2. ~ SessionExpires
  <2> SUFFICES ASSUME NEW s \in Sessions, Expire(s)
               PROVE  FALSE
    BY DEF SessionExpires
  <2> QED BY DEF Expire, IInv, StoreInv, StoreTypeOK, Row
<1>3. PICK e \in Exchanges : Deliver(e)
  BY <1>1, <1>2 DEF Next, vars, StartLogin, StartLogout, Submit, CallAnswered, CallDenied,
                    Serve, ServeBroken, GiveUp, Lose, ServeLate, UserDeactivated
<1>4. exch[e].st = "answered" /\ exch'[e].st = "none" /\ Cookie(e) = 0
  BY <1>3 DEF Deliver, NoExchange, IInv, TypeOK
<1>5. e[2] = "logout" \/ FailedRefresh(e, exch[e].status)
  BY <1>1, <1>3, <1>4 DEF Cookie, Deliver, IInv, TypeOK
<1>6. FailedRefresh(e, exch[e].status) => exch[e].token # jar
  BY <1>4 DEF IInv, DenialsLast
<1> QED BY <1>4, <1>5, <1>6

\* A cookie that still works is deleted in two ways only: by a logout, and by a
\* refresh that was denied or broke and had not sent this cookie (failedRefresh).
THEOREM UsableCookieStays == Spec => UsableCookieKept
<1>1. IInv /\ [Next]_vars =>
        [(Usable(jar) /\ active /\ jar' = 0 /\ rows' = rows)
           => \E e \in Exchanges :
                  /\ exch[e].st = "answered" /\ exch'[e].st = "none"
                  /\ e[2] = "logout"
                     \/ (FailedRefresh(e, exch[e].status) /\ exch[e].token # jar)]_vars
  BY StepKeepsCookie
<1> QED BY Invariance, <1>1, PTL DEF Spec, UsableCookieKept

=============================================================================

--------------------------- MODULE RefreshSessions ---------------------------
(***************************************************************************)
(* The refresh sessions of one user in the backend:                        *)
(* core/identity/session_service.py and the /auth routes, one transaction  *)
(* for a request.                                                          *)
(*                                                                         *)
(* A token is the number of its issue, 0 is no token.  The row of a        *)
(* session keeps the hash of its last token only.  FOR UPDATE names no     *)
(* table, so it is about the session, its user and their person alike:     *)
(* what a request reads cannot change before its commit, and a request     *)
(* that waits for the row looks for the hash again.  PostgreSQL refuses    *)
(* this statement, because joinedload writes LEFT OUTER JOIN; the database *)
(* of the tests accepts it.  Both are modelled.                            *)
(***************************************************************************)
EXTENDS Naturals, FiniteSets

CONSTANTS
    Sessions,   \* rows of user_sessions that can be created
    MaxTokens   \* bound on the refresh tokens that are issued

VARIABLES
    rows,       \* user_sessions
    active,     \* the user and the person are active
    issued,     \* the last token issued
    origin,     \* the token each token was given in exchange for, 0: a login
    refuses     \* the database refuses FOR UPDATE over an outer join

store == <<rows, active, issued, origin, refuses>>

ASSUME RefreshAssumption == MaxTokens \in Nat /\ IsFiniteSet(Sessions)

Tokens == 1..MaxTokens

\* A row is open until it is revoked or its absolute lifetime ends.
Row == [token : 0..MaxTokens, open : BOOLEAN]

NoRow == [token |-> 0, open |-> TRUE]

StoreTypeOK ==
    /\ rows \in [Sessions -> Row]
    /\ active \in BOOLEAN /\ refuses \in BOOLEAN
    /\ issued \in 0..MaxTokens
    /\ origin \in [Tokens -> 0..MaxTokens]

StoreInit ==
    /\ rows = [s \in Sessions |-> NoRow]
    /\ active = TRUE
    /\ issued = 0
    /\ origin = [n \in Tokens |-> 0]
    /\ refuses \in BOOLEAN

Current(token) == token # 0 /\ \E s \in Sessions : rows[s].token = token

Usable(token) ==
    token # 0
    /\ \E s \in Sessions :
           rows[s].token = token /\ rows[s].open

\* A new token for the session s, in exchange for old.
Issue(s, old) ==
    /\ issued < MaxTokens
    /\ issued' = issued + 1
    /\ rows' = [rows EXCEPT ![s].token = issued + 1]
    /\ origin' = [origin EXCEPT ![issued + 1] = old]
    /\ UNCHANGED <<active, refuses>>

-----------------------------------------------------------------------------
(* Each request with the status of its answer and the token in it *)

\* authenticate_user and create_refresh_session
Login(status, new) ==
    \/ /\ active
       /\ \E s \in Sessions : rows[s] = NoRow /\ Issue(s, 0)
       /\ status = "ok" /\ new = issued'
    \/ /\ ~ active
       /\ status = "denied" /\ new = 0 /\ UNCHANGED store

Refused(status, new) ==
    refuses /\ status = "failed" /\ new = 0 /\ UNCHANGED store

\* Mutant of Rotate: the row keeps the hash of the old token.
RotateKeepsHash(token, status, new) ==
    /\ ~ refuses /\ active /\ Usable(token) /\ issued < MaxTokens
    /\ issued' = issued + 1
    /\ origin' = [origin EXCEPT ![issued + 1] = token]
    /\ status = "ok" /\ new = issued + 1
    /\ UNCHANGED <<rows, active, refuses>>

\* rotate_refresh_session
Rotate(token, status, new) ==
    \/ Refused(status, new)
    \/ /\ ~ refuses /\ active /\ Usable(token)
       /\ \E s \in Sessions : rows[s].token = token /\ Issue(s, token)
       /\ status = "ok" /\ new = issued'
    \/ /\ ~ refuses /\ ~ (active /\ Usable(token))
       /\ status = "denied" /\ new = 0 /\ UNCHANGED store

\* revoke_refresh_session: a token that is not current revokes nothing
Revoke(token, status, new) ==
    \/ Refused(status, new)
    \/ /\ ~ refuses
       /\ rows' = [s \in Sessions |->
                      [rows[s] EXCEPT !.open =
                          @ /\ ~ (token # 0 /\ rows[s].token = token)]]
       /\ status = "ok" /\ new = 0
       /\ UNCHANGED <<active, issued, origin, refuses>>

\* The absolute lifetime of a session ends.
Expire(s) ==
    /\ rows[s].token # 0 /\ rows[s].open
    /\ rows' = [rows EXCEPT ![s].open = FALSE]
    /\ UNCHANGED <<active, issued, origin, refuses>>

\* change_user_status or change_person_status of an administrator
Deactivate ==
    /\ active
    /\ active' = FALSE
    /\ UNCHANGED <<rows, issued, origin, refuses>>

=============================================================================

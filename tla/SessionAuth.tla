----------------------------- MODULE SessionAuth -----------------------------
(***************************************************************************)
(* Sessions of named users: a login checks the password and stores the     *)
(* session in two steps, an administrator's change of a user is committed  *)
(* before the user's sessions are swept in a second transaction, sessions  *)
(* are revoked and expire, and the server may stop between any two steps.  *)
(* Every request looks its session and the user up anew.                   *)
(***************************************************************************)
EXTENDS Naturals

CONSTANTS
  Accounts,     \* user accounts
  Tokens,       \* rows of auth_sessions, before and after they exist
  Logins,       \* login requests
  Updates,      \* administrators' requests changing a user
  NoUser,
  MaxEra        \* bound: lockouts per user

ASSUME SessionAssumption == NoUser \notin Accounts /\ MaxEra \in Nat

VARIABLES
  user,         \* per user: is_active and the number of lockouts so far
  token,        \* per session row
  login,        \* per login: what it verified
  update,       \* per change: the user whose sessions are to be swept
  torn          \* history: users whose change was cut off before the sweep

sessionVars == <<user, token, login, update, torn>>

\* A lockout is a change of the password or a deactivation.  What was verified
\* carries the user's era; of an old era, late says that a lockout was
\* committed while the login was under way.
NoToken == [user |-> NoUser, era |-> 0, late |-> FALSE, expired |-> FALSE]
NoLogin == [user |-> NoUser, era |-> 0, late |-> FALSE]

SessionInit ==
  /\ user = [u \in Accounts |-> [active |-> TRUE, era |-> 0]]
  /\ token = [t \in Tokens |-> NoToken]
  /\ login = [l \in Logins |-> NoLogin]
  /\ update = [h \in Updates |-> NoUser]
  /\ torn = {}

\* The password is compared with the stored one, which is the current one.
Verify(l, u) ==
  /\ login[l].user = NoUser
  /\ user[u].active
  /\ login' = [login EXCEPT ![l] = [user |-> u, era |-> user[u].era, late |-> FALSE]]
  /\ UNCHANGED <<user, token, update, torn>>

\* The user is not looked at again.
StoreSession(l, t) ==
  /\ login[l].user # NoUser
  /\ token[t] = NoToken
  /\ token' = [token EXCEPT ![t] = [user |-> login[l].user, era |-> login[l].era,
                                    late |-> login[l].late, expired |-> FALSE]]
  /\ login' = [login EXCEPT ![l] = NoLogin]
  /\ UNCHANGED <<user, update, torn>>

\* Logging out, and an administrator revoking one session.
DeleteSession(t) ==
  /\ token[t] # NoToken
  /\ token' = [token EXCEPT ![t] = NoToken]
  /\ UNCHANGED <<user, login, update, torn>>

\* Twelve hours after its login; the row stays.
Expire(t) ==
  /\ token[t] # NoToken
  /\ token' = [token EXCEPT ![t].expired = TRUE]
  /\ UNCHANGED <<user, login, update, torn>>

\* The first commit of a change.  One that neither sets a password nor
\* deactivates (a new role, a reactivation) is done with it.
CommitUpdate(h, u, active, password) ==
  LET lockout == password \/ ~ active
  IN  /\ update[h] = NoUser
      /\ lockout => user[u].era < MaxEra
      /\ user' = [user EXCEPT ![u] =
           [active |-> active, era |-> IF lockout THEN @.era + 1 ELSE @.era]]
      /\ login' = [l \in Logins |-> IF lockout /\ login[l].user = u
                                    THEN [login[l] EXCEPT !.late = TRUE] ELSE login[l]]
      /\ update' = [update EXCEPT ![h] = IF lockout THEN u ELSE NoUser]
      /\ UNCHANGED <<token, torn>>

\* Mutant: only the newest session is deleted.
SweptOnce(u) == {CHOOSE t \in Tokens : token[t].user = u \/ \A s \in Tokens : token[s].user # u}

Swept(u) == {t \in Tokens : token[t].user = u}

\* The second commit, of the sessions there are now.
Sweep(h) ==
  /\ update[h] # NoUser
  /\ token' = [t \in Tokens |-> IF t \in Swept(update[h]) THEN NoToken ELSE token[t]]
  /\ update' = [update EXCEPT ![h] = NoUser]
  /\ torn' = torn \ {update[h]}
  /\ UNCHANGED <<user, login>>

\* The server stops and starts again: what was not committed is gone.
Stop ==
  /\ login' = [l \in Logins |-> NoLogin]
  /\ torn' = torn \cup ({update[h] : h \in Updates} \ {NoUser})
  /\ update' = [h \in Updates |-> NoUser]
  /\ UNCHANGED <<user, token>>

SessionNext ==
  \/ \E l \in Logins : \/ \E u \in Accounts : Verify(l, u)
                       \/ \E t \in Tokens : StoreSession(l, t)
  \/ \E t \in Tokens : DeleteSession(t) \/ Expire(t)
  \/ \E h \in Updates : \/ \E u \in Accounts, a, p \in BOOLEAN : CommitUpdate(h, u, a, p)
                        \/ Sweep(h)
  \/ Stop

SessionSpec == SessionInit /\ [][SessionNext]_sessionVars

-----------------------------------------------------------------------------
(* Properties *)

\* session_principal
Authenticates(t) ==
  token[t].user # NoUser /\ ~ token[t].expired /\ user[token[t].user].active

SessionTypeOK ==
  /\ user \in [Accounts -> [active : BOOLEAN, era : 0..MaxEra]]
  /\ token \in [Tokens -> [user : Accounts \cup {NoUser}, era : 0..MaxEra,
                           late : BOOLEAN, expired : BOOLEAN]]
  /\ login \in [Logins -> [user : Accounts \cup {NoUser}, era : 0..MaxEra, late : BOOLEAN]]
  /\ update \in [Updates -> Accounts \cup {NoUser}]
  /\ torn \subseteq Accounts

\* A new password or a deactivation ends the sessions opened before it, also
\* after the user is activated again.  Between the two commits they last, and
\* for good only in two cases: the login was under way when the change was
\* committed, or the server stopped before the sweep and nobody repeated the
\* change (auth.py:164-181, identity/auth.py:49-70).
LockoutHolds ==
  \A t \in Tokens :
    Authenticates(t) /\ token[t].era < user[token[t].user].era =>
      \/ \E h \in Updates : update[h] = token[t].user
      \/ token[t].late
      \/ token[t].user \in torn

\* A lockout is still to reach the sessions of u, or was cut off.
Pending(u) == u \in torn \/ \E h \in Updates : update[h] = u

\* Every session or verified login of an old era is a known one, whether it
\* authenticates or not.
OldIsKnown ==
  /\ \A t \in Tokens :
       token[t].user # NoUser /\ token[t].era < user[token[t].user].era =>
         token[t].late \/ Pending(token[t].user)
  /\ \A l \in Logins :
       login[l].user # NoUser /\ login[l].era < user[login[l].user].era => login[l].late

SessionInv == SessionTypeOK /\ OldIsKnown

=============================================================================

-------------------------- MODULE SecurityManager --------------------------
(***************************************************************************)
(* Accounts, tokens and the audit log (engine/security.py).                *)
(*                                                                         *)
(* The locks of this file are never held across a suspension, so that each *)
(* call is one step for the others; the process may crash in any, also     *)
(* while it writes the users' file, and starts again from that file.  That *)
(* write may raise as well: the change is then in memory only, and the     *)
(* rest of the call does not happen.  Tokens and the audit log's buffer    *)
(* are only in memory.  shutdown() suspends once, while it waits for the   *)
(* cancelled _flush_loop(), and may be called again after it raised.       *)
(*                                                                         *)
(* Passwords are right or wrong, a refresh token and the access token made *)
(* with it have one number and two names, and entries of the log are       *)
(* counted.  Left out: what permissions, addresses and signatures are      *)
(* compared with, API keys, and a logger that is started again after       *)
(* shutdown().                                                             *)
(***************************************************************************)
EXTENDS Integers, FiniteSets, FiniteSetsExt

CONSTANTS
    Users,          \* accounts that may be created
    LockAfter,      \* failed logins that lock an account (five)
    MaxTokens,      \* bound: pairs of tokens issued by a process
    MaxEntries      \* bound: entries of the audit log in the buffer

Tokens == 1..MaxTokens
Kinds == {"access", "refresh"}

VARIABLES
    users,          \* SecurityManager._users: failed_login_attempts and locked_until of each
    usersFile,      \* what the users' file holds; nothing if it is broken
    unsaved,        \* accounts whose attempts were changed since the last save that succeeded
    failures,       \* failed logins since the last success, as the client counts them
    locked,         \* accounts that are to be locked, by that count
    tokens,         \* _refresh_tokens: user, revoked, and how often it was exchanged
    revokedTokens,  \* _revoked_tokens: the names of tokens of either kind
    buffer,         \* entries AuditLogger.log() has taken
    written,        \* entries in the log's file since the process began
    lost,           \* entries lost by a flush that could not write
    logged,         \* entries logged since the process began
    flusher,        \* _flush_task: none, not begun, in its loop, ended, or ended by a flush
    closing         \* what has become of shutdown()

accountVars == <<users, usersFile, unsaved, failures, locked>>
tokenVars == <<tokens, revokedTokens>>
entryVars == <<buffer, written, lost, logged>>
logVars == <<entryVars, flusher, closing>>
vars == <<accountVars, tokenVars, logVars>>

Account == [attempts : 0..LockAfter, locked : BOOLEAN, known : BOOLEAN]
Unknown == [attempts |-> 0, locked |-> FALSE, known |-> FALSE]

TypeOK ==
    /\ users \in [Users -> Account] /\ usersFile \in [Users -> Account]
    /\ failures \in [Users -> 0..LockAfter] /\ locked \subseteq Users /\ unsaved \subseteq Users
    /\ DOMAIN tokens \subseteq Tokens
    /\ \A t \in DOMAIN tokens : tokens[t] \in [user : Users, revoked : BOOLEAN, exchanged : 0..2]
    /\ revokedTokens \subseteq Kinds \X Tokens
    /\ {buffer, written, lost, logged} \subseteq 0..MaxEntries
    /\ flusher \in {"off", "new", "on", "ended", "failed"}
    /\ closing \in {"no", "cancelled", "returned", "raised"}

Init ==
    /\ users = [u \in Users |-> Unknown] /\ usersFile = users
    /\ failures = [u \in Users |-> 0] /\ locked = {} /\ unsaved = {}
    /\ tokens = <<>> /\ revokedTokens = {}
    /\ buffer = 0 /\ written = 0 /\ lost = 0 /\ logged = 0
    /\ flusher = "off" /\ closing = "no"

\* AuditLogger.log()
Log == /\ logged < MaxEntries /\ logged' = logged + 1 /\ buffer' = buffer + 1
       /\ UNCHANGED <<written, lost, flusher, closing>>

-----------------------------------------------------------------------------
(* Accounts.                                                               *)

\* _save_users() writes all of them, or raises, when its file is as it was or cut off.  The
\* accounts of who were changed before.
SaveUsers == usersFile' = users' /\ unsaved' = {}
SaveRaises(who) == /\ usersFile' \in {usersFile, [u \in Users |-> Unknown]}
                   /\ unsaved' = unsaved \union who

CreateUser(u) ==
    /\ ~users[u].known
    /\ users' = [users EXCEPT ![u] = [Unknown EXCEPT !.known = TRUE]]
    /\ failures' = [failures EXCEPT ![u] = 0] /\ locked' = locked \ {u}
    /\ (SaveUsers /\ Log) \/ (SaveRaises({u}) /\ UNCHANGED logVars)
    /\ UNCHANGED tokenVars

\* authenticate() of an account that is locked: refused whatever the password is.
Refuse(u) == /\ users[u].known /\ users[u].locked
             /\ Log /\ UNCHANGED <<accountVars, tokenVars>>

Failed(account) ==
    LET n == Min({account.attempts + 1, LockAfter})
    IN  [account EXCEPT !.attempts = n, !.locked = n >= LockAfter]

\* As LoginFails below, where only a login that succeeds is saved.
LoginFailsUnsaved(u) ==
    /\ users[u].known /\ ~users[u].locked
    /\ users' = [users EXCEPT ![u] = Failed(@)] /\ UNCHANGED <<usersFile, unsaved>>
    /\ failures' = [failures EXCEPT ![u] = Min({@ + 1, LockAfter})]
    /\ locked' = IF failures'[u] = LockAfter THEN locked \union {u} ELSE locked
    /\ Log /\ UNCHANGED tokenVars

LoginFails(u) ==
    /\ users[u].known /\ ~users[u].locked
    /\ users' = [users EXCEPT ![u] = Failed(@)]
    /\ failures' = [failures EXCEPT ![u] = Min({@ + 1, LockAfter})]
    /\ locked' = IF failures'[u] = LockAfter THEN locked \union {u} ELSE locked
    /\ (SaveUsers /\ Log) \/ (SaveRaises({u}) /\ UNCHANGED logVars)
    /\ UNCHANGED tokenVars

\* The next pair of tokens, for a user.
Issued(u) == [t \in DOMAIN tokens \union {Cardinality(DOMAIN tokens) + 1} |->
                IF t \in DOMAIN tokens THEN tokens[t]
                ELSE [user |-> u, revoked |-> FALSE, exchanged |-> 0]]

\* A login, whose caller then makes the tokens.
Login(u) ==
    /\ users[u].known /\ ~users[u].locked
    /\ users' = [users EXCEPT ![u] = [Unknown EXCEPT !.known = TRUE]]
    /\ failures' = [failures EXCEPT ![u] = 0]
    /\ \/ /\ SaveUsers /\ Log
          /\ Cardinality(DOMAIN tokens) < MaxTokens /\ tokens' = Issued(u)
       \/ SaveRaises({u}) /\ UNCHANGED <<tokens, logVars>>
    /\ UNCHANGED <<locked, revokedTokens>>

\* The hour is over: locked_until has passed, the attempts stay.
Unlock(u) ==
    /\ users[u].locked
    /\ users' = [users EXCEPT ![u].locked = FALSE]
    /\ usersFile' = [usersFile EXCEPT ![u].locked = FALSE]
    /\ locked' = locked \ {u}
    /\ UNCHANGED <<unsaved, failures, tokenVars, logVars>>

-----------------------------------------------------------------------------
(* Tokens.                                                                 *)

OfUser(u) == {t \in DOMAIN tokens : tokens[t].user = u}

\* change_password() with the right old password: revoke_all_user_tokens() names the refresh
\* tokens only.
ChangePassword(u) ==
    /\ users[u].known /\ UNCHANGED <<users, failures, locked>>
    /\ \/ /\ SaveUsers /\ Log
          /\ tokens' = [t \in DOMAIN tokens |-> [tokens[t] EXCEPT !.revoked = @ \/ t \in OfUser(u)]]
          /\ revokedTokens' = revokedTokens \union ({"refresh"} \X OfUser(u))
       \/ SaveRaises({}) /\ UNCHANGED <<tokenVars, logVars>>

\* As Refresh below, adding the old tokens to _revoked_tokens only.
RefreshUnrotated(t) ==
    /\ ~tokens[t].revoked /\ Cardinality(DOMAIN tokens) < MaxTokens
    /\ tokens' = [Issued(tokens[t].user) EXCEPT ![t].exchanged = @ + 1]
    /\ revokedTokens' = revokedTokens \union (Kinds \X {t})
    /\ UNCHANGED <<accountVars, logVars>>

\* refresh_access_token(): the access token goes with the refresh token.
Refresh(t) ==
    /\ ~tokens[t].revoked /\ Cardinality(DOMAIN tokens) < MaxTokens
    /\ tokens' = [Issued(tokens[t].user) EXCEPT ![t].revoked = TRUE, ![t].exchanged = @ + 1]
    /\ revokedTokens' = revokedTokens \union (Kinds \X {t})
    /\ UNCHANGED <<accountVars, logVars>>

\* revoke_token() of one name: an access token's leaves the refresh token as it is.
Revoke(kind, t) ==
    /\ revokedTokens' = revokedTokens \union {<<kind, t>>}
    /\ tokens' = [s \in DOMAIN tokens |->
                    [tokens[s] EXCEPT !.revoked = @ \/ (kind = "refresh" /\ s = t)]]
    /\ UNCHANGED <<accountVars, logVars>>

-----------------------------------------------------------------------------
(* The audit log.                                                          *)

\* Calls that do nothing but log: check_permission() that refuses, revoke_api_key().
Denied == Log /\ UNCHANGED <<accountVars, tokenVars>>

\* start() makes the task, which begins when it is its turn.
Start == /\ flusher = "off" /\ closing = "no" /\ flusher' = "new"
         /\ UNCHANGED <<accountVars, tokenVars, entryVars, closing>>
LoopBegins == /\ flusher = "new" /\ flusher' = "on"
              /\ UNCHANGED <<accountVars, tokenVars, entryVars, closing>>

\* As Flush below, where the buffer keeps what it has given.
FlushCopying == /\ written' = written + buffer /\ UNCHANGED <<buffer, lost, logged>>

\* _flush() takes the buffer and writes it; a write that fails loses what it had not written.
Flush == /\ buffer' = 0 /\ written' = written + buffer /\ UNCHANGED <<lost, logged>>
FlushFails == /\ buffer > 0 /\ buffer' = 0 /\ UNCHANGED logged
              /\ \E n \in 0..buffer : written' = written + n /\ lost' = lost + (buffer - n)

\* A round of _flush_loop(), which nothing but a cancellation is caught in.
FlushRound ==
    /\ flusher = "on"
    /\ (Flush /\ flusher' = "on") \/ (FlushFails /\ flusher' = "failed")
    /\ UNCHANGED <<accountVars, tokenVars, closing>>

\* shutdown() up to its await: the cancelled loop flushes, unless it has not begun.  If that
\* flush fails its exception ends the loop, and comes out of this shutdown() and of every
\* later one.
ShutdownCancels ==
    /\ \/ /\ flusher = "on" /\ Flush
          /\ flusher' = "ended" /\ closing' = "cancelled"
       \/ /\ flusher = "on" /\ FlushFails
          /\ flusher' = "failed" /\ closing' = "raised"
       \/ /\ flusher = "new" /\ UNCHANGED entryVars
          /\ flusher' = "ended" /\ closing' = "cancelled"
       \/ /\ flusher = "failed" /\ UNCHANGED <<entryVars, flusher>>
          /\ closing' = "raised"
    /\ UNCHANGED <<accountVars, tokenVars>>

\* As ShutdownFlushes below, trusting the loop to have flushed.
ShutdownUnflushed ==
    /\ flusher \in {"off", "ended"} /\ closing' = "returned"
    /\ UNCHANGED <<accountVars, tokenVars, entryVars, flusher>>

\* The rest of shutdown(), its own flush, or all of it when there is no loop to wait for: none
\* was started, or an earlier shutdown() has ended it.
ShutdownFlushes ==
    /\ flusher \in {"off", "ended"}
    /\ (Flush /\ closing' = "returned") \/ (FlushFails /\ closing' = "raised")
    /\ UNCHANGED <<accountVars, tokenVars, flusher>>

-----------------------------------------------------------------------------
\* A crash, and the start after it.  Of attempts that no save has written the client knows
\* nothing any more.
Crash ==
    /\ usersFile' \in {usersFile, [u \in Users |-> Unknown]}
    /\ users' = usersFile' /\ unsaved' = {}
    /\ locked' = {u \in locked \ unsaved : users'[u].known}
    /\ failures' = [u \in Users |-> IF users'[u].known /\ u \notin unsaved THEN failures[u]
                                    ELSE users'[u].attempts]
    /\ tokens' = <<>> /\ revokedTokens' = {}
    /\ buffer' = 0 /\ written' = 0 /\ lost' = 0 /\ logged' = 0
    /\ flusher' = "off" /\ closing' = "no"

AccountsNext ==
    \/ \E u \in Users : \/ CreateUser(u) \/ Refuse(u) \/ LoginFails(u) \/ Login(u)
                        \/ Unlock(u) \/ ChangePassword(u)
    \/ \E t \in DOMAIN tokens : Refresh(t) \/ \E kind \in Kinds : Revoke(kind, t)

AuditNext ==
    Denied \/ Start \/ LoopBegins \/ FlushRound \/ ShutdownCancels \/ ShutdownFlushes

Next == AccountsNext \/ AuditNext \/ Crash

Spec == Init /\ [][Next]_vars

-----------------------------------------------------------------------------
(* Properties.                                                             *)

\* A refresh token is exchanged once, and what was exchanged is of no use any more, neither
\* the refresh token nor its access token, whoever else revokes or refreshes.
RefreshedOnce ==
    \A t \in DOMAIN tokens :
        /\ tokens[t].exchanged <= 1
        /\ tokens[t].exchanged = 1 => tokens[t].revoked /\ (Kinds \X {t}) \subseteq revokedTokens

\* An account that had so many failures in a row is locked until its hour is over, also when
\* the process crashed between the failures or after them; only what _save_users() raised for
\* is forgotten by a crash.
LockSurvives == \A u \in locked : users[u].locked

\* Every entry that was logged is in the file, waits in the buffer, or was lost by a flush
\* that raised; and as long as neither the loop nor a shutdown() has raised, none is lost.
EntriesAccounted ==
    /\ written + buffer + lost = logged
    /\ lost > 0 => flusher = "failed" \/ closing \in {"raised", "returned"}

\* A first shutdown() that returns has everything in the file that was ever logged, also what
\* others have logged while it waited for the loop.
AuditComplete ==
    [][(closing \in {"no", "cancelled"} /\ closing' = "returned") => written' = logged']_vars

\* So has a shutdown() that is called again after it raised ("Flush buffer to log file.",
\* security.py:597).
AuditCompleteAgain == [][closing = "raised" /\ closing' = "returned" => written' = logged']_vars

\* "Revoke all tokens" (security.py:1001): a change of the password leaves the user no token
\* that works.
PasswordEndsTokens ==
    [][\A u \in Users : ChangePassword(u) /\ SaveUsers =>
                            (Kinds \X OfUser(u)) \subseteq revokedTokens']_vars
=============================================================================

----------------------------- MODULE ApiServer -----------------------------
(***************************************************************************)
(* The REST API's keys, rate limit and webhooks (api_server.py).           *)
(*                                                                         *)
(* A request is admitted by a key.  Requests that create or revoke keys    *)
(* change the table under the manager's lock and write the file after      *)
(* they released it, so that others come in between.  A job's submission   *)
(* is answered when its event has been sent, with retries, to the webhooks *)
(* that were registered when it was fired.  The process may crash, while a *)
(* file is written too, and starts again from the files.                   *)
(*                                                                         *)
(* Left out: the requests that only ask the engine, and scopes other than  *)
(* "admin".  The engine takes every job.                                   *)
(***************************************************************************)
EXTENDS Integers, FiniteSets

CONSTANTS
    Keys,           \* keys that may be created
    Admins,         \* those of them with the scope "admin"
    RateLimit,      \* APIKey.rate_limit, requests within a window
    Urls,           \* of webhooks
    Jobs,           \* bound: jobs submitted
    RetryCount      \* WebhookConfig.retry_count

VARIABLES
    keys,           \* APIKeyManager._keys: each key's state
    hashes,         \* _key_hashes: the keys whose hash is known
    keysFile,       \* the states in the keys file; none of them for a broken one
    saving,         \* create_key() and revoke_key() calls on their way to _save_keys()
    revoked,        \* keys whose revocation has been answered
    used,           \* requests by each key within the window
    hooks,          \* WebhookManager._webhooks: <<identifier, URL>>; see register()
    hooksFile,      \* the URLs in the webhooks file; none for a broken one
    job,            \* each job's submission
    sending         \* calls of _send_webhook(): the job, the webhook and the attempts left

keyVars == <<keys, hashes, keysFile, saving, revoked, used>>
hookVars == <<hooks, hooksFile>>
jobVars == <<job, sending>>
vars == <<keyVars, hookVars, jobVars>>

States == [Keys -> {"none", "active", "revoked"}]
Hooks == {"hash", "url"} \X Urls

TypeOK ==
    /\ keys \in States /\ hashes \subseteq Keys
    /\ keysFile \in States
    /\ saving \subseteq {"create", "revoke"} \X Keys /\ revoked \subseteq Keys
    /\ used \in [Keys -> 0..RateLimit]
    /\ hooks \subseteq Hooks
    /\ hooksFile \subseteq Urls
    /\ job \in [Jobs -> {"none", "submitted", "answered", "lost"}]
    /\ sending \subseteq [job : Jobs, hook : Hooks, left : 1..RetryCount]

\* The first administrator's key has been written into the file by hand.
Init ==
    \E a \in Admins :
        /\ keys = [k \in Keys |-> IF k = a THEN "active" ELSE "none"]
        /\ hashes = {a} /\ keysFile = keys
        /\ saving = {} /\ revoked = {} /\ used = [k \in Keys |-> 0]
        /\ hooks = {} /\ hooksFile = {}
        /\ job = [j \in Jobs |-> "none"] /\ sending = {}

-----------------------------------------------------------------------------
(* get_api_key(): every request but the health checks begins with it.      *)

\* validate_key() returns the key.
Valid(k) == k \in hashes /\ keys[k] = "active"

\* check_rate_limit() finds room and takes it.
Admit(k) == /\ Valid(k) /\ used[k] < RateLimit
            /\ used' = [used EXCEPT ![k] = @ + 1]

\* A request leaves the sliding window.
Slide(k) == /\ used[k] > 0 /\ used' = [used EXCEPT ![k] = @ - 1]
            /\ UNCHANGED <<keys, hashes, keysFile, saving, revoked, hookVars, jobVars>>

-----------------------------------------------------------------------------
(* Keys.                                                                   *)

CreateKey(a, k) ==
    /\ a \in Admins /\ Admit(a)
    /\ keys[k] = "none" /\ keysFile[k] = "none" /\ k \notin revoked
    /\ keys' = [keys EXCEPT ![k] = "active"] /\ hashes' = hashes \union {k}
    /\ saving' = saving \union {<<"create", k>>}
    /\ UNCHANGED <<keysFile, revoked, hookVars, jobVars>>

\* As RevokeKey below, without the flag: the hash is all validate_key() needs to be gone.
RevokeKeyByHash(a, k) ==
    /\ a \in Admins /\ Admit(a)
    /\ keys[k] # "none" /\ k \in hashes
    /\ hashes' = hashes \ {k}
    /\ saving' = saving \union {<<"revoke", k>>}
    /\ UNCHANGED <<keys, keysFile, revoked, hookVars, jobVars>>

\* For a key revoked before, whose hash is gone, the deletion raises.
RevokeKey(a, k) ==
    /\ a \in Admins /\ Admit(a)
    /\ keys[k] # "none" /\ k \in hashes
    /\ keys' = [keys EXCEPT ![k] = "revoked"] /\ hashes' = hashes \ {k}
    /\ saving' = saving \union {<<"revoke", k>>}
    /\ UNCHANGED <<keysFile, revoked, hookVars, jobVars>>

\* _save_keys() writes what the table holds by now; then the request is answered.
SaveKeys(s) ==
    /\ s \in saving
    /\ keysFile' = keys
    /\ saving' = saving \ {s}
    /\ revoked' = IF s[1] = "revoke" THEN revoked \union {s[2]} ELSE revoked
    /\ UNCHANGED <<keys, hashes, used, hookVars, jobVars>>

-----------------------------------------------------------------------------
(* Webhooks.  register() files them under a hash of the URL, and           *)
(* _load_webhooks() under the URL; unregister() takes what it is given.    *)

Saved(hs) == {h[2] : h \in hs}

Register(u) ==
    /\ \E k \in Keys : Admit(k)
    /\ hooks' = hooks \union {<<"hash", u>>} /\ hooksFile' = Saved(hooks')
    /\ UNCHANGED <<keys, hashes, keysFile, saving, revoked, jobVars>>

Unregister(h) ==
    /\ \E k \in Keys : Admit(k)
    /\ h \in hooks
    /\ hooks' = hooks \ {h} /\ hooksFile' = Saved(hooks')
    /\ UNCHANGED <<keys, hashes, keysFile, saving, revoked, jobVars>>

\* submit_job() up to fire_event(), which starts a sender for each webhook.
SubmitJob(j) ==
    /\ \E k \in Keys : Admit(k)
    /\ job[j] = "none" /\ job' = [job EXCEPT ![j] = "submitted"]
    /\ sending' = sending \union {[job |-> j, hook |-> h, left |-> RetryCount] : h \in hooks}
    /\ UNCHANGED <<keys, hashes, keysFile, saving, revoked, hookVars>>

\* As Post below, giving up on nobody.
PostUntilDelivered(s) ==
    /\ s \in sending
    /\ \/ sending' = sending \ {s}
       \/ sending' = (sending \ {s})
                       \union {[s EXCEPT !.left = IF @ = 1 THEN RetryCount ELSE @ - 1]}
    /\ UNCHANGED <<keyVars, hookVars, job>>

\* An attempt of _send_webhook(), which is the last if it succeeds or none is left.
Post(s) ==
    /\ s \in sending
    /\ \/ sending' = sending \ {s}
       \/ s.left > 1 /\ sending' = (sending \ {s}) \union {[s EXCEPT !.left = @ - 1]}
    /\ UNCHANGED <<keyVars, hookVars, job>>

\* gather() has all the senders back: submit_job() answers.
Answer(j) ==
    /\ job[j] = "submitted" /\ (\A s \in sending : s.job # j)
    /\ job' = [job EXCEPT ![j] = "answered"]
    /\ UNCHANGED <<keyVars, hookVars, sending>>

-----------------------------------------------------------------------------
\* A crash and the start after it, which takes a file it cannot read for none at all;
\* open(..., "w") empties a file before it is written, which
\* a register() or unregister() may be about to do at any time.
NoKeys == [k \in Keys |-> "none"]

Crash ==
    /\ keysFile' \in IF saving = {} THEN {keysFile} ELSE {keysFile, NoKeys}
    /\ hooksFile' \in {hooksFile, {}}
    /\ keys' = keysFile' /\ hashes' = {k \in Keys : keys'[k] # "none"}
    /\ hooks' = {<<"url", u>> : u \in hooksFile'}
    /\ saving' = {} /\ sending' = {} /\ used' = [k \in Keys |-> 0]
    /\ job' = [j \in Jobs |-> IF job[j] = "submitted" THEN "lost" ELSE job[j]]
    /\ UNCHANGED revoked

Next ==
    \/ \E k \in Keys : Slide(k) \/ \E a \in Keys : CreateKey(a, k) \/ RevokeKey(a, k)
    \/ \E s \in saving : SaveKeys(s)
    \/ \E u \in Urls : Register(u)
    \/ \E h \in hooks : Unregister(h)
    \/ \E j \in Jobs : SubmitJob(j) \/ Answer(j)
    \/ \E s \in sending : Post(s)
    \/ Crash

\* A sender's attempts have a timeout, and the event loop runs whoever is ready.
Fairness == /\ WF_vars(\E s \in sending : Post(s))
            /\ WF_vars(\E j \in Jobs : Answer(j))

Spec == Init /\ [][Next]_vars
FairSpec == Spec /\ Fairness

-----------------------------------------------------------------------------
(* Properties.                                                             *)

\* A key whose revocation was answered admits nobody again, whatever is saved by others in
\* the meantime and whenever the server crashes and starts from the file.
RevokedStaysRevoked == \A k \in revoked : ~Valid(k)

\* A submission is answered, unless the server crashes, even if no webhook can be reached.
SubmissionAnswered == \A j \in Jobs : job[j] = "submitted" ~> job[j] \in {"answered", "lost"}

\* A URL is notified once of an event: it is registered under one identifier only (register()
\* replaces the entry of the same URL, api_server.py:334).
OneEntryPerUrl == \A g, h \in hooks : g[2] = h[2] => g = h
=============================================================================

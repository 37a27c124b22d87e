---------------------------- MODULE OAuthTokens ----------------------------
(***************************************************************************)
(* The OAuth credential of one profile, shared by processes through the    *)
(* encrypted store (auth/oauth_manager.py, auth/store.py): a client that   *)
(* finds it expired takes the file lock, looks again, and has the plugin   *)
(* refresh it.  The other operations on the store - logging in, removing a *)
(* profile, storing an API key, choosing a default - load it and write all *)
(* of it back later, without the lock.  Whether the provider accepts a     *)
(* credential again that was refreshed before is left open: Copilot does,  *)
(* Codex is not sent it, a provider that rotates its tokens would not.     *)
(***************************************************************************)
EXTENDS Naturals

CONSTANTS
    Clients,     \* threads and processes with an OAuthManager
    Editors,     \* commands that change the store without the lock
    Free,        \* nobody holds the lock
    MaxTokens    \* bound: credentials the provider issues

ASSUME TokensAssumption == Free \notin Clients /\ MaxTokens \in Nat \ {0}

VARIABLES
    profile,    \* the stored credential, by number; 0 when removed
    expired,    \* the stored credential has expired
    lock,       \* auth-profiles.oauth.lock
    client,     \* where each client is, and the credential it read or was given
    edit,       \* what each editor has loaded, and will write
    issued,     \* credentials issued
    refreshed,  \* credentials that were refreshed
    mislaid,    \* history: a refreshed credential was not stored, or the stored one
                \* removed, or replaced by an older one
    again       \* history: a credential refreshed before was to be refreshed

oauthVars == <<profile, expired, lock, client, edit, issued, refreshed, mislaid, again>>

Resting == [at |-> "idle", tok |-> 0]
NoEdit == [kind |-> "none", tok |-> 0]

OAuthInit ==
    /\ profile = 1 /\ expired = FALSE /\ lock = Free
    /\ client = [c \in Clients |-> Resting] /\ edit = [e \in Editors |-> NoEdit]
    /\ issued = 1 /\ refreshed = {} /\ mislaid = FALSE /\ again = FALSE

\* Time passes; a credential lasts longer than anyone waits for the lock who read
\* its predecessor.
Expire ==
    /\ profile # 0 /\ ~expired
    /\ \A c \in Clients : client[c].at = "waiting" => client[c].tok = profile
    /\ expired' = TRUE
    /\ UNCHANGED <<profile, lock, client, edit, issued, refreshed, mislaid, again>>

\* resolve with an expired credential; _refresh_all_expiring with one that is about
\* to expire.
Resolve(c) ==
    /\ client[c].at = "idle" /\ profile # 0
    /\ client' = [client EXCEPT ![c] = [at |-> "waiting", tok |-> profile]]
    /\ UNCHANGED <<profile, expired, lock, edit, issued, refreshed, mislaid, again>>

Refreshes(tok) == again' = (again \/ tok \in refreshed)

\* Mutant: the lock is all that is needed.
AcquireUnchecked(c) ==
    /\ client[c].at = "waiting" /\ lock = Free
    /\ lock' = c /\ client' = [client EXCEPT ![c].at = "refreshing"]
    /\ Refreshes(client[c].tok)
    /\ UNCHANGED <<profile, expired, edit, issued, refreshed, mislaid>>

\* _refresh_with_lock: under the lock the store is read again, and a valid
\* credential returned; otherwise the one read before the lock is refreshed.
Acquire(c) ==
    /\ client[c].at = "waiting" /\ lock = Free
    /\ IF profile # 0 /\ ~expired
       THEN client' = [client EXCEPT ![c] = Resting] /\ UNCHANGED <<lock, again>>
       ELSE /\ lock' = c /\ client' = [client EXCEPT ![c].at = "refreshing"]
            /\ Refreshes(client[c].tok)
    /\ UNCHANGED <<profile, expired, edit, issued, refreshed, mislaid>>

\* The lock is not to be had within 30 seconds: the expired credential is used.
LockTimesOut(c) ==
    /\ client[c].at = "waiting" /\ lock # Free
    /\ client' = [client EXCEPT ![c] = Resting]
    /\ UNCHANGED <<profile, expired, lock, edit, issued, refreshed, mislaid, again>>

\* plugin.refresh returns a credential.
Exchange(c) ==
    /\ client[c].at = "refreshing" /\ issued < MaxTokens
    /\ issued' = issued + 1
    /\ refreshed' = refreshed \cup {client[c].tok}
    /\ client' = [client EXCEPT ![c] = [at |-> "saving", tok |-> issued']]
    /\ UNCHANGED <<profile, expired, lock, edit, mislaid, again>>

\* _save_credential: a profile removed in the meantime is there again.
Save(c) ==
    /\ client[c].at = "saving"
    /\ profile' = client[c].tok /\ expired' = FALSE
    /\ lock' = Free /\ client' = [client EXCEPT ![c] = Resting]
    /\ UNCHANGED <<edit, issued, refreshed, mislaid, again>>

\* The plugin returns None, the save fails, or the process dies, which frees the lock.
Abandon(c) ==
    /\ client[c].at \in {"refreshing", "saving"}
    /\ lock' = Free /\ client' = [client EXCEPT ![c] = Resting]
    /\ mislaid' = (mislaid \/ client[c].at = "saving")
    /\ UNCHANGED <<profile, expired, edit, issued, refreshed, again>>

\* add_oauth_profile, with a credential the provider has issued.
LoginLoads(e) ==
    /\ edit[e].kind = "none" /\ issued < MaxTokens
    /\ issued' = issued + 1
    /\ edit' = [edit EXCEPT ![e] = [kind |-> "login", tok |-> issued']]
    /\ UNCHANGED <<profile, expired, lock, client, refreshed, mislaid, again>>

\* remove_profile, or add_api_key_profile under the same name.
LogoutLoads(e) ==
    /\ edit[e].kind = "none" /\ profile # 0
    /\ edit' = [edit EXCEPT ![e] = [kind |-> "logout", tok |-> 0]]
    /\ UNCHANGED <<profile, expired, lock, client, issued, refreshed, mislaid, again>>

\* The operations on other profiles, and set_default_profile: this one is written as
\* it was loaded.
OtherLoads(e) ==
    /\ edit[e].kind = "none"
    /\ edit' = [edit EXCEPT ![e] = [kind |-> "other", tok |-> profile]]
    /\ UNCHANGED <<profile, expired, lock, client, issued, refreshed, mislaid, again>>

\* save_auth_store of what was loaded and changed.  A credential put back may have
\* expired meanwhile.
EditWrites(e) ==
    /\ edit[e].kind # "none"
    /\ profile' = edit[e].tok
    /\ IF profile' = profile THEN UNCHANGED expired
       ELSE IF edit[e].kind = "other" /\ profile' # 0 THEN expired' \in BOOLEAN
       ELSE expired' = FALSE
    /\ mislaid' = \/ mislaid \/ edit[e].kind = "logout"
                   \/ (edit[e].kind = "other" /\ profile' # profile)
    /\ edit' = [edit EXCEPT ![e] = NoEdit]
    /\ UNCHANGED <<lock, client, issued, refreshed, again>>

OAuthNext ==
    \/ Expire
    \/ \E e \in Editors : LoginLoads(e) \/ LogoutLoads(e) \/ OtherLoads(e) \/ EditWrites(e)
    \/ \E c \in Clients : Resolve(c) \/ Acquire(c) \/ LockTimesOut(c) \/ Exchange(c)
                          \/ Save(c) \/ Abandon(c)

OAuthSpec == OAuthInit /\ [][OAuthNext]_oauthVars

-----------------------------------------------------------------------------
\* A credential is not refreshed twice, unless the credential it was refreshed to
\* never reached the store, the profile was removed, or a command that does not take
\* the lock wrote back what it had loaded before the store changed: the clients that
\* waited for the lock see what the first one stored (_refresh_with_lock).
RefreshedOnce == again => mislaid
=============================================================================

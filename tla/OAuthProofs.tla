----------------------------- MODULE OAuthProofs -----------------------------
(***************************************************************************)
(* For any number of clients, editors and credentials: a credential is     *)
(* refreshed twice only if one was lost, removed, or put back by a command *)
(* that writes the store without the lock.                                 *)
(***************************************************************************)
EXTENDS OAuthTokens, TLAPS

EditState == [kind : {"none", "login", "logout", "other"}, tok : Nat]

ClientState == [at : {"idle", "waiting", "refreshing", "saving"}, tok : Nat]

OAuthTypeOK ==
    /\ profile \in Nat /\ expired \in BOOLEAN /\ issued \in Nat
    /\ lock \in Clients \cup {Free}
    /\ client \in [Clients -> ClientState] /\ edit \in [Editors -> EditState]
    /\ refreshed \subseteq Nat
    /\ mislaid \in BOOLEAN /\ again \in BOOLEAN

\* Numbers the provider has not given out are nowhere.
Numbered ==
    /\ profile <= issued
    /\ \A c \in Clients : client[c].tok <= issued
    /\ \A e \in Editors : edit[e].tok <= issued
    /\ \A n \in refreshed : n <= issued

\* A client refreshes and saves while it holds the lock.
LockHeld == \A c \in Clients : client[c].at \in {"refreshing", "saving"} => lock = c

\* As long as nothing was lost: the stored credential is good, unless its
\* successor is about to be stored; who waits with an expired one has read the
\* one that is stored; and a new credential was not refreshed yet.
Fresh ==
    ~mislaid =>
        /\ profile # 0
        /\ (\A c \in Clients : client[c].at # "saving") => profile \notin refreshed
        /\ expired => \A c \in Clients : client[c].at = "waiting" => client[c].tok = profile

NewIsGood ==
    \A c \in Clients :
        client[c].at = "saving" => client[c].tok \notin refreshed /\ client[c].tok # 0

\* So is one that a login is about to store: nobody else has seen it.
LoginIsGood ==
    \A e \in Editors : edit[e].kind = "login" =>
        /\ edit[e].tok \notin refreshed /\ edit[e].tok # 0 /\ edit[e].tok # profile
        /\ \A c \in Clients : client[c].tok # edit[e].tok
        /\ \A d \in Editors \ {e} : edit[d].tok # edit[e].tok

OAuthInv == OAuthTypeOK /\ Numbered /\ LockHeld /\ NewIsGood /\ LoginIsGood /\ Fresh /\ RefreshedOnce

LEMMA OAuthInitInv == OAuthInit => OAuthInv
<1> SUFFICES ASSUME OAuthInit PROVE OAuthInv
    OBVIOUS
<1> USE DEF OAuthInit
<1>1. Resting = [at |-> "idle", tok |-> 0]
    BY DEF Resting
<1>2. \A c \in Clients : client[c].at = "idle" /\ client[c].tok = 0
    BY <1>1
<1>5. \A e \in Editors : edit[e].kind = "none" /\ edit[e].tok = 0
    BY DEF NoEdit
<1>3. OAuthTypeOK
    BY <1>1, TokensAssumption DEF OAuthTypeOK, ClientState, EditState, NoEdit
<1>4. Numbered /\ LockHeld /\ NewIsGood /\ LoginIsGood /\ Fresh /\ RefreshedOnce
    BY <1>2, <1>5 DEF Numbered, LockHeld, NewIsGood, LoginIsGood, Fresh, RefreshedOnce
<1> QED
    BY <1>3, <1>4 DEF OAuthInv

\* What a step does to one client.
LEMMA ClientType ==
    ASSUME OAuthTypeOK, NEW c \in Clients, NEW r \in ClientState,
           client' = [client EXCEPT ![c] = r]
    PROVE  /\ client' \in [Clients -> ClientState]
           /\ client'[c] = r /\ \A d \in Clients \ {c} : client'[d] = client[d]
BY DEF OAuthTypeOK

LEMMA AtType ==
    ASSUME NEW r \in ClientState, NEW a \in {"idle", "waiting", "refreshing", "saving"}
    PROVE  /\ [r EXCEPT !.at = a] \in ClientState
           /\ [r EXCEPT !.at = a].at = a /\ [r EXCEPT !.at = a].tok = r.tok
BY DEF ClientState

LEMMA RestingType == Resting \in ClientState /\ Resting.at = "idle" /\ Resting.tok = 0
BY DEF Resting, ClientState

\* Every step keeps the types and the numbers.
LEMMA OAuthTypeStep == OAuthInv /\ OAuthNext => OAuthTypeOK' /\ Numbered'
<1> SUFFICES ASSUME OAuthInv, OAuthNext PROVE OAuthTypeOK' /\ Numbered'
    OBVIOUS
<1> USE TokensAssumption DEF OAuthInv
<1>1. CASE Expire
    BY <1>1 DEF Expire, OAuthTypeOK, Numbered
<1>2. ASSUME NEW e \in Editors, LoginLoads(e) \/ LogoutLoads(e) \/ OtherLoads(e)
      PROVE  OAuthTypeOK' /\ Numbered'
  <2>1. PICK r \in EditState :
           /\ edit' = [edit EXCEPT ![e] = r] /\ r.tok <= issued'
           /\ issued' \in {issued, issued + 1}
    BY <1>2 DEF LoginLoads, LogoutLoads, OtherLoads, EditState, OAuthTypeOK, Numbered
  <2>2. /\ UNCHANGED <<profile, expired, lock, client, refreshed, mislaid, again>>
    BY <1>2 DEF LoginLoads, LogoutLoads, OtherLoads
  <2>3. /\ edit' \in [Editors -> EditState] /\ edit'[e] = r
        /\ \A d \in Editors \ {e} : edit'[d] = edit[d]
    BY <2>1 DEF OAuthTypeOK
  <2>4. issued' \in Nat /\ issued <= issued'
    BY <2>1 DEF OAuthTypeOK
  <2>5. \A m \in Nat : m <= issued => m <= issued'
    BY <2>4 DEF OAuthTypeOK
  <2>6. OAuthTypeOK'
    BY <2>2, <2>3, <2>4 DEF OAuthTypeOK
  <2>7. \A d \in Editors : edit'[d].tok <= issued'
    BY <2>1, <2>3, <2>5 DEF OAuthTypeOK, EditState, Numbered
  <2>8. /\ profile \in Nat /\ refreshed \subseteq Nat
        /\ \A c \in Clients : client[c].tok \in Nat
    BY DEF OAuthTypeOK, ClientState
  <2> QED
    BY <2>2, <2>5, <2>6, <2>7, <2>8 DEF Numbered
<1>3. ASSUME NEW e \in Editors, EditWrites(e) PROVE OAuthTypeOK' /\ Numbered'
  <2>1. edit[e].tok \in Nat /\ edit[e].tok <= issued
    BY DEF OAuthTypeOK, EditState, Numbered
  <2>2. expired' \in BOOLEAN /\ mislaid' \in BOOLEAN
    BY <1>3 DEF EditWrites, OAuthTypeOK
  <2>3. NoEdit \in EditState /\ NoEdit.tok = 0
    BY DEF NoEdit, EditState
  <2>4. /\ edit' \in [Editors -> EditState] /\ edit'[e] = NoEdit
        /\ \A d \in Editors \ {e} : edit'[d] = edit[d]
    BY <1>3, <2>3 DEF EditWrites, OAuthTypeOK
  <2> QED
    BY <1>3, <2>1, <2>2, <2>3, <2>4 DEF EditWrites, OAuthTypeOK, Numbered
<1>4. ASSUME NEW c \in Clients, Resolve(c) PROVE OAuthTypeOK' /\ Numbered'
  <2> DEFINE r == [at |-> "waiting", tok |-> profile]
  <2>1. r \in ClientState /\ r.tok = profile
    BY DEF ClientState, OAuthTypeOK
  <2>2. client' = [client EXCEPT ![c] = r]
    BY <1>4 DEF Resolve
  <2> HIDE DEF r
  <2> QED
    BY <1>4, <2>1, <2>2, ClientType DEF Resolve, OAuthTypeOK, Numbered
<1>5. ASSUME NEW c \in Clients, Acquire(c) PROVE OAuthTypeOK' /\ Numbered'
  <2>1. client[c] \in ClientState
    BY DEF OAuthTypeOK
  <2> DEFINE r == IF profile # 0 /\ ~expired THEN Resting
                                            ELSE [client[c] EXCEPT !.at = "refreshing"]
  <2>2. r \in ClientState /\ r.tok \in {0, client[c].tok}
    BY <2>1, RestingType, AtType
  <2>3. client' = [client EXCEPT ![c] = r]
    BY <1>5 DEF Acquire
  <2> HIDE DEF r
  <2>4. again' \in BOOLEAN /\ lock' \in Clients \cup {Free}
    BY <1>5 DEF Acquire, Refreshes, OAuthTypeOK
  <2> QED
    BY <1>5, <2>2, <2>3, <2>4, ClientType DEF Acquire, OAuthTypeOK, Numbered
<1>6. ASSUME NEW c \in Clients, LockTimesOut(c) PROVE OAuthTypeOK' /\ Numbered'
    BY <1>6, ClientType, RestingType DEF LockTimesOut, OAuthTypeOK, Numbered
<1>7. ASSUME NEW c \in Clients, Exchange(c) PROVE OAuthTypeOK' /\ Numbered'
  <2> DEFINE r == [at |-> "saving", tok |-> issued']
  <2>1. r \in ClientState /\ r.tok = issued' /\ issued' = issued + 1
    BY <1>7 DEF Exchange, ClientState, OAuthTypeOK
  <2>2. client' = [client EXCEPT ![c] = r]
    BY <1>7 DEF Exchange
  <2>3. \A d \in Clients : client[d].tok \in Nat
    BY DEF OAuthTypeOK, ClientState
  <2> HIDE DEF r
  <2>4. /\ client' \in [Clients -> ClientState] /\ client'[c] = r
        /\ \A d \in Clients \ {c} : client'[d] = client[d]
    BY <2>1, <2>2, ClientType
  <2>5. issued \in Nat /\ \A d \in Clients : client[d].tok <= issued + 1
    BY <2>3 DEF OAuthTypeOK, Numbered
  <2>6. ASSUME NEW d \in Clients PROVE client'[d].tok <= issued'
    <3>1. CASE d = c
      BY <2>1, <2>4, <2>5, <3>1
    <3>2. CASE d # c
      BY <2>1, <2>4, <2>5, <3>2
    <3> QED
      BY <3>1, <3>2
  <2>7. ASSUME NEW n \in refreshed' PROVE n \in Nat /\ n <= issued'
    <3>1. CASE n \in refreshed
      <4>1. n \in Nat /\ n <= issued /\ issued \in Nat
        BY <3>1 DEF OAuthTypeOK, Numbered
      <4> QED
        BY <4>1, <2>1
    <3>2. CASE n = client[c].tok
      <4>1. n \in Nat /\ n <= issued /\ issued \in Nat
        BY <3>2, <2>3 DEF OAuthTypeOK, Numbered
      <4> QED
        BY <4>1, <2>1
    <3> QED
      BY <1>7, <3>1, <3>2 DEF Exchange
  <2>8. UNCHANGED <<profile, expired, lock, edit, mislaid, again>>
    BY <1>7 DEF Exchange
  <2>9. OAuthTypeOK'
    BY <2>1, <2>4, <2>7, <2>8 DEF OAuthTypeOK
  <2>11. \A e \in Editors : edit'[e].tok <= issued'
    BY <2>1, <2>8 DEF Numbered, OAuthTypeOK, EditState
  <2>10. Numbered'
    BY <2>1, <2>7, <2>6, <2>8, <2>11 DEF Numbered, OAuthTypeOK
  <2> QED
    BY <2>9, <2>10
<1>8. ASSUME NEW c \in Clients, Save(c) PROVE OAuthTypeOK' /\ Numbered'
  <2>1. client[c].tok \in Nat
    BY DEF OAuthTypeOK, ClientState
  <2>2. expired' \in BOOLEAN
    BY <1>8 DEF Save
  <2> QED
    BY <1>8, <2>1, <2>2, ClientType, RestingType DEF Save, OAuthTypeOK, Numbered
<1>9. ASSUME NEW c \in Clients, Abandon(c) PROVE OAuthTypeOK' /\ Numbered'
    BY <1>9, ClientType, RestingType DEF Abandon, OAuthTypeOK, Numbered
<1> QED
    BY <1>1, <1>2, <1>3, <1>4, <1>5, <1>6, <1>7, <1>8, <1>9 DEF OAuthNext

Rest == LockHeld /\ NewIsGood /\ LoginIsGood /\ Fresh /\ RefreshedOnce

\* Every step keeps what the lock protects.
LEMMA OAuthRestStep == OAuthInv /\ OAuthNext => Rest'
<1> SUFFICES ASSUME OAuthInv, OAuthNext PROVE Rest'
    OBVIOUS
<1> USE TokensAssumption DEF OAuthInv, OAuthTypeOK, Numbered, Resting, ClientState
<1>1. CASE Expire
    BY <1>1 DEF Expire, Rest, LockHeld, NewIsGood, LoginIsGood, Fresh, RefreshedOnce
<1>2. ASSUME NEW e \in Editors, LoginLoads(e) PROVE Rest'
  <2>1. /\ edit'[e] = [kind |-> "login", tok |-> issued + 1]
        /\ \A d \in Editors \ {e} : edit'[d] = edit[d]
        /\ UNCHANGED <<profile, expired, lock, client, refreshed, mislaid, again>>
    BY <1>2 DEF LoginLoads
  <2>2. /\ issued + 1 \notin refreshed /\ issued + 1 # 0 /\ issued + 1 # profile
        /\ \A c \in Clients : client[c].tok # issued + 1
        /\ \A d \in Editors : edit[d].tok # issued + 1
    BY DEF EditState
  <2>3. LoginIsGood'
    BY <2>1, <2>2 DEF LoginIsGood
  <2> QED
    BY <2>1, <2>3 DEF Rest, LockHeld, NewIsGood, Fresh, RefreshedOnce
<1>3. ASSUME NEW e \in Editors, LogoutLoads(e) \/ OtherLoads(e) PROVE Rest'
  <2>1. /\ edit'[e].kind # "login" /\ edit'[e].tok \in {0, profile}
        /\ \A d \in Editors \ {e} : edit'[d] = edit[d]
        /\ UNCHANGED <<profile, expired, lock, client, refreshed, mislaid, again>>
    BY <1>3 DEF LogoutLoads, OtherLoads
  <2>2. LoginIsGood'
    BY <2>1 DEF LoginIsGood
  <2> QED
    BY <2>1, <2>2 DEF Rest, LockHeld, NewIsGood, Fresh, RefreshedOnce
<1>10. ASSUME NEW e \in Editors, EditWrites(e) PROVE Rest'
  <2>1. /\ edit'[e].kind = "none" /\ edit'[e].tok = 0 /\ profile' = edit[e].tok
        /\ \A d \in Editors \ {e} : edit'[d] = edit[d]
        /\ UNCHANGED <<lock, client, issued, refreshed, again>>
        /\ edit[e].kind \in {"login", "logout", "other"}
    BY <1>10 DEF EditWrites, NoEdit, EditState
  <2>2. ~mislaid' => ~mislaid /\ (edit[e].kind = "login" \/ profile' = profile)
    BY <1>10, <2>1 DEF EditWrites
  <2>3. LoginIsGood'
    BY <2>1 DEF LoginIsGood
  <2>4. Fresh'
    <3>1. CASE profile' = profile
      BY <1>10, <2>1, <2>2, <3>1 DEF EditWrites, Fresh
    <3>2. CASE profile' # profile /\ edit[e].kind = "login"
      BY <1>10, <2>1, <2>2, <3>2 DEF EditWrites, Fresh, LoginIsGood
    <3>3. CASE profile' # profile /\ edit[e].kind # "login"
      BY <2>2, <3>3 DEF Fresh
    <3> QED
      BY <3>1, <3>2, <3>3
  <2> QED
    BY <2>1, <2>2, <2>3, <2>4 DEF Rest, LockHeld, NewIsGood, RefreshedOnce
<1>4. ASSUME NEW c \in Clients, Resolve(c) PROVE Rest'
    BY <1>4 DEF Resolve, Rest, LockHeld, NewIsGood, LoginIsGood, Fresh, RefreshedOnce
<1>5. ASSUME NEW c \in Clients, Acquire(c) PROVE Rest'
  <2>1. CASE profile # 0 /\ ~expired
    BY <1>5, <2>1 DEF Acquire, Rest, LockHeld, NewIsGood, LoginIsGood, Fresh, RefreshedOnce
  <2>2. CASE ~(profile # 0 /\ ~expired)
    <3>1. \A d \in Clients : client[d].at \notin {"refreshing", "saving"}
      BY <1>5 DEF Acquire, LockHeld
    <3>2. ~mislaid => client[c].tok \notin refreshed
      BY <1>5, <2>2, <3>1 DEF Acquire, Fresh
    <3>3. RefreshedOnce'
      BY <1>5, <2>2, <3>2 DEF Acquire, Refreshes, RefreshedOnce
    <3>4. LockHeld' /\ NewIsGood'
      BY <1>5, <2>2, <3>1 DEF Acquire, LockHeld, NewIsGood
    <3>5. Fresh'
      BY <1>5, <2>2, <3>1 DEF Acquire, Fresh
    <3>6. LoginIsGood'
      BY <1>5, <2>2 DEF Acquire, LoginIsGood
    <3> QED
      BY <3>3, <3>4, <3>5, <3>6 DEF Rest
  <2> QED
    BY <2>1, <2>2
<1>6. ASSUME NEW c \in Clients, LockTimesOut(c) PROVE Rest'
    BY <1>6 DEF LockTimesOut, Rest, LockHeld, NewIsGood, LoginIsGood, Fresh, RefreshedOnce
<1>7. ASSUME NEW c \in Clients, Exchange(c) PROVE Rest'
  <2>1. lock = c /\ client'[c].at = "saving" /\ client'[c].tok = issued'
        /\ \A d \in Clients \ {c} : client'[d] = client[d] /\ client[d].at # "saving"
    BY <1>7 DEF Exchange, LockHeld
  <2>2. issued' \notin refreshed'
    BY <1>7 DEF Exchange
  <2>3. LockHeld' /\ NewIsGood'
    BY <1>7, <2>1, <2>2 DEF Exchange, LockHeld, NewIsGood
  <2>4. Fresh'
    BY <1>7, <2>1 DEF Exchange, Fresh
  <2>5. LoginIsGood'
    <3>1. \A e \in Editors : edit[e].tok # issued'
      BY <1>7 DEF Exchange, EditState
    <3> QED
      BY <1>7, <2>1, <3>1 DEF Exchange, LoginIsGood
  <2> QED
    BY <1>7, <2>3, <2>4, <2>5 DEF Exchange, Rest, RefreshedOnce
<1>8. ASSUME NEW c \in Clients, Save(c) PROVE Rest'
  <2>1. lock = c /\ client'[c].at = "idle" /\ client[c].tok \notin refreshed
        /\ \A d \in Clients \ {c} : client'[d] = client[d]
                                     /\ client[d].at \notin {"refreshing", "saving"}
    BY <1>8 DEF Save, LockHeld, NewIsGood
  <2>2. client[c].tok # 0
    BY <1>8 DEF Save, NewIsGood
  <2>3. LockHeld' /\ NewIsGood'
    BY <1>8, <2>1 DEF Save, LockHeld, NewIsGood
  <2>4. Fresh'
    BY <1>8, <2>1, <2>2 DEF Save, Fresh
  <2>5. LoginIsGood'
    BY <1>8, <2>1 DEF Save, LoginIsGood
  <2> QED
    BY <1>8, <2>3, <2>4, <2>5 DEF Save, Rest, RefreshedOnce
<1>9. ASSUME NEW c \in Clients, Abandon(c) PROVE Rest'
  <2>1. lock = c /\ client'[c].at = "idle"
        /\ \A d \in Clients \ {c} : client'[d] = client[d]
                                     /\ client[d].at \notin {"refreshing", "saving"}
    BY <1>9 DEF Abandon, LockHeld
  <2>2. LockHeld' /\ NewIsGood'
    BY <1>9, <2>1 DEF Abandon, LockHeld, NewIsGood
  <2>3. Fresh'
    BY <1>9, <2>1 DEF Abandon, Fresh
  <2>4. LoginIsGood'
    BY <1>9, <2>1 DEF Abandon, LoginIsGood
  <2> QED
    BY <1>9, <2>2, <2>3, <2>4 DEF Abandon, Rest, RefreshedOnce
<1> QED
    BY <1>1, <1>2, <1>3, <1>4, <1>5, <1>6, <1>7, <1>8, <1>9, <1>10 DEF OAuthNext

\* A step of other parts of the system changes nothing here.
LEMMA OAuthStutter == OAuthInv /\ UNCHANGED oauthVars => OAuthInv'
BY DEF OAuthInv, oauthVars, OAuthTypeOK, Numbered, LockHeld, NewIsGood, LoginIsGood, Fresh, RefreshedOnce

\* A credential is refreshed once, for every number of clients and editors, in every
\* behaviour in which no refreshed credential is lost, no profile removed and none put
\* back by a stale write (_refresh_with_lock, save_auth_store).
THEOREM OAuthRefreshedOnce == OAuthSpec => []RefreshedOnce
<1>1. OAuthInv /\ [OAuthNext]_oauthVars => OAuthInv'
    BY OAuthTypeStep, OAuthRestStep, OAuthStutter DEF OAuthInv, Rest
<1>2. OAuthInv => RefreshedOnce
    BY DEF OAuthInv
<1> QED
    BY OAuthInitInv, <1>1, <1>2, PTL DEF OAuthSpec
=============================================================================

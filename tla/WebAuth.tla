------------------------------- MODULE WebAuth -------------------------------
(***************************************************************************)
(* Who may use the web service: the settings api_auth.c keeps in memory    *)
(* and in its file, the sessions of browsers, the pairing and the          *)
(* challenges of Digest clients.                                           *)
(*                                                                         *)
(* Everything generated (a session token, a nonce, a pairing) is a number, *)
(* larger than those generated before it.  A digest is right when it was   *)
(* computed from the pairing in force and a nonce that is still valid.     *)
(***************************************************************************)
EXTENDS Naturals, Sequences, FiniteSets, SequencesExt

CONSTANTS
  Client,      \* browsers and slicers
  Password,    \* passwords they know
  MaxTokens,   \* MAX_TOKENS
  MaxNonces    \* MAX_NONCES

ASSUME AuthAssumption == MaxTokens \in Nat \ {0} /\ MaxNonces \in Nat \ {0}

VARIABLES
  auth,    \* the settings in force
  saved,   \* the settings in the file
  tokens,  \* the sessions, oldest first
  nonces,  \* the challenges, oldest first
  held,    \* what each client was given
  serial,  \* history variable: the last number generated
  fresh    \* history variable: what was generated since the start and has not expired

authVars == <<auth, saved, tokens, nonces, held, serial, fresh>>

None == "none"

Unset   == [setup |-> FALSE, disabled |-> FALSE, pw |-> None, digest |-> 0]
NoneFresh == [token |-> {}, nonce |-> {}]
Nothing == [token |-> 0, nonce |-> 0, digest |-> 0]

AuthInit ==
  /\ auth = Unset /\ saved = Unset
  /\ tokens = <<>> /\ nonces = <<>>
  /\ held = [c \in Client |-> Nothing]
  /\ serial = 0 /\ fresh = NoneFresh

\* load_config: a file without the setup line still counts as set up when it holds a
\* password or says that authentication is off; an empty file is a new printer.
LoadConfig(f) == [f EXCEPT !.setup = @ \/ f.pw # None \/ f.disabled]

IsDisabled(a) == a.disabled \/ ~a.setup

HasPassword(a) == a.pw # None /\ a.digest # 0

Valid(q, n) == n > 0 /\ \E i \in DOMAIN q : q[i].n = n /\ q[i].live

ValidateToken(c) == IsDisabled(auth) \/ Valid(tokens, held[c].token)

ValidateDigest(c) ==
  \/ IsDisabled(auth)
  \/ auth.digest # 0 /\ held[c].digest = auth.digest /\ Valid(nonces, held[c].nonce)

\* api_http_check_auth: an Authorization header decides, without one only open access.
CheckAuth(c, how) ==
  CASE how = "bearer" -> ValidateToken(c)
    [] how = "digest" -> ValidateDigest(c)
    [] OTHER -> IsDisabled(auth)

\* Mutant: the newest entry gives way when the table is full.
PushNewestOut(q, n, max) ==
  Append(IF Len(q) >= max THEN Front(q) ELSE q, [n |-> n, live |-> TRUE])

\* A new entry of a table with max places: the oldest gives way.
Push(q, n, max) ==
  Append(IF Len(q) >= max THEN Tail(q) ELSE q, [n |-> n, live |-> TRUE])

\* add_session_token: the new session's owner is c.
AddSessionToken(c) ==
  /\ serial' = serial + 1 /\ fresh' = [fresh EXCEPT !.token = @ \cup {serial + 1}]
  /\ tokens' = Push(tokens, serial + 1, MaxTokens)
  /\ held' = [held EXCEPT ![c].token = serial + 1]

\* The entries that have not expired, in their order.
Unexpired(q) ==
  LET left   == {i \in DOMAIN q : q[i].live}
      nth(j) == CHOOSE i \in left : Cardinality({h \in left : h <= i}) = j
  IN  [j \in 1..Cardinality(left) |-> q[nth(j)]]

\* create_nonce drops what has expired before it looks for a place.
CreateNonce(c) ==
  /\ serial' = serial + 1 /\ fresh' = [fresh EXCEPT !.nonce = @ \cup {serial + 1}]
  /\ nonces' = Push(Unexpired(nonces), serial + 1, MaxNonces)
  /\ held' = [held EXCEPT ![c].nonce = serial + 1]

\* Mutant: the password is stored last.
SetupSavesPasswordLast(required, pw, hashed) ==
  LET a2 == [auth EXCEPT !.setup = TRUE]
      a3 == [a2 EXCEPT !.disabled = ~required]
      a4 == IF required /\ pw # None THEN [a3 EXCEPT !.pw = pw, !.digest = serial + 2] ELSE a3
  IN  <<a2, a3, a4>>

\* Mutant: authentication is switched before the password is stored.
SetupSavesSwitchFirst(required, pw, hashed) ==
  LET a1 == [auth EXCEPT !.disabled = ~required]
      a2 == [a1 EXCEPT !.setup = TRUE]
      a3 == IF required /\ pw # None THEN [a2 EXCEPT !.pw = pw, !.digest = serial + 2] ELSE a2
  IN  <<a1, a2, a3>>

\* api_auth_set_password, set_setup_complete and set_disabled of one setup request: the
\* settings as each of their saves is to leave them.  When crypt fails the old password
\* stays, and the credentials of Digest clients are those of the new one all the same.
SetupSaves(required, pw, hashed) ==
  LET a0 == [auth EXCEPT !.digest = serial + 2]
      a1 == IF required /\ pw # None THEN (IF hashed THEN [a0 EXCEPT !.pw = pw] ELSE a0)
            ELSE auth
      a2 == [a1 EXCEPT !.setup = TRUE]
      a3 == [a2 EXCEPT !.disabled = ~required]
  IN  <<a1, a2, a3>>

\* What save_config leaves of the settings a when it cannot finish: the file is cut to
\* nothing first, and its lines are written in this order.
CutShort(a) ==
  {[setup |-> n >= 1 /\ a.setup, disabled |-> n >= 2 /\ a.disabled,
    pw |-> IF n = 3 THEN a.pw ELSE None, digest |-> 0] : n \in 0..3}

\* api_deneb_setup_post: who may change the settings, and with what.
SetupAllowed(c, how, required, pw) ==
  /\ auth.setup => CheckAuth(c, how)
  /\ required => pw # None \/ HasPassword(auth)

\* The request is answered the same whatever its saves made of the file, here f.
SetupPost(c, how, required, pw, hashed, f) ==
  /\ SetupAllowed(c, how, required, pw)
  /\ auth' = Last(SetupSaves(required, pw, hashed)) /\ saved' = f
  /\ serial' = serial + 2 /\ fresh' = [fresh EXCEPT !.token = @ \cup {serial + 1}]
  /\ tokens' = Push(tokens, serial + 1, MaxTokens)
  /\ held' = [held EXCEPT ![c].token = serial + 1,
                          ![c].digest = IF required /\ pw # None THEN serial + 2 ELSE @]
  /\ UNCHANGED nonces

\* api_deneb_auth_post: a password buys a session.
AuthPost(c, pw) ==
  /\ auth.pw # None /\ auth.pw = pw
  /\ AddSessionToken(c)
  /\ UNCHANGED <<auth, saved, nonces>>

\* api_auth_request_post: the only pairing is replaced by a new one; it outlives the
\* process only when the printer has been set up, and saving it works; f is the file then.
RequestAllowed(c, how) == IsDisabled(auth) \/ CheckAuth(c, how)

RequestPost(c, how, f) ==
  /\ RequestAllowed(c, how)
  /\ serial' = serial + 1
  /\ auth' = [auth EXCEPT !.digest = serial + 1]
  /\ saved' = IF auth.setup THEN f ELSE saved
  /\ held' = [held EXCEPT ![c].digest = serial + 1]
  /\ UNCHANGED <<tokens, nonces, fresh>>

\* A request without the right credentials: a route of the table that needs them
\* answers with a challenge; setup, pairing and events only refuse.
Challenged(c, how) ==
  /\ ~CheckAuth(c, how)
  /\ CreateNonce(c)
  /\ UNCHANGED <<auth, saved, tokens>>

\* Five minutes, or thirty days, go by for the k oldest entries.
Expired(q, k) == [i \in DOMAIN q |-> [q[i] EXCEPT !.live = @ /\ i > k]]

NoncesExpire ==
  \E k \in DOMAIN nonces :
    /\ nonces[k].live /\ nonces' = Expired(nonces, k)
    /\ fresh' = [fresh EXCEPT !.nonce = @ \ 1..nonces[k].n]
    /\ UNCHANGED <<auth, saved, tokens, held, serial>>

TokensExpire ==
  \E k \in DOMAIN tokens :
    /\ tokens[k].live /\ tokens' = Expired(tokens, k)
    /\ fresh' = [fresh EXCEPT !.token = @ \ 1..tokens[k].n]
    /\ UNCHANGED <<auth, saved, nonces, held, serial>>

\* The process starts: sessions and challenges are gone, the settings come from f.
AuthRestart(f) ==
  /\ saved' = f /\ auth' = LoadConfig(f)
  /\ tokens' = <<>> /\ nonces' = <<>> /\ fresh' = NoneFresh
  /\ UNCHANGED <<held, serial>>
=============================================================================

---------------------------- MODULE ProviderLogin ----------------------------
(* Connecting a session to a provider (tau_coding/tui/app.py): what a start    *)
(* selects, the login screens, and the writes behind them -- the user's       *)
(* catalog, the credential, the provider settings, the client in use -- each  *)
(* of which may fail after the ones before it were done.  A custom provider's *)
(* name is none of the built-in ones.                                         *)
EXTENDS Naturals

CONSTANTS Builtin, Custom,     \* providers
          ApiKey, OAuth,       \* built-in providers by way of login
          Lazy,                \* whose client is built without a key (openai-codex)
          Env,                 \* with a key in the environment
          First,               \* DEFAULT_PROVIDER_NAME
          Secret, EnvKey, None

Provider == Builtin \union Custom

LoginAssumption == /\ First \in Builtin /\ Builtin = ApiKey \union OAuth
                   /\ Lazy \subseteq OAuth \ ApiKey /\ Builtin \intersect Custom = {}
                   /\ None \notin [of : Provider, key : Secret \union {EnvKey, None}]

VARIABLES stored,    \* the credential of each provider, in credentials.json
          catalog,   \* custom providers in the user's catalog
          saved,     \* providers in providers.json, or None while it does not exist
          default,   \* the default provider in it
          mem,       \* the providers this session knows
          current,   \* its provider
          client,    \* [of, key] of its client, or None: LoginRequiredProvider
          screen,    \* [at, of]: the screen on top
          told,      \* what the user was told last
          failed     \* a write failed since the client was built

files == <<stored, catalog, saved, default>>
session == <<mem, current, client>>
vars == <<files, session, screen, told, failed>>

Key(p, st) == IF st[p] # None THEN st[p] ELSE IF p \in Env THEN EnvKey ELSE None
Usable(p, st) == Key(p, st) # None
Builds(p, st) == p \in Lazy \/ Usable(p, st)
Client(p, st) == [of |-> p, key |-> Key(p, st)]

(* load_provider_settings: without a file the whole catalog; else the saved   *)
(* providers, the user's own and the built-in ones that have a credential.    *)
Known(st, cat, sv) ==
  IF sv = {None} THEN Builtin \union cat
  ELSE (sv \intersect Builtin) \union cat \union {p \in Builtin : Usable(p, st)}

Top == [at |-> "prompt", of |-> None]
Methods == [at |-> "methods", of |-> None]

(* _resolve_tui_startup_selection, without a choice on the command line.      *)
Selected(p, resumed) ==
  LET known == Known(stored, catalog, saved)
  IN IF resumed /\ current \in known THEN p = current
     ELSE IF default \in known /\ Usable(default, stored) THEN p = default
     ELSE IF \E q \in known : Usable(q, stored) THEN p \in known /\ Usable(p, stored)
     ELSE IF default \in known THEN p = default ELSE p \in known

(* run_tui_app: a client that cannot be built is replaced by a request to log *)
(* in, and leaves the session without a runtime configuration.                *)
Start(resumed) ==
  /\ \E p \in Provider :
       /\ Selected(p, resumed) /\ current' = p
       /\ client' = IF Builds(p, stored) THEN Client(p, stored) ELSE None
  /\ mem' = Known(stored, catalog, saved)
  /\ screen' = Top /\ told' = (IF resumed THEN "resumed" ELSE "started") /\ failed' = FALSE
  /\ UNCHANGED files

Init ==
  /\ stored = [p \in Provider |-> None] /\ catalog = {} /\ saved = {None} /\ default = First
  /\ mem = Builtin /\ failed = FALSE /\ screen = Top /\ told = "started"
  /\ \E p \in Builtin :
       /\ IF First \in Env \/ Env \intersect Builtin = {} THEN p = First ELSE p \in Env
       /\ current = p /\ client = IF Builds(p, stored) THEN Client(p, stored) ELSE None

---------------------------------------------------------------------------
(* The screens.                                                               *)
Show(at, of) == screen' = [at |-> at, of |-> of] /\ UNCHANGED <<files, session, told, failed>>

OpenMethods == screen = Top /\ Show("methods", None)
PickMethod ==
  /\ screen = Methods
  /\ \/ OAuth # {} /\ Show("subscription", None)
     \/ ApiKey # {} /\ Show("api-key", None)
     \/ Show("custom", None)

(* _open_login: OAuth when that is the method, or the only one there is.      *)
OpenLogin(p, method) ==
  IF method = "subscription" \/ (method = None /\ p \notin ApiKey)
  THEN Show("oauth", p) ELSE Show("key", p)
PickProvider(p) ==
  \/ screen.at = "subscription" /\ p \in OAuth /\ OpenLogin(p, "subscription")
  \/ screen.at = "api-key" /\ p \in ApiKey /\ OpenLogin(p, "api-key")
LoginCommand(p) == screen = Top /\ OpenLogin(p, None)
CustomCommand == screen = Top /\ Show("custom", None)

Back == screen.at \in {"subscription", "api-key", "custom", "key", "oauth"} /\ Show("methods", None)
Close == screen # Top /\ Show("prompt", None)

---------------------------------------------------------------------------
(* reload_provider_settings builds the client of the provider in use again;   *)
(* when it cannot, the session keeps what it had and the caller fails.        *)
Reloads(st) == client = None \/ Builds(current, st)
Rebuilt(st) == IF client = None THEN None ELSE Client(current, st)

(* _handle_login_result, and the same for OAuth and for a custom provider:    *)
(* the writes in order, of which the first so many succeed.                   *)
Connect(p, key, cat, done) ==
  LET st == IF done > 0 THEN [stored EXCEPT ![p] = key] ELSE stored
      known == Known(st, cat, saved) \union {p}
      connects == done = 2 /\ Reloads(st)
  IN /\ stored' = st /\ catalog' = cat
     /\ saved' = (IF done = 2 THEN known ELSE saved)
     /\ mem' = (IF connects THEN known ELSE mem)
     /\ current' = (IF connects THEN p ELSE current)
     /\ client' = (IF connects THEN Client(p, st) ELSE client)
     /\ told' = (IF connects THEN "saved" ELSE "not saved")
     /\ failed' = ((failed /\ ~connects) \/ done < 2)
     /\ screen' = Top /\ UNCHANGED default

SubmitKey(key, done) ==
  screen.at = "key" /\ Connect(screen.of, key, catalog, done)
OAuthDone(key, done) ==
  screen.at = "oauth" /\ Connect(screen.of, key, catalog, done)

(* Mutant: the key is written before the definition.                          *)
SubmitCustomKeyFirst(p, key, done) ==
  /\ screen.at = "custom" /\ p \in Custom
  /\ Connect(p, key, IF done = 2 THEN catalog \union {p} ELSE catalog, done)

(* The custom provider's definition is written before its key.                *)
SubmitCustom(p, key, done) ==
  /\ screen.at = "custom" /\ p \in Custom
  /\ Connect(p, key, catalog \union {p}, done)
CustomFails(p) ==
  /\ screen.at = "custom" /\ p \in Custom /\ screen' = Top /\ told' = "not saved"
  /\ failed' = TRUE /\ UNCHANGED <<files, session>>

(* _logout, from the picker of stored credentials or by name.                 *)
OpenLogout == screen = Top /\ (\E p \in Builtin : stored[p] # None) /\ Show("logout", None)
Logout(p) ==
  /\ screen.at \in {"prompt", "logout"} /\ p \in Builtin /\ screen' = Top
  /\ \/ /\ stored[p] = None /\ told' = "none stored" /\ UNCHANGED <<files, session, failed>>
     \/ /\ stored[p] # None /\ told' = "not removed" /\ failed' = TRUE
        /\ UNCHANGED <<files, session>>
     \/ /\ stored[p] # None /\ stored' = [stored EXCEPT ![p] = None]
        /\ told' = (IF Reloads(stored') THEN "removed" ELSE "not removed")
        /\ mem' = (IF Reloads(stored') THEN Known(stored', catalog, saved) ELSE mem)
        /\ client' = (IF Reloads(stored') THEN Rebuilt(stored') ELSE client)
        /\ UNCHANGED <<catalog, saved, default, current, failed>>

(* /model: the settings are read again, and a model of a usable provider is   *)
(* chosen and remembered.                                                     *)
ModelCommand(p) ==
  /\ screen = Top /\ UNCHANGED <<stored, catalog, screen>>
  /\ \/ /\ ~Reloads(stored) /\ told' = "not refreshed"
        /\ UNCHANGED <<saved, default, session, failed>>
     \/ /\ Reloads(stored) /\ p \in Known(stored, catalog, saved) /\ Usable(p, stored)
        /\ mem' = Known(stored, catalog, saved) /\ saved' = mem' /\ default' = p
        /\ current' = p /\ client' = Client(p, stored) /\ failed' = FALSE /\ told' = "chosen"

Next ==
  \/ (\E resumed \in BOOLEAN : Start(resumed)) \/ OpenMethods \/ PickMethod
  \/ (\E p \in Builtin : PickProvider(p) \/ LoginCommand(p) \/ Logout(p))
  \/ CustomCommand \/ Back \/ Close \/ OpenLogout
  \/ (\E key \in Secret, done \in 0..2 : SubmitKey(key, done) \/ OAuthDone(key, done))
  \/ (\E p \in Custom, key \in Secret, done \in 0..2 : SubmitCustom(p, key, done))
  \/ (\E p \in Custom : CustomFails(p)) \/ (\E p \in Provider : ModelCommand(p))

Spec == Init /\ [][Next]_vars

---------------------------------------------------------------------------
(* A key that was stored belongs to a provider Tau knows, whatever write      *)
(* failed after or before it: nobody's key lies in the file unseen.           *)
StoredKeyIsReachable == \A p \in Provider : stored[p] # None => p \in Known(stored, catalog, saved)

(* The client of a session works with the key that is stored now, through     *)
(* logins, logouts and choices of a model, unless a write failed.             *)
KeyInUseIsStored ==
  ~failed /\ client # None /\ stored[current] # None => client = Client(current, stored)

(* A start asks for a login only when no provider it knows has a key.         *)
StartFindsLogin ==
  told = "started" /\ client = None =>
    \A p \in Known(stored, catalog, saved) : ~Usable(p, stored)

(* website/content/reference/slash-commands.md:24: /login connects a          *)
(* provider: a login all of whose writes were done is not reported as failed. *)
LoginConnects == told = "not saved" => failed

(* Logins, logouts and choices of a model, each write of which may fail, and  *)
(* restarts between them never lose a key, use a wrong one or pass one over.  *)
LoginsHold == StoredKeyIsReachable /\ KeyInUseIsStored /\ StartFindsLogin
=============================================================================

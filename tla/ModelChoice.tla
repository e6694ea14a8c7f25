---------------------------- MODULE ModelChoice ----------------------------
(* The model, the thinking level and the route of a session               *)
(* (tau_coding/session.py), the client built for them, and the settings   *)
(* file that remembers them for other sessions.  A choice may be made      *)
(* while a request is under way: a request keeps the client it began with, *)
(* and the headers of its response may pin the route of the router's      *)
(* models.  Choices await nothing; other processes change the file.        *)
EXTENDS Naturals, FiniteSets

CONSTANTS ProviderOf,  \* [model -> provider]: the catalog
          Levels,      \* [model -> thinking levels it supports]
          Default,     \* [model -> the catalog's default level]
          Configured,  \* [model -> route the preferences configure, or None]
          Router,      \* the provider whose routes are pinned
          Route, None

Model == DOMAIN ProviderOf
Level == UNION {Levels[m] : m \in Model}

ModelChoiceAssumption ==
  /\ \A m \in Model : Levels[m] # {} => Default[m] \in Levels[m]
  /\ \A m \in Model : ProviderOf[m] # Router => Configured[m] = None

VARIABLES file,     \* what the settings file remembers
          mem,      \* the settings this session read last
          usable,   \* providers with usable credentials
          model, level, route,
          client,   \* what the runtime provider was built for
          request,  \* the model of the request under way
          index,    \* the route in the session's record of the index
          torn      \* what a choice that failed halfway left behind

vars == <<file, mem, usable, model, level, route, client, request, index, torn>>

Built(m, l, r)  == [provider |-> ProviderOf[m], level |-> l, route |-> r]
Init == \E m \in Model :
  \E l \in IF Levels[m] = {} THEN Level ELSE Levels[m] :
    /\ file = [remembered |-> [n \in Model |-> None], scoped |-> {}]
    /\ mem = file /\ usable = {ProviderOf[n] : n \in Model}
    /\ model = m /\ level = l /\ route = Configured[m]
    /\ client = Built(m, l, Configured[m])
    /\ request = None /\ index = Configured[m]
    /\ torn = {}

(* _coerced_thinking_level                                                *)
Coerced(m, current, preferred) ==
  IF Levels[m] = {} \/ current \in Levels[m] THEN current
  ELSE IF preferred \in Levels[m] THEN preferred ELSE Default[m]

(* save_default_provider_model and save_provider_thinking_level: the file  *)
(* is read again, one choice is changed in it, and the result is kept.     *)
(* Which model other sessions start with is left out.                      *)
Save(changed) == file' = changed /\ mem' = changed

(* set_model: a model of the same provider.  Building the client may fail  *)
(* after the model, the route and the level were changed.                  *)
SetModel(m) ==
  /\ ProviderOf[m] = ProviderOf[model]
  /\ model' = m /\ route' = Configured[m]
  /\ level' = Coerced(m, level, mem.remembered[m])
  /\ \/ /\ ProviderOf[m] \in usable
        /\ client' = Built(m, level', route')
        /\ Save(file)
        /\ index' = route'
        /\ torn' = {}
     \/ /\ ProviderOf[m] \notin usable /\ torn' = {"client", "index"}
        /\ UNCHANGED <<file, mem, client, index>>
  /\ UNCHANGED <<usable, request>>

(* _set_provider_model: nothing changes unless the client can be built.    *)
SetProviderModel(m) ==
  /\ ProviderOf[m] # ProviderOf[model] /\ ProviderOf[m] \in usable
  /\ model' = m /\ route' = Configured[m]
  /\ level' = Coerced(m, level, None)
  /\ client' = Built(m, level', route')
  /\ Save(file)
  /\ index' = route'
  /\ torn' = {}
  /\ UNCHANGED <<usable, request>>

(* cycle_scoped_model chooses among the scoped models that are usable.     *)
CycleScopedModel ==
  \E m \in mem.scoped : ProviderOf[m] \in usable /\ (SetModel(m) \/ SetProviderModel(m))

ToggleScopedModel(m) ==
  /\ ProviderOf[m] \in usable
  /\ Save([file EXCEPT !.scoped = IF m \in @ THEN @ \ {m} ELSE @ \union {m}])
  /\ UNCHANGED <<usable, model, level, route, client, request, index, torn>>

(* set_thinking_level: on a failure the previous level is restored.        *)
SetThinkingLevel(l) ==
  /\ l \in Levels[model] /\ l # level /\ ProviderOf[model] \in usable
  /\ level' = l /\ client' = Built(model, l, route) /\ torn' = torn \ {"client"}
  /\ Save([file EXCEPT !.remembered[model] = l])
  /\ UNCHANGED <<usable, model, route, request, index>>

(* Mutant: the client in use keeps its route.                              *)
SetRouteOnly(r) ==
  /\ ProviderOf[model] = Router /\ Router \in usable
  /\ route' = r /\ index' = r /\ torn' = {}
  /\ UNCHANGED <<file, mem, usable, model, level, client, request>>

(* set_inference_provider: /route                                          *)
SetRoute(r) ==
  /\ ProviderOf[model] = Router /\ Router \in usable
  /\ client' = Built(model, level, r) /\ torn' = {}
  /\ route' = r /\ index' = r
  /\ UNCHANGED <<file, mem, usable, model, level, request>>

(* reload_provider_settings: after a login, and for the model picker; the  *)
(* settings and the level are restored when the client cannot be built.    *)
ReloadSettings ==
  /\ ProviderOf[model] \in usable
  /\ mem' = file
  /\ level' = Coerced(model, level, file.remembered[model])
  /\ client' = Built(model, level', route) /\ torn' = torn \ {"client"}
  /\ UNCHANGED <<file, usable, model, route, request, index>>

---------------------------------------------------------------------------
(* Requests                                                                *)

Request ==
  /\ request = None
  /\ request' = model
  /\ UNCHANGED <<file, mem, usable, model, level, route, client, index, torn>>

(* A stream completed: if it went through a client of the router that was  *)
(* given an observer, the observer pins the route of the response, unless  *)
(* the session has left the router or has a route by now.                  *)
Respond(r) ==
  /\ request # None /\ request' = None
  /\ LET pins == /\ ProviderOf[request] = Router
                 /\ ProviderOf[model] = Router /\ route = None
     IN  \/ /\ pins /\ r # None /\ Router \in usable
            /\ route' = r /\ client' = Built(model, level, r) /\ torn' = {}
            /\ index' = r
         \/ /\ ~pins \/ r = None \/ Router \notin usable
            /\ UNCHANGED <<route, client, torn, index>>
  /\ UNCHANGED <<file, mem, usable, model, level>>

---------------------------------------------------------------------------
(* A login or a logout, and a choice of another process                    *)
CredentialsChange ==
  /\ usable' \in SUBSET {ProviderOf[m] : m \in Model}
  /\ UNCHANGED <<file, mem, model, level, route, client, request, index, torn>>

ChangeElsewhere ==
  /\ \E m \in Model : \E l \in Levels[m] : file' = [file EXCEPT !.remembered[m] = l]
  /\ UNCHANGED <<mem, usable, model, level, route, client, request, index, torn>>

Next == \/ CycleScopedModel \/ ReloadSettings \/ Request \/ CredentialsChange \/ ChangeElsewhere
        \/ \E m \in Model : SetModel(m) \/ SetProviderModel(m) \/ ToggleScopedModel(m)
        \/ \E l \in Level : SetThinkingLevel(l)
        \/ \E r \in Route \union {None} : SetRoute(r) \/ Respond(r)

Spec == Init /\ [][Next]_vars

---------------------------------------------------------------------------
(* The client that sends the next request was built for the provider, the *)
(* level and the route the session shows, whatever was chosen, pinned or   *)
(* reloaded before, except after a choice that failed halfway; and the     *)
(* index holds the route with which a resumed session will start.          *)
ClientIsShown ==
  /\ client.provider = ProviderOf[model]
  /\ "client" \notin torn => client = Built(model, level, route)
  /\ "index" \notin torn => index = route
=============================================================================

---------------------------- MODULE CatalogOverlay ----------------------------
(* What Tau knows of one built-in provider (tau_coding/provider_config.py,    *)
(* catalog_loader.py): the bundled catalog, which changes with a release; the *)
(* entry of the user's catalog.toml that is laid over it; and the preferences *)
(* in providers.json.  Every change of a preference loads all three, and      *)
(* saves the preferences and, if the definition looks changed, the entry.     *)
EXTENDS Naturals, FiniteSets

CONSTANTS Model, Level, Url,
          Releases,      \* bundled definitions: [models, default, removed, levels, url, headers]
          OwnUrl, None,
          Names          \* of headers; the user's own is "own"

(* What providers.json says of the provider.                                  *)
HeaderValue == {None, "set"} \union {r.headers[n] : r \in Releases, n \in Names}
Preferences == [default : Model, headers : [Names -> HeaderValue],
                thinking : [Model -> Level \union {None}]]

ReleasesAssumption ==
  /\ \A r \in Releases : r.default \in r.models \ r.removed /\ r.models \subseteq Model
                         /\ r.levels \subseteq Level /\ r.url \in Url
  /\ None \notin Model \union Preferences

VARIABLES bundled,   \* the definition of the installed release
          entry,     \* the user's catalog entry: absent fields are None
          prefs,     \* the saved preferences, or None
          wrote,     \* what the user wrote into the entry: [url, removed]
          chosen,    \* the model the user chose last, or None
          styled     \* headers that are not the catalog's came into play

vars == <<bundled, entry, prefs, wrote, chosen, styled>>

NoHeaders == [n \in Names |-> None]
NoEntry == [url |-> None, models |-> {}, default |-> None, levels |-> None,
            headers |-> NoHeaders, removed |-> {}]

Init == /\ bundled \in Releases /\ entry = NoEntry /\ prefs = None
        /\ wrote = [url |-> None, removed |-> {}] /\ chosen = None /\ styled = FALSE

---------------------------------------------------------------------------
Or(value, other) == IF value = None THEN other ELSE value
Over(base, over) == [n \in Names |-> Or(over[n], base[n])]

(* _merge_raw_provider: the entry's fields replace, models and tombstones add *)
Merged == [models |-> entry.models \union bundled.models,
           removed |-> entry.removed \union bundled.removed,
           default |-> Or(entry.default, bundled.default),
           levels |-> Or(entry.levels, bundled.levels),
           url |-> Or(entry.url, bundled.url),
           headers |-> Over(bundled.headers, entry.headers)]

(* Mutant: the default stays although its model is removed.                   *)
TombstonedModels(d) == [d EXCEPT !.models = @ \ d.removed]

(* _apply_model_tombstones, last                                              *)
Tombstoned(d) ==
  LET left == d.models \ d.removed
  IN  [d EXCEPT !.models = left,
                !.default = IF @ \notin d.removed THEN @
                            ELSE IF bundled.default \notin d.removed THEN bundled.default
                            ELSE IF left = {} THEN None ELSE CHOOSE m \in left : TRUE]
Effective == Tombstoned(Merged)
CatalogValid(d) == d.default \in d.models

(* _apply_provider_preference, _merge_provider_config: the definition in      *)
(* effect with the preferences; models that are gone are passed over.         *)
Thinking(d) == [m \in Model |-> IF prefs # None /\ m \in d.models THEN prefs.thinking[m] ELSE None]
Provider(d) ==
  [models |-> d.models, url |-> d.url, levels |-> d.levels,
   default |-> IF prefs # None /\ prefs.default \in d.models THEN prefs.default ELSE d.default,
   headers |-> IF prefs = None THEN d.headers ELSE Over(d.headers, prefs.headers),
   thinking |-> Thinking(d)]

(* _thinking_defaults_dict raises on a level its model does not take.         *)
Loads == /\ CatalogValid(Effective)
         /\ \A m \in Model : Thinking(Effective)[m] \in Effective.levels \union {None}

(* upsert_provider of the bundled definition: merged under what was loaded.   *)
Upserted(p) == [p EXCEPT !.models = @ \union (bundled.models \ bundled.removed),
                         !.url = bundled.url]

(* _provider_definition_differs_from_catalog                                  *)
Differs(p) == \/ p.url # Effective.url \/ p.models # Effective.models
              \/ p.headers # Effective.headers \/ p.levels # Effective.levels

(* _catalog_entry_from_provider: the whole provider, without its tombstones   *)
Snapshot(p) ==
  [url |-> p.url, models |-> p.models, levels |-> p.levels, headers |-> p.headers,
   default |-> IF Effective.default \in p.models THEN Effective.default ELSE p.default,
   removed |-> {}]

(* save_provider_settings                                                     *)
Save(p) ==
  /\ entry' = IF Differs(p) THEN Snapshot(p) ELSE entry
  /\ prefs' = [default |-> p.default, headers |-> p.headers, thinking |-> p.thinking]

---------------------------------------------------------------------------
(* /model, /thinking and /login, each a load and a save                       *)
SetDefault(m) ==
  /\ Loads /\ m \in Effective.models
  /\ Save([Provider(Effective) EXCEPT !.default = m])
  /\ chosen' = m /\ UNCHANGED <<bundled, wrote, styled>>

(* What a save writes becomes the choice when the chosen model is gone.       *)
Kept == IF chosen \in Effective.models THEN chosen ELSE None

SetThinking(m, l) ==
  /\ Loads /\ m \in Effective.models /\ l \in Effective.levels
  /\ Save([Provider(Effective) EXCEPT !.thinking[m] = l])
  /\ chosen' = Kept /\ UNCHANGED <<bundled, wrote, styled>>

Login ==
  /\ Loads /\ Save(Upserted(Provider(Effective)))
  /\ chosen' = Kept /\ UNCHANGED <<bundled, wrote, styled>>

(* A release is installed; the user edits catalog.toml or providers.json.     *)
Upgrade(r) ==
  /\ r # bundled /\ bundled' = r
  /\ styled' = (styled \/ (r.headers # bundled.headers /\ prefs # None))
  /\ UNCHANGED <<entry, prefs, wrote, chosen>>

EditEntry(u, gone) ==
  /\ wrote = [url |-> None, removed |-> {}] /\ [url |-> u, removed |-> gone] # wrote
  /\ bundled.models \ (bundled.removed \union gone) # {}
  /\ wrote' = [url |-> u, removed |-> gone]
  /\ entry' = [entry EXCEPT !.url = Or(u, @), !.removed = @ \union gone]
  /\ UNCHANGED <<bundled, prefs, chosen, styled>>

EditHeader(value) ==
  /\ prefs # None /\ prefs.headers["own"] # value
  /\ prefs' = [prefs EXCEPT !.headers["own"] = value]
  /\ styled' = TRUE /\ UNCHANGED <<bundled, entry, wrote, chosen>>

Next == \/ (\E m \in Model : SetDefault(m)) \/ (\E m \in Model, l \in Level : SetThinking(m, l))
        \/ Login \/ (\E r \in Releases : Upgrade(r))
        \/ (\E u \in {None, OwnUrl}, gone \in SUBSET Model : EditEntry(u, gone))
        \/ (\E value \in {None, "set"} : EditHeader(value))

Spec == Init /\ [][Next]_vars

---------------------------------------------------------------------------
(* What Tau writes into the user's catalog is valid with every release: the   *)
(* default it arrives at is one of the models that are left.                  *)
CatalogStaysValid == Effective.models # {} => CatalogValid(Effective)

(* The model chosen last is the one Tau starts with while it is offered,      *)
(* whatever was upgraded, edited, merged or saved since.                      *)
ChoiceIsKept == chosen \in Effective.models => Provider(Effective).default = chosen

(* A definition nobody changed is left to the release: saves do not copy it   *)
(* into the user's catalog.                                                   *)
DefinitionsStayBundled ==
  ~styled /\ wrote = [url |-> None, removed |-> {}] => entry = NoEntry

(* Releases, the user's edits and Tau's own saves, in any order, leave a      *)
(* catalog that is valid, the choice of the user in effect, and what nobody   *)
(* changed to the release.                                                    *)
ChoicesSurvive == CatalogStaysValid /\ ChoiceIsKept /\ DefinitionsStayBundled
=============================================================================

----------------------------- MODULE UserFiles -----------------------------
(* The files a user's processes share, each with the code that keeps it, and *)
(* the logins that fill them.  They have no state in common, so a behaviour  *)
(* is one of one part, chosen at the start.                                  *)
EXTENDS Naturals

CONSTANTS Proc, NoProc, Cwd, Parent, None, Malformed,  \* TrustStore
          Dir, Id, Orphans, Torn,                      \* SessionIndex
          Task, MaxTokens,                             \* Credentials
          MaxFlows, MaxTime,                           \* OAuthLogin
          Legacy, Added,                               \* ProviderFiles
          Model, Level, Url, Releases, OwnUrl, Names,  \* CatalogOverlay
          Builtin, Custom, ApiKey, OAuth, Lazy, First, \* ProviderLogin
          Env, Secret, EnvKey

VARIABLES part,
          data, journal, disk, holder, pc, change, answer, ledger,
          index, transcript, indexTask, owner,
          file, other, rereads, lock, task, saving, issued, spent, lost, logout,
          flow, at, server, future, posted, typed, used, clock, device,
          defined, settings, backup, doing, adds, held, seen, owned, overlapped,
          bundled, entry, prefs, wrote, chosen, styled,
          stored, catalog, saved, default, mem, current, client, screen, told, failed

trustVars   == <<data, journal, disk, holder, pc, change, answer, ledger>>
indexVars   == <<index, transcript, indexTask, owner>>
credVars    == <<file, other, rereads, lock, task, saving, issued, spent, lost, logout>>
flowVars    == <<flow, at, server, future, posted, typed, used, clock, device>>
filesVars   == <<defined, settings, backup, doing, adds, held, seen, owned, overlapped>>
overlayVars == <<bundled, entry, prefs, wrote, chosen, styled>>
loginVars   == <<stored, catalog, saved, default, mem, current, client, screen, told, failed>>
vars == <<part, trustVars, indexVars, credVars, flowVars, filesVars, overlayVars, loginVars>>

\* both tasks that ask for a credential run in one process
TheProcess == CHOOSE p \in Proc : TRUE
Home       == [t \in Task |-> TheProcess]

T == INSTANCE TrustStore
I == INSTANCE SessionIndex WITH task <- indexTask
C == INSTANCE Credentials WITH Proc <- {TheProcess}
O == INSTANCE OAuthLogin
F == INSTANCE ProviderFiles WITH catalog <- defined, file <- settings, at <- doing
B == INSTANCE CatalogOverlay
L == INSTANCE ProviderLogin

ASSUME PartsAssumption ==
    /\ T!StoreAssumption /\ T!Ledger!LedgerAssumption /\ I!IndexAssumption
    /\ C!CredentialsAssumption /\ O!LoginAssumption /\ F!FilesAssumption
    /\ B!ReleasesAssumption /\ L!LoginAssumption

Init == /\ part \in {"trust", "index", "credentials", "flow", "files", "overlay", "login"}
        /\ T!Init /\ (part # "trust" => data = None)
        /\ I!Init
        /\ C!Init /\ (part # "credentials" => file = None /\ rereads)
        /\ O!Init
        /\ F!Init /\ (part # "files" => settings = F!Absent)
        /\ B!Init /\ (part # "overlay" => bundled = CHOOSE r \in Releases : TRUE)
        /\ L!Init

Next ==
  \/ /\ part = "trust" /\ T!Next
     /\ UNCHANGED <<part, indexVars, credVars, flowVars, filesVars, overlayVars, loginVars>>
  \/ /\ part = "index" /\ I!Next
     /\ UNCHANGED <<part, trustVars, credVars, flowVars, filesVars, overlayVars, loginVars>>
  \/ /\ part = "credentials" /\ C!Next
     /\ UNCHANGED <<part, trustVars, indexVars, flowVars, filesVars, overlayVars, loginVars>>
  \/ /\ part = "flow" /\ O!Next
     /\ UNCHANGED <<part, trustVars, indexVars, credVars, filesVars, overlayVars, loginVars>>
  \/ /\ part = "files" /\ F!Next
     /\ UNCHANGED <<part, trustVars, indexVars, credVars, flowVars, overlayVars, loginVars>>
  \/ /\ part = "overlay" /\ B!Next
     /\ UNCHANGED <<part, trustVars, indexVars, credVars, flowVars, filesVars, loginVars>>
  \/ /\ part = "login" /\ L!Next
     /\ UNCHANGED <<part, trustVars, indexVars, credVars, flowVars, filesVars, overlayVars>>

Spec == Init /\ [][Next]_vars /\ C!Fairness

LoginSpec == Init /\ part = "login" /\ [][Next]_vars

\* what these say stands in the modules
ImplementsLedger   == T!ImplementsLedger
ReservedOnce       == I!ReservedOnce
SpentOnce          == C!SpentOnce
AsksSettle         == C!AsksSettle
LoginIsItsOwn      == O!LoginIsItsOwn
DefinitionsSurvive == F!DefinitionsSurvive
ChoicesSurvive     == B!ChoicesSurvive
LoginsHold         == L!LoginsHold
LoginConnects      == L!LoginConnects
=============================================================================

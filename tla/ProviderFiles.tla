---------------------------- MODULE ProviderFiles ----------------------------
(* The two files that hold a user's providers: catalog.toml with the         *)
(* definitions, providers.json with the preferences                          *)
(* (tau_coding/provider_config.py, catalog_loader.py).  An old providers.json *)
(* holds the definitions too; the first load moves them to the catalog.      *)
(* Every process of the user reads and replaces both files without a lock,   *)
(* each by an atomic rename, and may be killed between two of its steps.     *)
EXTENDS Naturals, FiniteSets

CONSTANTS Proc,
          Legacy,  \* custom providers of the old file
          Added,   \* custom providers users set up later
          None

Definitions == Legacy \union Added

FilesAssumption == None \notin Added

(* providers.json: absent, in the old form with definitions, or in the new   *)
(* form with references to the catalog                                       *)
File == [form : {"absent", "old", "new"}, names : SUBSET Definitions]
Absent == [form |-> "absent", names |-> {}]

VARIABLES catalog,   \* custom definitions in catalog.toml
          file,      \* providers.json
          backup,    \* providers.json.bak
          at, adds,  \* per process: the next step, the provider it sets up
          held,      \* per process: settings it loaded
          seen,      \* per process: the catalog it read before replacing it
          owned,     \* providers the user has, by an old file or a setup
          overlapped \* a setup ran while another process was changing files

private == <<at, adds, held, seen>>
vars == <<catalog, file, backup, private, owned, overlapped>>

Init == /\ catalog = {} /\ backup = Absent /\ overlapped = FALSE
        /\ file \in {Absent, [form |-> "old", names |-> Legacy]}
        /\ owned = file.names
        /\ at = [p \in Proc |-> "idle"] /\ adds = [p \in Proc |-> None]
        /\ held = [p \in Proc |-> {}] /\ seen = [p \in Proc |-> {}]

Goto(p, l) == at' = [at EXCEPT ![p] = l]
Busy == {p \in Proc : at[p] # "idle"}

(* load_provider_settings: what an old file defines, or what the new one      *)
(* refers to and the catalog still defines                                    *)
Loaded == IF file.form = "old" THEN file.names ELSE file.names \intersect catalog

(* A process starts; an old file makes it migrate.                            *)
Load(p) ==
  /\ at[p] = "idle" /\ file.form = "old"
  /\ held' = [held EXCEPT ![p] = Loaded] /\ Goto(p, "keep_old")
  /\ overlapped' = (overlapped \/ \E q \in Busy : adds[q] # None)
  /\ UNCHANGED <<catalog, file, backup, adds, seen, owned>>

(* upsert_saved_provider: the latest settings are loaded and one is added.    *)
Upsert(p, c) ==
  /\ at[p] = "idle" /\ file.form # "old" /\ c \notin owned
  /\ adds' = [adds EXCEPT ![p] = c]
  /\ held' = [held EXCEPT ![p] = Loaded \union {c}] /\ Goto(p, "read_catalog")
  /\ overlapped' = (overlapped \/ Busy # {})
  /\ UNCHANGED <<catalog, file, backup, seen, owned>>

(* _backup_provider_settings, strict before a migration                       *)
KeepOld(p) ==
  /\ at[p] = "keep_old"
  /\ backup' = file
  /\ Goto(p, "read_catalog")
  /\ UNCHANGED <<catalog, file, adds, held, seen, owned, overlapped>>

(* Mutant: one definition that is there is taken for all of them.             *)
ReadCatalogOnce(p) ==
  /\ at[p] = "read_catalog"
  /\ seen' = [seen EXCEPT ![p] = catalog]
  /\ Goto(p, IF held[p] \intersect catalog # {} THEN "keep_last" ELSE "write_catalog")
  /\ UNCHANGED <<catalog, file, backup, adds, held, owned, overlapped>>

(* save_user_catalog_entries reads the catalog and replaces it; without a     *)
(* definition that is missing there it is not called.                         *)
ReadCatalog(p) ==
  /\ at[p] = "read_catalog"
  /\ seen' = [seen EXCEPT ![p] = catalog]
  /\ Goto(p, IF held[p] \subseteq catalog THEN "keep_last" ELSE "write_catalog")
  /\ UNCHANGED <<catalog, file, backup, adds, held, owned, overlapped>>

WriteCatalog(p) ==
  /\ at[p] = "write_catalog"
  /\ catalog' = seen[p] \union held[p]
  /\ Goto(p, "keep_last")
  /\ UNCHANGED <<file, backup, adds, held, seen, owned, overlapped>>

(* A save that is no migration keeps the file it replaces, if it can.         *)
KeepLast(p) ==
  /\ at[p] = "keep_last"
  /\ backup' \in {backup} \union
       (IF adds[p] = None \/ file = Absent THEN {} ELSE {file})
  /\ Goto(p, "write_file")
  /\ UNCHANGED <<catalog, file, adds, held, seen, owned, overlapped>>

(* _write_provider_settings                                                   *)
WriteFile(p) ==
  /\ at[p] = "write_file"
  /\ file' = [form |-> "new", names |-> held[p]]
  /\ owned' = IF adds[p] = None THEN owned ELSE owned \union {adds[p]}
  /\ adds' = [adds EXCEPT ![p] = None] /\ Goto(p, "idle")
  /\ UNCHANGED <<catalog, backup, held, seen, overlapped>>

(* The process is killed, or a write fails and the temporary file is removed. *)
Stop(p) ==
  /\ at[p] # "idle" /\ Goto(p, "idle")
  /\ adds' = [adds EXCEPT ![p] = None]
  /\ UNCHANGED <<catalog, file, backup, held, seen, owned, overlapped>>

Next == \E p \in Proc :
  \/ Load(p) \/ KeepOld(p) \/ ReadCatalog(p) \/ WriteCatalog(p) \/ KeepLast(p)
  \/ WriteFile(p) \/ Stop(p) \/ \E c \in Added : Upsert(p, c)

Spec == Init /\ [][Next]_vars

---------------------------------------------------------------------------
(* No definition is lost, wherever a process stops and however migrations     *)
(* overlap: every provider the user has is in the catalog or still in the old *)
(* file.  (A setup that overlaps another change may lose one: no lock.)       *)
DefinitionsSurvive ==
  overlapped \/ owned \subseteq catalog \union (IF file.form = "old" THEN file.names ELSE {})
=============================================================================

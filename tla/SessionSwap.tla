---------------------------- MODULE SessionSwap ----------------------------
(* How a coding session is opened, reloaded and replaced: the decision      *)
(* whether a project's own resources may be used (ProjectTrustCoordinator), *)
(* the staging of a new extension runtime and of the resources, the         *)
(* lifecycle handlers of both runtimes, and the publication of the result   *)
(* (CodingSession.load, reload, resume, new_session, _adopt_replacement).   *)
(* An operation may be cancelled, or fail, at each of its awaits; what lies *)
(* between two awaits is one step, also for the file system.  The interface *)
(* starts operations from two tasks, the prompt's and a worker's, and       *)
(* nothing makes one wait for the other.  What a resource says is left out: *)
(* a session has read project resources or it has not.                      *)
EXTENDS Naturals

CONSTANTS Dir,         \* project directories
          Task,        \* the tasks that may have an operation in progress
          None,        \* no operation, no decision, no cached resolution
          Policies,    \* settings of an invocation, see Policy
          MaxRuntimes  \* bound: extension runtimes ever staged

Policy == [override : {None, "approve", "decline"}, default : {"ask", "always", "never"},
           interactive : BOOLEAN, projectExtensions : BOOLEAN]

Runtime == 1 .. MaxRuntimes

Trusts == [trusted : BOOLEAN, had : BOOLEAN, cancelled : BOOLEAN,
           source : {"override", "empty", "extension", "saved", "default", "ui"}]

Operations ==
    [kind : {"startup", "reload", "resume", "new"}, dir : Dir, runtime : Runtime,
     old : Runtime \union {None}, inputs : BOOLEAN, trust : Trusts \union {None},
     at : {"extensions", "prompt", "decided", "opening", "shutdown", "start"}]

Published == [session : Dir, dir : Dir, trust : Trusts \union {None}, inputs : BOOLEAN,
              runtime : Runtime]

SwapAssumption == /\ Policies \subseteq Policy /\ MaxRuntimes \in Nat
                  /\ None \notin Trusts \union Operations \union Published

VARIABLES policy,   \* the settings of this invocation
          files,    \* the directories that hold project resources
          saved,    \* the decision ProjectTrustStore.nearest finds, per directory
          cache,    \* ProjectTrustCoordinator._cache
          live,     \* what the session publishes, or None before it is opened
          rt,       \* the extension runtimes
          staged,   \* how many runtimes were ever made
          op        \* the operation each task has in progress, or None

vars == <<policy, files, saved, cache, live, rt, staged, op>>

Resolution(trusted, source, had, cancelled) ==
    [trusted |-> trusted, source |-> source, had |-> had, cancelled |-> cancelled]

NoRuntime == [active |-> FALSE, bound |-> "nothing", ui |-> FALSE,
              project |-> FALSE, stopped |-> FALSE, listens |-> FALSE]

Init == /\ policy \in Policies
        /\ files \in SUBSET Dir
        /\ saved = [d \in Dir |-> None]
        /\ cache = [d \in Dir |-> None]
        /\ live = None
        /\ rt = [r \in Runtime |-> NoRuntime]
        /\ staged = 0
        /\ op = [t \in Task |-> None]

(* ProtectedResourceDetector.detect: names and metadata only.                *)
Found(d) == d \in files

(* Mutant: the answer for an empty directory is kept until a reload.         *)
CachedAnyway(d, refresh) == cache[d] # None /\ (cache[d].had \/ ~refresh)

(* resolve, as far as it asks nobody: the cache, the override of the         *)
(* invocation, a directory without candidates.                               *)
Cached(d, refresh) == cache[d] # None /\ (cache[d].had \/ (~refresh /\ ~Found(d)))

Unasked(d, refresh) ==
    IF Cached(d, refresh) THEN cache[d]
    ELSE IF policy.override # None
         THEN Resolution(policy.override = "approve", "override", Found(d), FALSE)
    ELSE IF ~Found(d) THEN Resolution(TRUE, "empty", FALSE, FALSE)
    ELSE None

(* A fresh runtime with the user's and the explicit extensions is loaded     *)
(* before anything is decided.                                               *)
Stage(t, kind, d) ==
    LET refresh == kind = "reload"
    IN /\ op[t] = None
       /\ staged < MaxRuntimes
       /\ staged' = staged + 1
       /\ rt' = [rt EXCEPT ![staged + 1] = [NoRuntime EXCEPT !.active = TRUE]]
       /\ op' = [op EXCEPT ![t] = [kind |-> kind, dir |-> d, runtime |-> staged + 1,
                                   old |-> None, inputs |-> FALSE,
                                   trust |-> Unasked(d, refresh),
                                   at |-> IF Unasked(d, refresh) = None THEN "extensions"
                                                                        ELSE "decided"]]
       /\ UNCHANGED <<policy, files, saved, cache, live>>

Opened == live # None /\ \A t \in Task : op[t] # None => op[t].kind # "startup"

Load(t, d)    == live = None /\ op = [u \in Task |-> None] /\ Stage(t, "startup", d)
Reload(t)     == Opened /\ Stage(t, "reload", live.dir)
Resume(t, d)  == Opened /\ Stage(t, "resume", d)
NewSession(t) == Opened /\ Stage(t, "new", live.dir)

At(t, l)     == op[t] # None /\ op[t].at = l
Goto(t, l)   == op' = [op EXCEPT ![t].at = l]
Decide(t, r) == op' = [op EXCEPT ![t].at = "decided", ![t].trust = r]
Verdict(trusted) == IF trusted THEN "trusted" ELSE "untrusted"
Remember(t, trusted) == saved' = [saved EXCEPT ![op[t].dir] = Verdict(trusted)]

(* The extensions' project_trust handlers are awaited: the first that        *)
(* decides wins; a decision that cannot be saved as asked is a refusal.      *)
ExtensionDecides(t) ==
    /\ At(t, "extensions")
    /\ \E trusted, remember, fails \in BOOLEAN :
          /\ Decide(t, Resolution(trusted /\ ~(remember /\ fails), "extension", TRUE, FALSE))
          /\ IF remember /\ ~fails THEN Remember(t, trusted) ELSE UNCHANGED saved
    /\ UNCHANGED <<policy, files, cache, live, rt, staged>>

(* All defer: the saved decision, the default of the invocation, or the      *)
(* user.  A store that cannot be read never helps to grant.                  *)
ExtensionsDefer(t) ==
    /\ At(t, "extensions")
    /\ \E readable \in BOOLEAN :
         LET verdict == IF readable THEN saved[op[t].dir] ELSE None IN
         IF verdict # None
         THEN Decide(t, Resolution(verdict = "trusted", "saved", TRUE, FALSE))
         ELSE IF policy.default # "ask"
         THEN Decide(t, Resolution(policy.default = "always" /\ readable, "default", TRUE, FALSE))
         ELSE IF ~policy.interactive
         THEN Decide(t, Resolution(FALSE, "default", TRUE, FALSE))
         ELSE Goto(t, "prompt")
    /\ UNCHANGED <<policy, files, saved, cache, live, rt, staged>>

(* The prompt is answered for good, for this run, or dismissed.              *)
UserAnswers(t) ==
    /\ At(t, "prompt")
    /\ \/ \E trusted, fails \in BOOLEAN :
            /\ Decide(t, Resolution(trusted /\ ~fails, "ui", TRUE, FALSE))
            /\ IF fails THEN UNCHANGED saved ELSE Remember(t, trusted)
       \/ \E trusted \in BOOLEAN : /\ Decide(t, Resolution(trusted, "ui", TRUE, FALSE))
                                   /\ UNCHANGED saved
       \/ Decide(t, Resolution(FALSE, "ui", TRUE, TRUE)) /\ UNCHANGED saved
    /\ UNCHANGED <<policy, files, cache, live, rt, staged>>

(* The resources are read, and the project's extensions imported, as the     *)
(* decision allows.  A reload whose decision was dismissed stops here; else  *)
(* it awaits the old runtime's session_shutdown handlers, while a load still *)
(* writes repairs and asks the provider for its limits.                      *)
ReadResources(t) ==
    LET o      == op[t]
        reads  == o.trust.trusted /\ Found(o.dir)
    IN /\ At(t, "decided")
       /\ IF o.kind = "reload" /\ o.trust.cancelled
          THEN op' = [op EXCEPT ![t] = None] /\ UNCHANGED rt
          ELSE /\ op' = [op EXCEPT ![t].inputs = reads,
                                   ![t].at = IF o.kind = "reload" THEN "shutdown" ELSE "opening",
                                   ![t].old = IF o.kind = "reload" THEN live.runtime ELSE None]
               /\ rt' = [rt EXCEPT ![o.runtime].project = reads /\ policy.projectExtensions,
                                   ![o.runtime].ui = o.kind \in {"resume", "new"}
                                                        /\ rt[live.runtime].ui]
       /\ UNCHANGED <<policy, files, saved, cache, live, staged>>

Snapshot(o) == [session |-> o.dir, dir |-> o.dir, trust |-> o.trust,
                inputs |-> o.inputs, runtime |-> o.runtime]

(* load returns a session.  At startup it is the live one, and the interface *)
(* connects its runtime; a replacement whose decision was dismissed is       *)
(* closed, any other is adopted once the old runtime's handlers have run.    *)
LoadReturns(t) ==
    LET o == op[t]
        loaded == [rt[o.runtime] EXCEPT !.bound = "loaded", !.listens = TRUE]
    IN /\ At(t, "opening")
       /\ \/ /\ o.kind = "startup"
             /\ live' = Snapshot(o)
             /\ rt' = [rt EXCEPT ![o.runtime] =
                         [loaded EXCEPT !.bound = "session",
                                        !.ui = policy.interactive]]
             /\ Goto(t, "start")
          \/ /\ o.kind # "startup" /\ o.trust.cancelled
             /\ rt' = [rt EXCEPT ![o.runtime] = [loaded EXCEPT !.stopped = TRUE]]
             /\ op' = [op EXCEPT ![t] = None]
             /\ UNCHANGED live
          \/ /\ o.kind # "startup" /\ ~o.trust.cancelled
             /\ rt' = [rt EXCEPT ![o.runtime] = loaded]
             /\ op' = [op EXCEPT ![t].at = "shutdown", ![t].old = live.runtime]
             /\ UNCHANGED live
       /\ UNCHANGED <<policy, files, saved, cache, staged>>

(* The old runtime's session_shutdown handlers have run.  A reload hands the *)
(* interface to the staged runtime and binds it before its session_start.    *)
OldShutDown(t) ==
    LET o == op[t]
        told == [rt EXCEPT ![o.old].stopped = TRUE]
    IN /\ At(t, "shutdown")
       /\ rt' = IF o.kind = "reload"
                THEN [told EXCEPT ![o.runtime].ui = rt[o.old].ui, ![o.runtime].bound = "session"]
                ELSE told
       /\ Goto(t, "start")
       /\ UNCHANGED <<policy, files, saved, cache, live, staged>>

Commit(d, r) == cache' = [cache EXCEPT ![d] = r]

Retire(old, new) ==
    rt' = [r \in Runtime |->
             CASE r = new -> [rt[r] EXCEPT !.bound = "session", !.listens = TRUE]
               [] r = old /\ old # new -> [rt[r] EXCEPT !.active = FALSE, !.listens = FALSE]
               [] OTHER -> rt[r]]

(* The session_start handlers have run: commit, retire and publish in one    *)
(* step.  A reload keeps the session's transcript and storage, a replacement *)
(* brings its own.                                                           *)
Publish(t) ==
    LET o == op[t]
    IN /\ At(t, "start")
       /\ IF o.kind = "startup"
          THEN /\ IF o.trust.cancelled THEN UNCHANGED cache ELSE Commit(o.dir, o.trust)
               /\ UNCHANGED <<live, rt>>
          ELSE /\ Commit(o.dir, o.trust)
               /\ Retire(o.old, o.runtime)
               /\ live' = [Snapshot(o) EXCEPT
                             !.session = IF o.kind = "reload" THEN live.session ELSE o.dir]
       /\ op' = [op EXCEPT ![t] = None]
       /\ UNCHANGED <<policy, files, saved, staged>>

(* The task is cancelled at an await, or what it awaits fails.  The runtime  *)
(* it staged is dropped as it is.                                            *)
Cancel(t) == /\ op[t] # None /\ op[t].kind # "startup" /\ op[t].at # "decided"
             /\ op' = [op EXCEPT ![t] = None]
             /\ UNCHANGED <<policy, files, saved, cache, live, rt, staged>>

(* Project files come and go, another process of the user saves a decision.  *)
Between == \A t \in Task : ~At(t, "decided")

FilesChange == /\ Between
               /\ \E d \in Dir : files' = (files \ {d}) \union ({d} \ files)
               /\ UNCHANGED <<policy, saved, cache, live, rt, staged, op>>

OthersDecide == /\ \E d \in Dir, v \in {None, "trusted", "untrusted"} :
                      saved' = [saved EXCEPT ![d] = v]
                /\ UNCHANGED <<policy, files, cache, live, rt, staged, op>>

Operation(t) == \/ \E d \in Dir : Load(t, d) \/ Resume(t, d)
                \/ Reload(t) \/ NewSession(t)
                \/ ExtensionDecides(t) \/ ExtensionsDefer(t) \/ UserAnswers(t)
                \/ ReadResources(t) \/ LoadReturns(t) \/ OldShutDown(t)
                \/ Publish(t) \/ Cancel(t)

Next == \/ \E t \in Task : Operation(t)
        \/ FilesChange
        \/ OthersDecide

Spec == Init /\ [][Next]_vars
-----------------------------------------------------------------------------
Approved(r) == r.trusted /\ r.source # "empty" /\ ~r.cancelled

(* Project resources are read, and project extensions imported, only after   *)
(* somebody approved a directory in which they had been found: resolve never *)
(* lets an answer for an empty directory stand for one that has filled, over *)
(* any sequence of reloads and replacements.                                 *)
ReadOnlyIfApproved ==
    /\ live # None /\ (live.inputs \/ rt[live.runtime].project) => Approved(live.trust)
    /\ \A t \in Task : op[t] # None /\ (op[t].inputs \/ rt[op[t].runtime].project)
                          => Approved(op[t].trust)

Hears(r) == rt[r].active /\ rt[r].listens /\ rt[r].bound = "session"

(* The published runtime can act and hears the session, and no runtime that  *)
(* can act hears it besides: retire and attach_harness_listener leave one.   *)
OneRuntimeHears == live # None => {r \in Runtime : Hears(r)} = {live.runtime}

(* The interface stays attached to whatever runtime is published.            *)
InterfaceStaysAttached == live # None => rt[live.runtime].ui = policy.interactive

(* A runtime that can no longer act was told so first: its session_shutdown  *)
(* handlers have run.                                                        *)
RetiredWereTold == \A r \in 1 .. staged : ~rt[r].active => rt[r].stopped

(* Loads, reloads and replacements, cancelled or failing at any await, while *)
(* files and decisions change, leave one runtime in charge and use nothing   *)
(* of a project that was not approved.                                       *)
SwapIsSafe ==
    ReadOnlyIfApproved /\ OneRuntimeHears /\ InterfaceStaysAttached /\ RetiredWereTold
=============================================================================

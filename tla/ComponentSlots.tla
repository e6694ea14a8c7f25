---------------------------- MODULE ComponentSlots ----------------------------
(* Widgets that extensions mount (tau_coding/tui/app.py): next to the prompt *)
(* under a key, and in place of the transcript as the main view.  A call     *)
(* records what is meant and leaves the mounting to a task; the tasks of one *)
(* place run one after the other, and each awaits the removal of the widget  *)
(* that is mounted before it looks again at what is meant.  A widget that    *)
(* raises while it is drawn is quarantined at once, outside these tasks.     *)
EXTENDS Naturals

CONSTANTS Widget, None, MaxTasks

SlotsAssumption == None \notin Widget

Place == {"slot", "main"}

VARIABLES meant,    \* the widget that should occupy the place
          mounted,  \* the widget that the host mounted there
          tasks,    \* reconcile tasks that wait for the lock
          removing, \* the widget whose removal the holder of the lock awaits
          dom,      \* widgets on the screen
          ghosts,   \* quarantined widgets: hidden, perhaps never pruned
          made,     \* widgets whose factory was called, by place
          open,     \* main views whose handle is open and awaited
          hidden    \* the transcript is hidden

vars == <<meant, mounted, tasks, removing, dom, ghosts, made, open, hidden>>

Init == /\ meant = [a \in Place |-> None] /\ mounted = [a \in Place |-> None]
        /\ tasks = [a \in Place |-> 0] /\ removing = [a \in Place |-> None]
        /\ dom = [a \in Place |-> {}] /\ ghosts = {} /\ made = [a \in Place |-> {}]
        /\ open = {} /\ hidden = FALSE

Schedule(A) == /\ \A a \in A : tasks[a] < MaxTasks
               /\ tasks' = [a \in Place |-> tasks[a] + IF a \in A THEN 1 ELSE 0]
Mean(a, w)  == meant' = [meant EXCEPT ![a] = w]

(* _set_extension_slot_widget, _open_extension_main_view: the view that was  *)
(* meant before is superseded, its handle released.                          *)
Show(a, w) ==
  /\ \A b \in Place : w \notin made[b]
  /\ made' = [made EXCEPT ![a] = @ \union {w}]
  /\ Mean(a, w) /\ Schedule({a})
  /\ open' = IF a = "main" THEN (open \ {meant[a]}) \union {w} ELSE open
  /\ UNCHANGED <<mounted, removing, dom, ghosts, hidden>>

UnsetSlot ==
  /\ Mean("slot", None) /\ Schedule({"slot"})
  /\ UNCHANGED <<mounted, removing, dom, ghosts, made, open, hidden>>

(* _MainViewHandle.close: a view that is no longer meant changes nothing.    *)
CloseView(w) ==
  /\ w \in open /\ open' = open \ {w}
  /\ \/ meant["main"] = w /\ Mean("main", None) /\ Schedule({"main"})
     \/ meant["main"] # w /\ UNCHANGED <<meant, tasks>>
  /\ UNCHANGED <<mounted, removing, dom, ghosts, made, hidden>>

(* _clear_extension_components: a reload, a resume or a new session          *)
Clear ==
  /\ meant' = [a \in Place |-> None]
  /\ Schedule({"main"} \union {a \in Place : meant[a] # None \/ mounted[a] # None})
  /\ open' = open \ {meant["main"]}
  /\ UNCHANGED <<mounted, removing, dom, ghosts, made, hidden>>

---------------------------------------------------------------------------
(* _reconcile_slot, _reconcile_main_view                                     *)

(* What the task does once nothing else is mounted: it mounts what is meant, *)
(* and gives it up when mounting fails.                                      *)
Settle(a, was) ==
  \/ /\ meant[a] # None /\ was # meant[a]
     /\ \/ /\ mounted' = [mounted EXCEPT ![a] = meant[a]]
           /\ dom' = [dom EXCEPT ![a] = (@ \ {removing[a]}) \union {meant[a]}]
           /\ hidden' = (hidden \/ a = "main")
           /\ UNCHANGED <<meant, open>>
        \/ /\ Mean(a, None)
           /\ mounted' = [mounted EXCEPT ![a] = was]
           /\ dom' = [dom EXCEPT ![a] = @ \ {removing[a]}]
           /\ open' = IF a = "main" THEN open \ {meant[a]} ELSE open
           /\ hidden' = (hidden /\ a # "main")
  \/ /\ meant[a] = None \/ was = meant[a]
     /\ mounted' = [mounted EXCEPT ![a] = was]
     /\ dom' = [dom EXCEPT ![a] = @ \ {removing[a]}]
     /\ hidden' = (hidden /\ ~(a = "main" /\ meant[a] = None /\ was = None))
     /\ UNCHANGED <<meant, open>>

(* Mutant: the new widget is mounted before the old one is gone.             *)
ReconcileAtOnce(a) ==
  /\ tasks[a] > 0 /\ removing[a] = None
  /\ tasks' = [tasks EXCEPT ![a] = @ - 1]
  /\ Settle(a, mounted[a])
  /\ UNCHANGED <<removing, ghosts, made>>

(* A task takes the lock: it starts the removal of another widget, or goes   *)
(* on at once.                                                               *)
Reconcile(a) ==
  /\ tasks[a] > 0 /\ removing[a] = None
  /\ tasks' = [tasks EXCEPT ![a] = @ - 1]
  /\ IF mounted[a] # None /\ mounted[a] # meant[a]
     THEN /\ removing' = [removing EXCEPT ![a] = mounted[a]]
          /\ UNCHANGED <<meant, mounted, dom, open, hidden>>
     ELSE Settle(a, mounted[a]) /\ UNCHANGED removing
  /\ UNCHANGED <<ghosts, made>>

(* The widget is gone: the task looks again at what is meant.                *)
Removed(a) ==
  /\ removing[a] # None
  /\ removing' = [removing EXCEPT ![a] = None]
  /\ Settle(a, IF mounted[a] = removing[a] THEN None ELSE mounted[a])
  /\ UNCHANGED <<tasks, ghosts, made>>

---------------------------------------------------------------------------
(* _quarantine_extension_widget: a tracked widget on the screen raises       *)
Crash(a, w) ==
  /\ w \in dom[a] \ ghosts /\ w \in {meant[a], mounted[a]}
  /\ ghosts' = ghosts \union {w}
  /\ mounted' = [mounted EXCEPT ![a] = IF @ = w THEN None ELSE @]
  /\ IF a = "main"
     THEN /\ Mean(a, None) /\ open' = open \ {meant[a]} /\ hidden' = FALSE
     ELSE /\ Mean(a, IF meant[a] = w THEN None ELSE meant[a])
          /\ UNCHANGED <<open, hidden>>
  /\ UNCHANGED <<tasks, removing, dom, made>>

(* Textual prunes a widget it had finished mounting.                         *)
Prune(a, w) ==
  /\ w \in dom[a] \intersect ghosts
  /\ dom' = [dom EXCEPT ![a] = @ \ {w}]
  /\ UNCHANGED <<meant, mounted, tasks, removing, ghosts, made, open, hidden>>

Next == \/ UnsetSlot \/ Clear
        \/ \E w \in Widget : CloseView(w)
        \/ \E a \in Place : \/ Reconcile(a) \/ Removed(a)
                            \/ \E w \in Widget : Show(a, w) \/ Crash(a, w) \/ Prune(a, w)

Spec == Init /\ [][Next]_vars

---------------------------------------------------------------------------
(* A place never shows two widgets, however calls, removals and rebinds      *)
(* overlap; a quarantined one that Textual could not prune is not visible.   *)
OneVisible == \A a \in Place : \A v, w \in dom[a] \ ghosts : v = w

(* An extension that awaits its view is woken whenever the view is closed,   *)
(* superseded, cleared, quarantined or cannot be mounted: a handle is open   *)
(* only while its view is the one that is meant.                             *)
WaitersWake == \A w \in open : meant["main"] = w

(* When no task is left, the screen shows what is meant, and the transcript  *)
(* is hidden exactly while a main view is shown.                             *)
ScreenIsMeant ==
  /\ \A a \in Place : tasks[a] = 0 /\ removing[a] = None => mounted[a] = meant[a]
  /\ tasks["main"] = 0 /\ removing["main"] = None => (hidden <=> mounted["main"] # None)

(* However shows, closes, clears, crashes and removals overlap, a place has  *)
(* one widget, in the end the one that is meant, and who waits for a view    *)
(* that goes is woken.                                                       *)
PlacesSettle == OneVisible /\ WaitersWake /\ ScreenIsMeant
=============================================================================

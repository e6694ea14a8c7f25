------------------------- MODULE SessionPartsProofs -------------------------
(* Proofs about the parts a session is put together from, for any number of  *)
(* directories, places, extensions, models, rows and operations in a row.    *)
EXTENDS SessionParts, SequenceTheorems, WellFoundedInduction, TLAPS

-----------------------------------------------------------------------------
(***************************************************************************)
(* ModelChoice: the client is the one that is shown.                       *)
(***************************************************************************)

(* Every choice, response and reload keeps the client in step.               *)
LEMMA ChoiceNext ==
  ASSUME C!ClientIsShown, [C!Next]_(C!vars)
  PROVE  C!ClientIsShown'
<1> USE DEF C!ClientIsShown
<1>1. ASSUME NEW m, C!SetModel(m) PROVE C!ClientIsShown'
  BY <1>1 DEF C!SetModel, C!Built
<1>2. ASSUME NEW m, C!SetProviderModel(m) PROVE C!ClientIsShown'
  BY <1>2 DEF C!SetProviderModel, C!Built
<1>3. CASE C!CycleScopedModel
  BY <1>1, <1>2, <1>3 DEF C!CycleScopedModel
<1>4. ASSUME NEW m, C!ToggleScopedModel(m) PROVE C!ClientIsShown'
  BY <1>4 DEF C!ToggleScopedModel, C!Built
<1>5. ASSUME NEW l, C!SetThinkingLevel(l) PROVE C!ClientIsShown'
  BY <1>5 DEF C!SetThinkingLevel, C!Built
<1>6. ASSUME NEW r, C!SetRoute(r) PROVE C!ClientIsShown'
  BY <1>6 DEF C!SetRoute, C!Built
<1>7. CASE C!ReloadSettings
  BY <1>7 DEF C!ReloadSettings, C!Built
<1>8. ASSUME NEW r, C!Respond(r) PROVE C!ClientIsShown'
  BY <1>8 DEF C!Respond, C!Built
<1>9. CASE C!Request \/ C!CredentialsChange \/ C!ChangeElsewhere \/ UNCHANGED C!vars
  BY <1>9 DEF C!Request, C!CredentialsChange, C!ChangeElsewhere, C!vars, C!Built
<1> QED
  BY <1>1, <1>2, <1>3, <1>4, <1>5, <1>6, <1>7, <1>8, <1>9 DEF C!Next

(* The client that sends the next request was built for the provider, the    *)
(* level and the route that are shown, for any catalog and any sequence of   *)
(* choices, responses and logins.                                            *)
THEOREM ClientIsAlwaysShown == Spec => []ClientIsShown
<1>1. Init => C!ClientIsShown
  BY DEF Init, C!Init, C!ClientIsShown, C!Built
<1>2. C!ClientIsShown /\ [Next]_vars => C!ClientIsShown'
  BY ChoiceNext DEF Next, vars, choiceVars, C!vars
<1> QED BY <1>1, <1>2, PTL DEF Spec, ClientIsShown

-----------------------------------------------------------------------------
(***************************************************************************)
(* Resources: the prompt is current, the project approved.                 *)
(***************************************************************************)

(* Without an approval, and without anything to approve, a load reads nothing *)
(* of the project: every file a loader takes is one the detector knows.      *)
LEMMA LoadersAreDetected ==
  ASSUME R!ResourceAssumption, NEW i \in R!Read(R!Snapshot(R!Trusted)),
         ~R!Snapshot(R!Trusted).approved
  PROVE  ~R!OfProject(i.at)
<1>1. PICK p \in R!Searched(R!Trusted) :
        i.at = p /\ R!Exists(p) /\ (p.kind = "template" => R!is_prompt_template_candidate(p))
  BY DEF R!Read, R!Snapshot, R!Skills, R!Templates, R!load_custom_tui_themes, R!Winners,
         R!Context, R!ContextCandidates, R!SystemFile, R!Item, R!Reads, R!Exists,
         R!ResourceAssumption, R!Searched
<1>2. CASE R!Detected
  <2>1. ~R!Trusted BY <1>2 DEF R!Snapshot
  <2> QED BY <1>1, <2>1 DEF R!Searched
<1>3. CASE ~R!Detected
  BY <1>1, <1>3 DEF R!Searched, R!Detected
<1> QED BY <1>2, <1>3

(* What is compared of a prompt is given by what /reload compares.           *)
LEMMA SignatureDecides ==
  ASSUME NEW l, NEW k, R!Signature(l) = R!Signature(k), ~config.given
  PROVE  /\ R!Guidelines(l) = R!Guidelines(k)
         /\ R!Built(l).base = R!Built(k).base /\ R!Built(l).append = R!Built(k).append
         /\ R!Built(l).context = R!Built(k).context /\ R!Built(l).skills = R!Built(k).skills
         /\ {t[1] : t \in R!Built(l).tools} = {t[1] : t \in R!Built(k).tools}
         /\ R!Built(l).guidelines \intersect R!Guidelines(l)
              = R!Built(k).guidelines \intersect R!Guidelines(k)
<1> DEFINE whole(x) == ~config.custom /\ x.system = {}
           mine(x)  == IF whole(x) /\ x.extension # None THEN {x.extension} ELSE {}
           offers(x) == {<<e.tool, e.snippet>> : e \in mine(x)}
           guide(x) == {e.own : e \in mine(x)} \union {e.attached : e \in mine(x)}
           skills(x) == IF config.read THEN R!Listed(x.skills) ELSE {}
<1>1. /\ R!Listed(l.skills) = R!Listed(k.skills) /\ l.context = k.context
      /\ l.system = k.system /\ l.append = k.append
      /\ R!Tools(l) = R!Tools(k) /\ R!Guidelines(l) = R!Guidelines(k)
  BY DEF R!Signature
<1>2. ASSUME NEW x
      PROVE  /\ R!Built(x).base = x.system /\ R!Built(x).append = x.append
             /\ R!Built(x).context = x.context /\ R!Built(x).skills = skills(x)
             /\ R!Built(x).tools = offers(x) /\ R!Built(x).guidelines = guide(x)
  <2>1. R!Built(x) = [base |-> x.system, append |-> x.append, context |-> x.context,
                      skills |-> skills(x), tools |-> offers(x), guidelines |-> guide(x)]
    BY DEF R!Built
  <2> HIDE DEF skills, offers, guide
  <2> QED BY <2>1
<1>3. ASSUME NEW x
      PROVE  /\ {t[1] : t \in offers(x)} = IF whole(x) THEN R!Tools(x) ELSE {}
             /\ guide(x) \intersect R!Guidelines(x) = IF whole(x) THEN R!Guidelines(x) ELSE {}
  <2>1. CASE mine(x) = {}
    BY <2>1 DEF R!Tools, R!Guidelines
  <2>2. CASE mine(x) # {}
    <3>1. whole(x) /\ x.extension # None /\ mine(x) = {x.extension} BY <2>2
    <3>2. offers(x) = {<<x.extension.tool, x.extension.snippet>>} BY <3>1
    <3>3. ASSUME NEW a, NEW b PROVE {t[1] : t \in {<<a, b>>}} = {a} OBVIOUS
    <3>4. {t[1] : t \in offers(x)} = {x.extension.tool} BY <3>2, <3>3
    <3> QED BY <3>1, <3>4 DEF R!Tools, R!Guidelines
  <2> QED BY <2>1, <2>2
<1>4. whole(l) = whole(k) /\ skills(l) = skills(k) BY <1>1
<1> HIDE DEF whole, mine, offers, guide, skills
<1>5. {t[1] : t \in R!Built(l).tools} = {t[1] : t \in R!Built(k).tools}
  BY <1>1, <1>2, <1>3, <1>4
<1> QED BY <1>1, <1>2, <1>3, <1>4, <1>5

(* The prompt in use, whatever file or extension was changed since it was    *)
(* built, is the one the resources of the session would give now; and what   *)
(* the session has read of a project was approved.                           *)
LEMMA ResourcesNext ==
  ASSUME R!ResourceAssumption, R!PromptIsCurrent, R!ProjectIsApproved, [R!Next]_(R!vars)
  PROVE  R!PromptIsCurrent' /\ R!ProjectIsApproved'
<1>1. CASE UNCHANGED <<using, prompt, config>>
  <2>1. R!PromptIsCurrent'
    BY <1>1
       DEF R!PromptIsCurrent, R!WithoutTools, R!Built, R!Guidelines, R!Listed, R!Description
  <2>2. R!ProjectIsApproved'
    BY <1>1 DEF R!ProjectIsApproved, R!Read
  <2> QED BY <2>1, <2>2
<1>2. CASE R!Load \/ R!Reload
  <2>1. using' = R!Snapshot(R!Trusted) /\ config' = config
    BY <1>2 DEF R!Load, R!Reload
  <2>2. R!ProjectIsApproved'
    <3>1. SUFFICES ASSUME ~using'.approved, NEW i \in R!Read(using')
                   PROVE  ~R!OfProject(i.at)
      BY DEF R!ProjectIsApproved, R!Read, R!OfProject
    <3> QED BY <2>1, <3>1, LoadersAreDetected
  <2>3. ASSUME prompt' = R!Built(using') PROVE R!PromptIsCurrent'
    BY <2>1, <2>3
       DEF R!PromptIsCurrent, R!WithoutTools, R!Built, R!Guidelines, R!Listed, R!Description
  <2>4. ASSUME using # None, prompt' = prompt,
               config.given \/ R!Signature(using) = R!Signature(using')
        PROVE  R!PromptIsCurrent'
    <3>1. R!WithoutTools(prompt) = R!WithoutTools(R!Built(using))
      BY <2>4 DEF R!PromptIsCurrent
    <3>2. CASE config.given
      BY <2>1, <2>4, <3>1, <3>2 DEF R!PromptIsCurrent, R!WithoutTools, R!Built
    <3>3. CASE ~config.given
      <4> DEFINE first == R!Built(using)
                 second == R!Built(using')
      <4>1. /\ prompt.base = first.base /\ prompt.append = first.append
            /\ prompt.context = first.context /\ prompt.skills = first.skills
            /\ {t[1] : t \in prompt.tools} = {t[1] : t \in first.tools}
            /\ prompt.guidelines \intersect R!Guidelines(using)
                 = first.guidelines \intersect R!Guidelines(using)
        <5> HIDE DEF first
        <5> QED BY <3>1, <3>3 DEF R!WithoutTools, first
      <4>2. /\ R!Guidelines(using) = R!Guidelines(using')
            /\ first.base = second.base /\ first.append = second.append
            /\ first.context = second.context /\ first.skills = second.skills
            /\ {t[1] : t \in first.tools} = {t[1] : t \in second.tools}
            /\ first.guidelines \intersect R!Guidelines(using)
                 = second.guidelines \intersect R!Guidelines(using')
        BY <2>4, <3>3, SignatureDecides
      <4>3. R!WithoutTools(prompt)' = R!WithoutTools(R!Built(using))'
        <5>1. R!Built(using)' = second
          BY <2>1 DEF R!Built, R!Listed, R!Description
        <5> HIDE DEF first, second
        <5> QED BY <2>1, <2>4, <3>3, <4>1, <4>2, <5>1 DEF R!WithoutTools, R!Guidelines
      <4> QED BY <4>3 DEF R!PromptIsCurrent
    <3> QED BY <3>2, <3>3
  <2> QED BY <1>2, <2>1, <2>2, <2>3, <2>4 DEF R!Load, R!Reload
<1> QED
  BY <1>1, <1>2 DEF R!Next, R!Edit, R!EditExtension, R!Decide, R!Unpublished, R!vars

(* The prompt in use is the one the session's resources would give now, but  *)
(* for the text of the tools, whatever was edited since and however often    *)
(* /reload built no new one.                                                 *)
THEOREM PromptIsAlwaysCurrent == Spec => []PromptIsCurrent
<1> DEFINE Inv == R!PromptIsCurrent /\ R!ProjectIsApproved
<1>1. Init => Inv
  BY DEF Init, R!Init, R!PromptIsCurrent, R!ProjectIsApproved
<1>2. Inv /\ [Next]_vars => Inv'
  BY PartsAssumption, ResourcesNext DEF Next, vars, resourceVars, R!vars
<1> HIDE DEF Inv
<1>3. Inv => PromptIsCurrent
  BY DEF Inv, PromptIsCurrent
<1> QED BY <1>1, <1>2, <1>3, PTL DEF Spec

(* Nothing of a project is in use that was not approved: what the loaders    *)
(* read is what the detector finds, for every set of places and names.       *)
THEOREM ProjectIsAlwaysApproved == Spec => []ProjectIsApproved
<1> DEFINE Inv == R!PromptIsCurrent /\ R!ProjectIsApproved
<1>1. Init => Inv
  BY DEF Init, R!Init, R!PromptIsCurrent, R!ProjectIsApproved
<1>2. Inv /\ [Next]_vars => Inv'
  BY PartsAssumption, ResourcesNext DEF Next, vars, resourceVars, R!vars
<1> HIDE DEF Inv
<1>3. Inv => ProjectIsApproved
  BY DEF Inv, ProjectIsApproved
<1> QED BY <1>1, <1>2, <1>3, PTL DEF Spec

-----------------------------------------------------------------------------
(***************************************************************************)
(* SessionSwap: one runtime in charge, nothing unapproved in use.          *)
(***************************************************************************)
Runtimes == [active : BOOLEAN, bound : {"nothing", "loaded", "session"}, ui : BOOLEAN,
             project : BOOLEAN, stopped : BOOLEAN, listens : BOOLEAN]

(* The values of the variables.                                              *)
SwapTypes ==
  /\ policy \in S!Policy
  /\ files \subseteq Dir
  /\ saved \in [Dir -> {None, "trusted", "untrusted"}]
  /\ cache \in [Dir -> S!Trusts \union {None}]
  /\ live \in S!Published \union {None}
  /\ rt \in [S!Runtime -> Runtimes]
  /\ staged \in 0 .. MaxRuntimes
  /\ op \in [Task -> S!Operations \union {None}]

(* A resolution for an empty directory found nothing, and one that was       *)
(* dismissed grants nothing.                                                 *)
Sound(r) == (r.source = "empty" => ~r.had) /\ (r.cancelled => ~r.trusted)

(* Decisions: every one that is kept or used is sound, and the one that is   *)
(* about to be used was not made for an empty directory that has filled.     *)
Decisions ==
  /\ \A d \in Dir : cache[d] # None => Sound(cache[d])
  /\ \A t \in Task : op[t] # None =>
       /\ op[t].at \in {"extensions", "prompt"} \/ op[t].trust # None
       /\ op[t].trust # None => Sound(op[t].trust)
       /\ op[t].at \in {"extensions", "prompt", "decided"} =>
            ~op[t].inputs /\ ~rt[op[t].runtime].project
       /\ op[t].at = "decided" /\ op[t].trust.source = "empty" => op[t].dir \notin files
       /\ op[t].inputs \/ rt[op[t].runtime].project => S!Approved(op[t].trust)

(* The runtime of the operation in progress can act and nobody has heard of   *)
(* it; the one it replaces is the published one, and was told so before the  *)
(* new one starts.                                                           *)
Replacing(o) ==
  /\ o.runtime \in 1 .. staged /\ rt[o.runtime].active
  /\ o.kind = "startup" /\ o.at # "start" => live = None
  /\ o.kind = "startup" /\ o.at = "start" => live # None /\ live.runtime = o.runtime
  /\ o.kind # "startup" => live # None /\ live.runtime # o.runtime
  /\ o.kind = "reload" => o.at # "opening" /\ ~rt[o.runtime].listens
  /\ o.kind = "startup" => o.at # "shutdown"
  /\ o.kind # "startup" /\ o.at \in {"shutdown", "start"} => o.old = live.runtime
  /\ o.kind # "startup" /\ o.at = "start" => rt[o.old].stopped
  /\ \/ o.kind = "reload" /\ o.at = "start"
     \/ o.kind \in {"resume", "new"} /\ o.at \in {"opening", "shutdown", "start"}
     => rt[o.runtime].ui = policy.interactive

InCharge ==
  /\ live = None => \A r \in S!Runtime : ~S!Hears(r)
  /\ live # None => /\ live.runtime \in 1 .. staged /\ S!Hears(live.runtime)
                    /\ \A r \in S!Runtime : S!Hears(r) => r = live.runtime
                    /\ rt[live.runtime].ui = policy.interactive
                    /\ live.inputs \/ rt[live.runtime].project => S!Approved(live.trust)
  /\ \A t \in Task : op[t] # None => Replacing(op[t])

(* The inductive invariant.                                                  *)
SwapInv == SwapTypes /\ Decisions /\ InCharge /\ S!RetiredWereTold

(* Operations do not overlap.  The code does not see to it: a reload of the   *)
(* prompt's task can meet a resume of a worker, for which no more is claimed. *)
OneTask == \A t, u \in Task : t = u

(* A runtime is staged, and the decision taken if nobody has to be asked.    *)
LEMMA StageHolds ==
  ASSUME S!SwapAssumption, OneTask, SwapInv, NEW t \in Task, NEW d \in Dir,
         NEW kind \in {"startup", "reload", "resume", "new"},
         kind = "startup" <=> live = None, S!Stage(t, kind, d)
  PROVE  SwapInv'
<1>1. PICK trust : trust = S!Unasked(d, kind = "reload")
  OBVIOUS
<1>2. /\ trust \in S!Trusts \union {None}
      /\ trust # None => Sound(trust) /\ (trust.source = "empty" => d \notin files)
  BY <1>1
     DEF S!Unasked, S!Cached, S!Resolution, S!Found, Sound, SwapInv, SwapTypes, S!Policy,
              Decisions, S!Trusts
<1>3. staged \in Nat /\ staged + 1 \in S!Runtime /\ op[t] = None
  BY DEF S!Stage, S!Runtime, SwapInv, SwapTypes, S!SwapAssumption
<1>4. PICK o :
        o = [kind |-> kind, dir |-> d, runtime |-> staged + 1, old |-> None, inputs |-> FALSE,
             trust |-> trust, at |-> IF trust = None THEN "extensions" ELSE "decided"]
  OBVIOUS
<1>14. /\ o \in S!Operations /\ o.kind = kind /\ o.dir = d /\ o.runtime = staged + 1
      /\ ~o.inputs /\ o.trust = trust
      /\ o.at \in {"extensions", "decided"} /\ (o.at = "decided" => trust # None)
      /\ (o.at = "extensions" => trust = None)
  BY <1>2, <1>3, <1>4 DEF S!Operations
<1>5. PICK new : new = [S!NoRuntime EXCEPT !.active = TRUE]
  OBVIOUS
<1>15. new \in Runtimes /\ new.active /\ ~new.listens /\ ~new.project
  BY <1>5 DEF S!NoRuntime, Runtimes
<1>6. /\ staged' = staged + 1 /\ UNCHANGED <<policy, files, saved, cache, live>>
      /\ rt' = [rt EXCEPT ![staged + 1] = new] /\ op' = [op EXCEPT ![t] = o]
  BY <1>1, <1>4, <1>5 DEF S!Stage
<1>7. SwapTypes'
  BY <1>3, <1>6, <1>14, <1>15 DEF SwapInv, SwapTypes, S!Runtime, S!SwapAssumption
<1>8. op'[t] = o /\ rt'[staged + 1] = new /\ \A r \in S!Runtime : r # staged + 1 => rt'[r] = rt[r]
  BY <1>3, <1>6 DEF SwapInv, SwapTypes
<1>9. o # None /\ \A u \in Task : u = t
  BY OneTask, <1>14 DEF S!SwapAssumption, OneTask
<1>10. Decisions'
  <2>1. \A e \in Dir : cache'[e] # None => Sound(cache'[e])
    BY <1>6 DEF SwapInv, Decisions
  <2> QED BY <1>2, <1>14, <1>15, <1>6, <1>8, <1>9, <2>1 DEF Decisions
<1>11. Replacing(o)'
  BY <1>3, <1>14, <1>15, <1>6, <1>8 DEF Replacing, SwapInv, InCharge
<1>12. InCharge'
  <2>1. \A r \in S!Runtime : S!Hears(r)' => S!Hears(r) /\ r # staged + 1
    BY <1>15, <1>6, <1>8 DEF S!Hears
  <2>2. ASSUME live # None
        PROVE  /\ live.runtime \in 1 .. staged' /\ rt'[live.runtime] = rt[live.runtime]
    BY <1>3, <1>6, <1>8, <2>2 DEF SwapInv, InCharge, S!Runtime, SwapTypes, S!SwapAssumption
  <2>3. live = None => \A r \in S!Runtime : ~S!Hears(r)'
    BY <2>1 DEF SwapInv, InCharge
  <2>4. ASSUME live # None
        PROVE  /\ S!Hears(live.runtime)'
               /\ \A r \in S!Runtime : S!Hears(r)' => r = live.runtime
               /\ rt'[live.runtime].ui = policy.interactive
               /\ live.inputs \/ rt'[live.runtime].project => S!Approved(live.trust)
    BY <1>6, <2>1, <2>2, <2>4 DEF SwapInv, InCharge, S!Hears
  <2> QED BY <1>6, <1>8, <1>9, <1>11, <2>2, <2>3, <2>4 DEF InCharge
<1>13. S!RetiredWereTold'
  BY <1>3, <1>15, <1>6, <1>8 DEF S!RetiredWereTold, SwapInv, S!Runtime
<1> QED BY <1>7, <1>10, <1>12, <1>13 DEF SwapInv

(* A decision is taken, or the user asked, while the handlers are awaited.   *)
LEMMA DecideHolds ==
  ASSUME S!SwapAssumption, OneTask, SwapInv, NEW t \in Task, op[t] # None,
         op[t].at \in {"extensions", "prompt"},
         NEW saves \in {TRUE, FALSE}, NEW verdict \in {"trusted", "untrusted"},
         saved' = IF saves THEN [saved EXCEPT ![op[t].dir] = verdict] ELSE saved,
         UNCHANGED <<policy, files, cache, live, rt, staged>>,
         \/ S!Goto(t, "prompt")
         \/ \E r \in S!Trusts : r.source # "empty" /\ Sound(r) /\ S!Decide(t, r)
  PROVE  SwapInv'
<1>1. op[t] \in S!Operations /\ \A u \in Task : u = t
  BY DEF SwapInv, SwapTypes, OneTask
<1>2. PICK o : op' = [op EXCEPT ![t] = o] /\
         \/ o = [op[t] EXCEPT !.at = "prompt"]
         \/ \E r \in S!Trusts : /\ r.source # "empty" /\ Sound(r)
                                /\ o = [op[t] EXCEPT !.at = "decided", !.trust = r]
  BY DEF S!Goto, S!Decide
<1>3. /\ o \in S!Operations /\ o.kind = op[t].kind /\ o.dir = op[t].dir /\ o.old = op[t].old
      /\ o.runtime = op[t].runtime /\ o.inputs = op[t].inputs /\ o.at \in {"prompt", "decided"}
      /\ o.at = "decided" => o.trust \in S!Trusts /\ o.trust.source # "empty" /\ Sound(o.trust)
      /\ o.at = "prompt" => o.trust = op[t].trust
  BY <1>1, <1>2 DEF S!Operations
<1>4. op'[t] = o /\ o # None /\ (o.at = "decided" => o.trust # None)
  BY <1>2, <1>3 DEF SwapInv, SwapTypes, S!SwapAssumption
<1>5. SwapTypes'
  BY <1>2, <1>3 DEF SwapInv, SwapTypes
<1>6. Decisions'
  BY <1>1, <1>3, <1>4 DEF SwapInv, Decisions
<1>7. Replacing(op[t])
  BY DEF SwapInv, InCharge
<1>8. Replacing(o)'
  BY <1>3, <1>7 DEF Replacing
<1>9. InCharge'
  BY <1>1, <1>4, <1>8 DEF SwapInv, InCharge, S!Hears
<1>10. S!RetiredWereTold'
  BY DEF SwapInv, S!RetiredWereTold
<1> QED BY <1>5, <1>6, <1>9, <1>10 DEF SwapInv

(* An operation that is cancelled, or fails, leaves what was published.      *)
LEMMA CancelHolds ==
  ASSUME S!SwapAssumption, OneTask, SwapInv, NEW t \in Task,
         op' = [op EXCEPT ![t] = None], UNCHANGED <<policy, files, saved, cache, live, rt, staged>>
  PROVE  SwapInv'
<1>1. op'[t] = None /\ \A u \in Task : u = t
  BY DEF SwapInv, SwapTypes, OneTask
<1>2. SwapTypes' BY DEF SwapInv, SwapTypes
<1>3. Decisions' BY <1>1 DEF SwapInv, Decisions
<1>4. InCharge' BY <1>1 DEF SwapInv, InCharge, S!Hears
<1>5. S!RetiredWereTold' BY DEF SwapInv, S!RetiredWereTold
<1> QED BY <1>2, <1>3, <1>4, <1>5 DEF SwapInv

(* The resources are read as the decision allows.                            *)
LEMMA ReadHolds ==
  ASSUME S!SwapAssumption, OneTask, SwapInv, NEW t \in Task, S!ReadResources(t)
  PROVE  SwapInv'
<1>1. PICK q : q = op[t]
  OBVIOUS
<1>2. /\ q \in S!Operations /\ q # None /\ q.at = "decided" /\ q.trust # None /\ Sound(q.trust)
      /\ q.trust.source = "empty" => q.dir \notin files
      /\ Replacing(q) /\ \A u \in Task : u = t
  BY <1>1 DEF S!ReadResources, S!At, SwapInv, SwapTypes, OneTask, Decisions, InCharge
<1>3. CASE q.kind = "reload" /\ q.trust.cancelled
  BY <1>1, <1>3, CancelHolds DEF S!ReadResources
<1>4. CASE ~(q.kind = "reload" /\ q.trust.cancelled)
  <2> DEFINE reads == q.trust.trusted /\ S!Found(q.dir)
  <2>2. PICK o : o = [q EXCEPT !.inputs = reads,
                               !.at = IF q.kind = "reload" THEN "shutdown" ELSE "opening",
                               !.old = IF q.kind = "reload" THEN live.runtime ELSE None]
    OBVIOUS
  <2>3. PICK new : new = [rt[q.runtime] EXCEPT
                            !.project = reads /\ policy.projectExtensions,
                            !.ui = q.kind \in {"resume", "new"} /\ rt[live.runtime].ui]
    OBVIOUS
  <2>4. /\ UNCHANGED <<policy, files, saved, cache, live, staged>>
        /\ op' = [op EXCEPT ![t] = o] /\ rt' = [rt EXCEPT ![q.runtime] = new]
    BY <1>1, <1>4, <2>2, <2>3 DEF S!ReadResources
  <2>5. live # None => live.runtime \in S!Runtime /\ rt[live.runtime] \in Runtimes
    BY DEF SwapInv, SwapTypes, S!Published
  <2>6. /\ o \in S!Operations /\ o.kind = q.kind /\ o.dir = q.dir /\ o.runtime = q.runtime
        /\ o.trust = q.trust /\ (o.inputs => reads)
        /\ o.at = (IF q.kind = "reload" THEN "shutdown" ELSE "opening")
        /\ o.old = (IF q.kind = "reload" THEN live.runtime ELSE None)
    BY <1>2, <2>2, <2>5 DEF S!Operations, Replacing
  <2>7. /\ q.runtime \in S!Runtime /\ rt[q.runtime] \in Runtimes /\ policy.projectExtensions \in BOOLEAN
        /\ new \in Runtimes /\ new.active = rt[q.runtime].active
        /\ new.bound = rt[q.runtime].bound /\ new.listens = rt[q.runtime].listens
        /\ new.stopped = rt[q.runtime].stopped
        /\ new.project => reads
        /\ q.kind \in {"resume", "new"} => new.ui = rt[live.runtime].ui
    BY <1>2, <2>3, <2>5, ZenonT(60)
       DEF S!Operations, SwapInv, SwapTypes, Runtimes, S!Policy, Replacing
  <2>8. op'[t] = o /\ rt'[q.runtime] = new /\ \A r \in S!Runtime : r # q.runtime => rt'[r] = rt[r]
    BY <2>4, <2>7 DEF SwapInv, SwapTypes
  <2>9. SwapTypes'
    BY <2>4, <2>6, <2>7 DEF SwapInv, SwapTypes
  <2>10. reads => S!Approved(q.trust)
    BY <1>2 DEF S!Approved, Sound, S!Found
  <2>11. o # None BY <2>6 DEF S!SwapAssumption
  <2>12. Decisions'
    BY <1>2, <2>4, <2>6, <2>7, <2>8, <2>10, <2>11 DEF SwapInv, Decisions
  <2>13. \A r \in S!Runtime : S!Hears(r)' = S!Hears(r)
    BY <2>7, <2>8 DEF S!Hears
  <2>14. live # None => live.runtime # q.runtime /\ rt'[live.runtime] = rt[live.runtime]
                        /\ rt[live.runtime].ui = policy.interactive
    BY <1>2, <2>5, <2>8 DEF Replacing, SwapInv, InCharge
  <2>15. Replacing(o)'
    BY <1>2, <2>4, <2>6, <2>7, <2>8, <2>14 DEF Replacing
  <2>16. InCharge'
    BY <1>2, <2>4, <2>5, <2>8, <2>13, <2>14, <2>15 DEF SwapInv, InCharge
  <2>17. S!RetiredWereTold'
    <3>1. SUFFICES ASSUME NEW r \in 1 .. staged, ~rt'[r].active PROVE rt'[r].stopped
      BY <2>4 DEF S!RetiredWereTold
    <3>2. r \in S!Runtime BY DEF S!Runtime, SwapInv, SwapTypes, S!SwapAssumption
    <3> QED BY <2>7, <2>8, <3>1, <3>2 DEF S!RetiredWereTold, SwapInv
  <2> QED BY <2>9, <2>12, <2>16, <2>17 DEF SwapInv
<1> QED BY <1>3, <1>4

(* load returns: at startup its session is the live one, a replacement waits  *)
(* for the old runtime's handlers, or is closed if the decision was dismissed. *)
LEMMA LoadHolds ==
  ASSUME S!SwapAssumption, OneTask, SwapInv, NEW t \in Task, S!LoadReturns(t)
  PROVE  SwapInv'
<1>1. PICK q : q = op[t]
  OBVIOUS
<1>2. /\ q \in S!Operations /\ q # None /\ q.at = "opening" /\ q.trust # None /\ Sound(q.trust)
      /\ (q.inputs \/ rt[q.runtime].project => S!Approved(q.trust))
      /\ Replacing(q) /\ \A u \in Task : u = t
  BY <1>1 DEF S!LoadReturns, S!At, SwapInv, SwapTypes, OneTask, Decisions, InCharge
<1>3. /\ UNCHANGED <<policy, files, saved, cache, staged>> /\ q.runtime \in S!Runtime
      /\ rt[q.runtime] \in Runtimes /\ rt[q.runtime].active
      /\ live # None => live.runtime \in S!Runtime /\ live.runtime # q.runtime
  BY <1>2 DEF S!LoadReturns, S!Operations, SwapInv, SwapTypes, S!Published, Replacing
<1>4. PICK new : new = IF q.kind = "startup"
                       THEN [rt[q.runtime] EXCEPT !.bound = "session", !.listens = TRUE,
                                                  !.ui = policy.interactive]
                       ELSE IF q.trust.cancelled
                       THEN [rt[q.runtime] EXCEPT !.bound = "loaded", !.listens = TRUE,
                                                  !.stopped = TRUE]
                       ELSE [rt[q.runtime] EXCEPT !.bound = "loaded", !.listens = TRUE]
  OBVIOUS
<1>5. /\ new \in Runtimes /\ new.active /\ new.listens /\ new.project = rt[q.runtime].project
      /\ q.kind = "startup" => new.bound = "session" /\ new.ui = policy.interactive
      /\ q.kind # "startup" => new.bound = "loaded" /\ new.ui = rt[q.runtime].ui
  BY <1>2, <1>3, <1>4 DEF Runtimes, SwapInv, SwapTypes, S!Policy, S!Operations, S!Trusts
<1>6. ASSUME rt' = [rt EXCEPT ![q.runtime] = new]
      PROVE  /\ rt'[q.runtime] = new /\ \A r \in S!Runtime : r # q.runtime => rt'[r] = rt[r]
             /\ rt' \in [S!Runtime -> Runtimes]
             /\ S!RetiredWereTold'
  <2>1. /\ rt'[q.runtime] = new /\ \A r \in S!Runtime : r # q.runtime => rt'[r] = rt[r]
        /\ rt' \in [S!Runtime -> Runtimes]
    BY <1>3, <1>5, <1>6 DEF SwapInv, SwapTypes
  <2>2. SUFFICES ASSUME NEW r \in 1 .. staged, ~rt'[r].active PROVE rt'[r].stopped
    BY <1>3, <2>1 DEF S!RetiredWereTold
  <2>3. r \in S!Runtime BY DEF S!Runtime, SwapInv, SwapTypes, S!SwapAssumption
  <2> QED BY <1>5, <2>1, <2>2, <2>3 DEF S!RetiredWereTold, SwapInv
<1>7. CASE q.kind = "startup"
  <2>1. /\ live' = S!Snapshot(q) /\ op' = [op EXCEPT ![t] = [q EXCEPT !.at = "start"]]
        /\ rt' = [rt EXCEPT ![q.runtime] = new]
    BY <1>1, <1>4, <1>7 DEF S!LoadReturns, S!Goto
  <2>2. PICK o : o = [q EXCEPT !.at = "start"]
    OBVIOUS
  <2>3. /\ o \in S!Operations /\ o.kind = q.kind /\ o.dir = q.dir /\ o.runtime = q.runtime
        /\ o.trust = q.trust /\ o.inputs = q.inputs /\ o.at = "start"
    BY <1>2, <2>2 DEF S!Operations
  <2>4. op'[t] = o /\ op' \in [Task -> S!Operations \union {None}]
    BY <2>1, <2>2, <2>3 DEF SwapInv, SwapTypes
  <2>5. /\ live' \in S!Published /\ live' # None /\ live'.runtime = q.runtime
        /\ live'.inputs = q.inputs /\ live'.trust = q.trust
    BY <1>2, <2>1 DEF S!Snapshot, S!Published, S!SwapAssumption, S!Operations
  <2>6. SwapTypes'
    BY <1>3, <1>6, <2>1, <2>4, <2>5 DEF SwapInv, SwapTypes
  <2>7. o # None BY <2>3 DEF S!SwapAssumption
  <2>8. Decisions'
    BY <1>2, <1>3, <1>5, <1>6, <2>1, <2>3, <2>4, <2>7 DEF SwapInv, Decisions
  <2>9. \A r \in S!Runtime : S!Hears(r)' <=> r = q.runtime
    BY <1>2, <1>3, <1>5, <1>6, <1>7, <2>1 DEF S!Hears, Replacing, SwapInv, InCharge
  <2>10. Replacing(o)'
    BY <1>2, <1>3, <1>5, <1>6, <1>7, <2>1, <2>3, <2>5 DEF Replacing
  <2>11. InCharge'
    BY <1>2, <1>3, <1>5, <1>6, <1>7, <2>1, <2>4, <2>5, <2>9, <2>10 DEF InCharge, Replacing
  <2> QED BY <1>6, <2>1, <2>6, <2>8, <2>11 DEF SwapInv
<1>8. CASE q.kind # "startup"
  <2>1. live' = live /\ live # None
    BY <1>1, <1>2, <1>8 DEF S!LoadReturns, Replacing
  <2>2. rt' = [rt EXCEPT ![q.runtime] = new]
    <3>1. CASE q.trust.cancelled
      BY <1>1, <1>3, <1>4, <1>8, <3>1 DEF S!LoadReturns, Runtimes
    <3>2. CASE ~q.trust.cancelled
      BY <1>1, <1>2, <1>3, <1>4, <1>8, <3>2 DEF S!LoadReturns, Runtimes
    <3> QED BY <3>1, <3>2
  <2>3. \A r \in S!Runtime : S!Hears(r)' => S!Hears(r) /\ r # q.runtime
    BY <1>3, <1>5, <1>6, <1>8, <2>2 DEF S!Hears
  <2>4. \A r \in S!Runtime : r # q.runtime => S!Hears(r)' = S!Hears(r)
    BY <1>6, <2>2 DEF S!Hears
  <2>5. /\ S!Hears(live.runtime)' /\ rt'[live.runtime] = rt[live.runtime]
        /\ \A r \in S!Runtime : S!Hears(r)' => r = live.runtime
    BY <1>3, <1>6, <2>1, <2>2, <2>3, <2>4 DEF SwapInv, InCharge
  <2>6. CASE op' = [op EXCEPT ![t] = None]
    <3>1. op'[t] = None BY <2>6 DEF SwapInv, SwapTypes
    <3>2. SwapTypes' BY <1>3, <1>6, <2>1, <2>2, <2>6 DEF SwapInv, SwapTypes
    <3>3. Decisions' BY <1>2, <1>3, <3>1 DEF SwapInv, Decisions
    <3>4. InCharge' BY <1>2, <1>3, <2>1, <2>5, <3>1 DEF SwapInv, InCharge
    <3> QED BY <1>6, <2>2, <3>2, <3>3, <3>4 DEF SwapInv
  <2>7. CASE op' = [op EXCEPT ![t].at = "shutdown", ![t].old = live.runtime]
    <3>1. PICK o : o = [q EXCEPT !.at = "shutdown", !.old = live.runtime]
      OBVIOUS
    <3>2. /\ o \in S!Operations /\ o.kind = q.kind /\ o.dir = q.dir /\ o.runtime = q.runtime
          /\ o.trust = q.trust /\ o.inputs = q.inputs /\ o.at = "shutdown"
          /\ o.old = live.runtime
      BY <1>2, <1>3, <2>1, <3>1 DEF S!Operations
    <3>3. op' = [op EXCEPT ![t] = o]
      BY <1>1, <2>7, <3>1 DEF SwapInv, SwapTypes
    <3>4. op'[t] = o /\ op' \in [Task -> S!Operations \union {None}]
      BY <3>2, <3>3 DEF SwapInv, SwapTypes
    <3>5. SwapTypes'
      BY <1>3, <1>6, <2>1, <2>2, <3>4 DEF SwapInv, SwapTypes
    <3>6. o # None BY <3>2 DEF S!SwapAssumption
    <3>7. Decisions'
      BY <1>2, <1>3, <1>5, <1>6, <2>2, <3>2, <3>4, <3>6 DEF SwapInv, Decisions
    <3>8. Replacing(o)'
      BY <1>2, <1>3, <1>5, <1>6, <1>8, <2>1, <2>2, <3>2 DEF Replacing
    <3>9. InCharge'
      BY <1>2, <1>3, <2>1, <2>5, <3>4, <3>8 DEF SwapInv, InCharge
    <3> QED BY <1>6, <2>2, <3>5, <3>7, <3>9 DEF SwapInv
  <2> QED BY <1>1, <1>8, <2>6, <2>7 DEF S!LoadReturns
<1> QED BY <1>7, <1>8

(* The old runtime was told, and a reload hands the interface on.            *)
LEMMA ShutDownHolds ==
  ASSUME S!SwapAssumption, OneTask, SwapInv, NEW t \in Task, S!OldShutDown(t)
  PROVE  SwapInv'
<1>1. PICK q : q = op[t]
  OBVIOUS
<1>2. /\ q \in S!Operations /\ q # None /\ q.at = "shutdown" /\ q.trust # None /\ Sound(q.trust)
      /\ (q.inputs \/ rt[q.runtime].project => S!Approved(q.trust))
      /\ Replacing(q) /\ \A u \in Task : u = t
  BY <1>1 DEF S!OldShutDown, S!At, SwapInv, SwapTypes, OneTask, Decisions, InCharge
<1>3. /\ UNCHANGED <<policy, files, saved, cache, live, staged>>
      /\ q.runtime \in S!Runtime /\ rt[q.runtime] \in Runtimes
      /\ live # None /\ live.runtime \in S!Runtime /\ rt[live.runtime] \in Runtimes
      /\ q.old = live.runtime /\ live.runtime # q.runtime /\ q.kind # "startup"
  BY <1>2 DEF S!OldShutDown, S!Operations, SwapInv, SwapTypes, S!Published, Replacing
<1>4. PICK old : old = [rt[live.runtime] EXCEPT !.stopped = TRUE]
  OBVIOUS
<1>5. PICK new : new = IF q.kind = "reload"
                       THEN [rt[q.runtime] EXCEPT !.ui = rt[live.runtime].ui, !.bound = "session"]
                       ELSE rt[q.runtime]
  OBVIOUS
<1>6. /\ old \in Runtimes /\ old.stopped /\ old.active = rt[live.runtime].active
      /\ old.listens = rt[live.runtime].listens /\ old.bound = rt[live.runtime].bound
      /\ old.ui = rt[live.runtime].ui /\ old.project = rt[live.runtime].project
      /\ new \in Runtimes /\ new.active = rt[q.runtime].active
      /\ new.project = rt[q.runtime].project /\ new.listens = rt[q.runtime].listens
      /\ new.stopped = rt[q.runtime].stopped
      /\ q.kind = "reload" => new.ui = rt[live.runtime].ui
      /\ q.kind # "reload" => new = rt[q.runtime]
  BY <1>3, <1>4, <1>5 DEF Runtimes
<1>7. PICK o : o = [q EXCEPT !.at = "start"]
  OBVIOUS
<1>8. /\ o \in S!Operations /\ o.kind = q.kind /\ o.dir = q.dir /\ o.runtime = q.runtime
      /\ o.trust = q.trust /\ o.inputs = q.inputs /\ o.at = "start" /\ o.old = q.old
  BY <1>2, <1>7 DEF S!Operations
<1>9. op'[t] = o /\ op' \in [Task -> S!Operations \union {None}]
  BY <1>1, <1>7, <1>8 DEF S!OldShutDown, S!Goto, SwapInv, SwapTypes
<1>10. /\ rt'[live.runtime] = old /\ rt'[q.runtime] = new /\ rt' \in [S!Runtime -> Runtimes]
       /\ \A r \in S!Runtime : r # q.runtime /\ r # live.runtime => rt'[r] = rt[r]
  <2>1. CASE q.kind = "reload"
    BY <1>1, <1>3, <1>4, <1>5, <1>6, <2>1 DEF S!OldShutDown, SwapInv, SwapTypes
  <2>2. CASE q.kind # "reload"
    BY <1>1, <1>3, <1>4, <1>5, <1>6, <2>2 DEF S!OldShutDown, SwapInv, SwapTypes
  <2> QED BY <2>1, <2>2
<1>11. SwapTypes'
  BY <1>3, <1>9, <1>10 DEF SwapInv, SwapTypes
<1>12. o # None BY <1>8 DEF S!SwapAssumption
<1>13. Decisions'
  BY <1>2, <1>3, <1>6, <1>8, <1>9, <1>10, <1>12 DEF SwapInv, Decisions
<1>14. rt[live.runtime].ui = policy.interactive
  BY <1>3 DEF SwapInv, InCharge
<1>15. Replacing(o)'
  BY <1>2, <1>3, <1>6, <1>8, <1>10, <1>14 DEF Replacing
<1>16. ASSUME NEW r \in S!Runtime PROVE S!Hears(r)' => S!Hears(r)
  <2>1. CASE r = q.runtime
    BY <1>2, <1>3, <1>6, <1>10, <2>1 DEF S!Hears, Replacing
  <2>2. CASE r # q.runtime
    BY <1>3, <1>6, <1>10, <2>2 DEF S!Hears
  <2> QED BY <2>1, <2>2
<1>17. S!Hears(live.runtime)'
  BY <1>3, <1>6, <1>10 DEF S!Hears, SwapInv, InCharge
<1>18. InCharge'
  BY <1>2, <1>3, <1>6, <1>9, <1>10, <1>15, <1>16, <1>17 DEF SwapInv, InCharge
<1>19. S!RetiredWereTold'
  <2>1. SUFFICES ASSUME NEW r \in 1 .. staged, ~rt'[r].active PROVE rt'[r].stopped
    BY <1>3 DEF S!RetiredWereTold
  <2>2. r \in S!Runtime BY DEF S!Runtime, SwapInv, SwapTypes, S!SwapAssumption
  <2> QED BY <1>3, <1>6, <1>10, <2>1, <2>2 DEF S!RetiredWereTold, SwapInv
<1> QED BY <1>11, <1>13, <1>18, <1>19 DEF SwapInv

(* Publication: the new runtime is in charge, the old one can act no longer. *)
LEMMA PublishHolds ==
  ASSUME S!SwapAssumption, OneTask, SwapInv, NEW t \in Task, S!Publish(t)
  PROVE  SwapInv'
<1>1. PICK q : q = op[t]
  OBVIOUS
<1>2. /\ q \in S!Operations /\ q # None /\ q.at = "start" /\ q.trust # None /\ Sound(q.trust)
      /\ (q.inputs \/ rt[q.runtime].project => S!Approved(q.trust))
      /\ Replacing(q) /\ \A u \in Task : u = t
  BY <1>1 DEF S!Publish, S!At, SwapInv, SwapTypes, OneTask, Decisions, InCharge
<1>3. /\ UNCHANGED <<policy, files, saved, staged>> /\ op'[t] = None
      /\ op' \in [Task -> S!Operations \union {None}]
      /\ q.runtime \in S!Runtime /\ rt[q.runtime] \in Runtimes
      /\ live # None /\ live \in S!Published /\ live.runtime \in S!Runtime
      /\ rt[live.runtime] \in Runtimes
  BY <1>2 DEF S!Publish, S!Operations, SwapInv, SwapTypes, S!Published, Replacing
<1>4. /\ cache' \in [Dir -> S!Trusts \union {None}]
      /\ \A d \in Dir : cache'[d] # None => Sound(cache'[d])
  BY <1>1, <1>2 DEF S!Publish, S!Commit, S!Operations, SwapInv, SwapTypes, Decisions
<1>5. Decisions'
  BY <1>2, <1>3, <1>4 DEF Decisions
<1>6. CASE q.kind = "startup"
  <2>1. UNCHANGED <<live, rt>> BY <1>1, <1>6 DEF S!Publish
  <2>2. SwapTypes' BY <1>3, <1>4, <2>1 DEF SwapInv, SwapTypes
  <2>3. InCharge' BY <1>2, <1>3, <2>1 DEF SwapInv, InCharge, S!Hears
  <2>4. S!RetiredWereTold' BY <1>3, <2>1 DEF SwapInv, S!RetiredWereTold
  <2> QED BY <1>5, <2>2, <2>3, <2>4 DEF SwapInv
<1>7. CASE q.kind # "startup"
  <2>1. q.old = live.runtime /\ live.runtime # q.runtime /\ rt[live.runtime].stopped
    BY <1>2, <1>7 DEF Replacing
  <2>2. PICK new : new = [rt[q.runtime] EXCEPT !.bound = "session", !.listens = TRUE]
    OBVIOUS
  <2>3. PICK old : old = [rt[live.runtime] EXCEPT !.active = FALSE, !.listens = FALSE]
    OBVIOUS
  <2>4. /\ new \in Runtimes /\ old \in Runtimes
        /\ new.active = rt[q.runtime].active /\ new.listens /\ new.bound = "session"
        /\ new.ui = rt[q.runtime].ui /\ new.project = rt[q.runtime].project
        /\ ~old.active /\ old.stopped = rt[live.runtime].stopped
    BY <1>3, <2>2, <2>3 DEF Runtimes
  <2>5. /\ rt'[q.runtime] = new /\ rt'[live.runtime] = old
        /\ \A r \in S!Runtime : r # q.runtime /\ r # live.runtime => rt'[r] = rt[r]
        /\ rt' = [r \in S!Runtime |-> rt'[r]]
    BY <1>1, <1>3, <1>7, <2>1, <2>2, <2>3 DEF S!Publish, S!Retire
  <2>6. rt' \in [S!Runtime -> Runtimes]
    BY <2>4, <2>5 DEF SwapInv, SwapTypes
  <2>7. /\ live' \in S!Published /\ live'.runtime = q.runtime /\ live'.trust = q.trust
        /\ live'.inputs = q.inputs
    BY <1>1, <1>2, <1>3, <1>7 DEF S!Publish, S!Snapshot, S!Published, S!Operations
  <2>8. live' # None BY <2>7 DEF S!SwapAssumption
  <2>9. SwapTypes' BY <1>3, <1>4, <2>6, <2>7 DEF SwapInv, SwapTypes
  <2>10. ASSUME NEW r \in S!Runtime PROVE S!Hears(r)' <=> r = q.runtime
    <3>1. ~S!Hears(r) \/ r = live.runtime BY <1>3 DEF SwapInv, InCharge
    <3> QED BY <1>2, <2>1, <2>4, <2>5, <3>1 DEF S!Hears, Replacing
  <2>11. InCharge'
    <3>1. rt[q.runtime].ui = policy.interactive /\ q.runtime \in 1 .. staged
      BY <1>2, <1>7 DEF Replacing, S!Operations
    <3>2. rt'[live'.runtime] = new BY <2>5, <2>7
    <3>3. /\ rt'[live'.runtime].ui = policy'.interactive
          /\ live'.inputs \/ rt'[live'.runtime].project => S!Approved(live'.trust)
      BY <1>2, <1>3, <2>4, <2>7, <3>1, <3>2
    <3>4. S!Hears(live.runtime)' /\ \A r \in S!Runtime : S!Hears(r)' => r = live'.runtime
      <4>1. S!Hears(q.runtime)' BY <1>3, <2>10
      <4> QED BY <2>7, <2>10, <4>1 DEF S!Hears
    <3> QED BY <1>2, <1>3, <2>7, <2>8, <3>1, <3>3, <3>4 DEF InCharge
  <2>12. S!RetiredWereTold'
    <3>1. SUFFICES ASSUME NEW r \in 1 .. staged, ~rt'[r].active PROVE rt'[r].stopped
      BY <1>3 DEF S!RetiredWereTold
    <3>2. r \in S!Runtime BY DEF S!Runtime, SwapInv, SwapTypes, S!SwapAssumption
    <3> QED BY <1>2, <2>1, <2>4, <2>5, <3>1, <3>2 DEF S!RetiredWereTold, SwapInv, Replacing
  <2> QED BY <1>5, <2>9, <2>11, <2>12 DEF SwapInv
<1> QED BY <1>6, <1>7

(* What is decided by somebody is sound, and remembered or not.              *)
LEMMA Granted ==
  ASSUME NEW granted \in BOOLEAN, NEW source \in {"extension", "saved", "default", "ui"}
  PROVE  LET r == S!Resolution(granted, source, TRUE, FALSE)
         IN  r \in S!Trusts /\ r.source # "empty" /\ Sound(r)
BY DEF S!Resolution, S!Trusts, Sound

(* So is what comes of a question that was dismissed.                         *)
LEMMA Dismissed ==
  LET r == S!Resolution(FALSE, "ui", TRUE, TRUE)
  IN  r \in S!Trusts /\ r.source # "empty" /\ Sound(r)
BY DEF S!Resolution, S!Trusts, Sound

(* A decision that is remembered becomes the verdict of the directory.        *)
LEMMA Remembers ==
  ASSUME NEW t \in Task, NEW trusted \in BOOLEAN, S!Remember(t, trusted) \/ UNCHANGED saved
  PROVE  \E saves \in {TRUE, FALSE}, verdict \in {"trusted", "untrusted"} :
           saved' = IF saves THEN [saved EXCEPT ![op[t].dir] = verdict] ELSE saved
BY DEF S!Remember, S!Verdict

(* Every step of one operation at a time keeps the invariant.                *)
LEMMA SwapNext ==
  ASSUME S!SwapAssumption, OneTask, SwapInv, [S!Next]_(S!vars)
  PROVE  SwapInv'
<1>1. ASSUME NEW t \in Task, NEW d \in Dir, S!Load(t, d) \/ S!Resume(t, d) PROVE SwapInv'
  <2>1. CASE S!Load(t, d)
    BY <1>1, <2>1, StageHolds DEF S!Load
  <2>2. CASE S!Resume(t, d)
    BY <1>1, <2>2, StageHolds DEF S!Resume, S!Opened
  <2> QED BY <1>1, <2>1, <2>2
<1>2. ASSUME NEW t \in Task, S!Reload(t) \/ S!NewSession(t) PROVE SwapInv'
  <2>1. live # None /\ live.dir \in Dir
    BY <1>2 DEF S!Reload, S!NewSession, S!Opened, SwapInv, SwapTypes, S!Published
  <2> QED BY <1>2, <2>1, StageHolds DEF S!Reload, S!NewSession
<1>3. ASSUME NEW t \in Task, S!ExtensionDecides(t) PROVE SwapInv'
  <2>1. op[t] # None /\ op[t].at = "extensions" /\ UNCHANGED <<policy, files, cache, live, rt, staged>>
    BY <1>3 DEF S!ExtensionDecides, S!At
  <2>2. PICK trusted, remember, fails \in BOOLEAN :
          /\ S!Decide(t, S!Resolution(trusted /\ ~(remember /\ fails), "extension", TRUE, FALSE))
          /\ IF remember /\ ~fails THEN S!Remember(t, trusted) ELSE UNCHANGED saved
    BY <1>3 DEF S!ExtensionDecides
  <2>3. \E r \in S!Trusts : r.source # "empty" /\ Sound(r) /\ S!Decide(t, r)
    BY <2>2, Granted DEF Sound
  <2>4. \E saves \in {TRUE, FALSE}, verdict \in {"trusted", "untrusted"} :
          saved' = IF saves THEN [saved EXCEPT ![op[t].dir] = verdict] ELSE saved
    BY <2>2, Remembers
  <2> QED BY <2>1, <2>3, <2>4, DecideHolds
<1>4. ASSUME NEW t \in Task, S!ExtensionsDefer(t) PROVE SwapInv'
  <2>1. /\ op[t] # None /\ op[t].at = "extensions"
        /\ UNCHANGED <<policy, files, saved, cache, live, rt, staged>>
    BY <1>4 DEF S!ExtensionsDefer, S!At
  <2>2. \/ S!Goto(t, "prompt")
        \/ \E r \in S!Trusts : r.source # "empty" /\ Sound(r) /\ S!Decide(t, r)
    <3>1. \/ S!Goto(t, "prompt")
          \/ \E granted \in BOOLEAN, source \in {"saved", "default"} :
               S!Decide(t, S!Resolution(granted, source, TRUE, FALSE))
      BY <1>4, Zenon DEF S!ExtensionsDefer
    <3> QED BY <3>1, Granted DEF Sound
  <2> QED BY <2>1, <2>2, DecideHolds
<1>5. ASSUME NEW t \in Task, S!UserAnswers(t) PROVE SwapInv'
  <2>1. op[t] # None /\ op[t].at = "prompt" /\ UNCHANGED <<policy, files, cache, live, rt, staged>>
    BY <1>5 DEF S!UserAnswers, S!At
  <2>2. \E r \in S!Trusts : r.source # "empty" /\ Sound(r) /\ S!Decide(t, r)
    BY <1>5, Granted, Dismissed DEF S!UserAnswers
  <2>3. \E saves \in {TRUE, FALSE}, verdict \in {"trusted", "untrusted"} :
          saved' = IF saves THEN [saved EXCEPT ![op[t].dir] = verdict] ELSE saved
    BY <1>5, Remembers DEF S!UserAnswers
  <2> QED BY <2>1, <2>2, <2>3, DecideHolds
<1>6. ASSUME NEW t \in Task, S!Cancel(t) PROVE SwapInv'
  BY <1>6, CancelHolds DEF S!Cancel
<1>7. CASE S!FilesChange
  <2>1. \A t \in Task : op[t] # None => op[t].at # "decided"
    BY <1>7 DEF S!FilesChange, S!Between, S!At
  <2>2. UNCHANGED <<policy, saved, cache, live, rt, staged, op>> /\ files' \subseteq Dir
    BY <1>7 DEF S!FilesChange, SwapInv, SwapTypes
  <2>3. SwapTypes' BY <2>2 DEF SwapInv, SwapTypes
  <2>4. Decisions' BY <2>1, <2>2 DEF SwapInv, Decisions
  <2>5. InCharge' BY <2>2 DEF SwapInv, InCharge, S!Hears, Replacing
  <2>6. S!RetiredWereTold' BY <2>2 DEF SwapInv, S!RetiredWereTold
  <2> QED BY <2>3, <2>4, <2>5, <2>6 DEF SwapInv
<1>8. CASE S!OthersDecide \/ UNCHANGED S!vars
  <2>1. UNCHANGED <<policy, files, cache, live, rt, staged, op>>
    BY <1>8 DEF S!OthersDecide, S!vars
  <2>2. SwapTypes' BY <1>8, <2>1 DEF SwapInv, SwapTypes, S!OthersDecide, S!vars
  <2>4. Decisions' BY <2>1 DEF SwapInv, Decisions
  <2>5. InCharge' BY <2>1 DEF SwapInv, InCharge, S!Hears, Replacing
  <2>6. S!RetiredWereTold' BY <2>1 DEF SwapInv, S!RetiredWereTold
  <2> QED BY <2>2, <2>4, <2>5, <2>6 DEF SwapInv
<1> QED
  BY <1>1, <1>2, <1>3, <1>4, <1>5, <1>6, <1>7, <1>8, ReadHolds, LoadHolds, ShutDownHolds,
     PublishHolds DEF S!Next, S!Operation

(* While no two operations overlap, whatever they await fails or is           *)
(* cancelled and however files and decisions change, one runtime hears the   *)
(* session, the interface stays attached, no runtime is retired untold, and  *)
(* nothing of a project is read that was not approved.                       *)
THEOREM SwapIsAlwaysSafe ==
  ASSUME OneTask
  PROVE  Spec => []SwapIsSafe
<1>1. Init => SwapInv
  <2> SUFFICES ASSUME Init PROVE SwapInv
    OBVIOUS
  <2> USE DEF Init, S!Init
  <2>1. S!NoRuntime \in Runtimes /\ ~S!NoRuntime.active
    BY DEF S!NoRuntime, Runtimes
  <2>2. SwapTypes
    BY <2>1, PartsAssumption DEF SwapTypes, S!SwapAssumption, S!Runtime
  <2>3. Decisions
    BY DEF Decisions
  <2>4. InCharge
    BY <2>1 DEF InCharge, S!Hears
  <2>5. S!RetiredWereTold
    BY DEF S!RetiredWereTold
  <2> QED BY <2>2, <2>3, <2>4, <2>5 DEF SwapInv
<1>2. SwapInv /\ [Next]_vars => SwapInv'
  <2>1. [Next]_vars => [S!Next]_(S!vars)
    BY DEF Next, vars, swapVars, S!vars
  <2> QED BY <2>1, OneTask, PartsAssumption, SwapNext
<1>3. SwapInv => SwapIsSafe
  <2> SUFFICES ASSUME SwapInv PROVE SwapIsSafe
    OBVIOUS
  <2>1. S!ReadOnlyIfApproved
    BY DEF SwapInv, InCharge, Decisions, S!ReadOnlyIfApproved
  <2>2. S!OneRuntimeHears
    BY DEF SwapInv, InCharge, S!OneRuntimeHears, SwapTypes, S!Published
  <2>3. S!InterfaceStaysAttached
    BY DEF SwapInv, InCharge, S!InterfaceStaysAttached
  <2> QED BY <2>1, <2>2, <2>3 DEF SwapInv, SwapIsSafe, S!SwapIsSafe
<1> QED BY <1>1, <1>2, <1>3, PTL DEF Spec

-----------------------------------------------------------------------------
(***************************************************************************)
(* ContextBudget: the anchor of the estimate is current.                   *)
(***************************************************************************)
(* A row of the context.                                                     *)
ContextRow == [id : Nat, role : {"user", "assistant", "tool"}, size : Nat, at : Nat,
               of : Seq(Nat), summary : BOOLEAN]

(* The ids of the first i rows, as a reply to them records them.             *)
Prefix(s, i) == [k \in 1 .. i |-> s[k].id]

(* Rows are stamped in the order they were made, but for the summaries, which *)
(* are stamped again; and a reply that is not older than anything before it   *)
(* was made of exactly what is before it.                                    *)
Stamped(s) ==
  /\ \A i \in 1 .. Len(s) : s[i].at <= now /\ (s[i].summary => s[i].of = << >>)
  /\ \A i, j \in 1 .. Len(s) : i < j /\ ~s[i].summary => s[i].at <= s[j].at
Describes(s) ==
  \A i \in 1 .. Len(s) :
    s[i].of # << >> /\ (\A j \in 1 .. i - 1 : s[j].at <= s[i].at) => s[i].of = Prefix(s, i)
Current(s) == Stamped(s) /\ Describes(s)

(* The inductive invariant: also what a compaction replaced is current, for  *)
(* a branch may return to it.                                                *)
BudgetInv ==
  /\ rows \in Seq(ContextRow) /\ before \in Seq(ContextRow) /\ now \in Nat /\ messages \in Nat
  /\ Current(rows) /\ Current(before)

(* A set of positions that is not empty has a least one.                     *)
LEMMA LeastPosition ==
  ASSUME NEW T, T \subseteq Nat, T # {}
  PROVE  \E x \in T : \A y \in T : x <= y
<1> DEFINE Less == OpToRel(<, Nat)
<1>1. IsWellFoundedOn(Less, Nat)
  BY NatLessThanWellFounded
<1>2. \A x, y \in Nat : y < x => <<y, x>> \in Less
  BY DEF OpToRel
<1> HIDE DEF Less
<1>3. PICK x \in T : \A y \in T : ~(<<y, x>> \in Less)
  BY <1>1, WFMin
<1>4. ASSUME NEW y \in T PROVE x <= y
  <2>1. x \in Nat /\ y \in Nat OBVIOUS
  <2>2. ~(y < x) BY <1>2, <1>3, <2>1, Zenon
  <2> QED BY <2>1, <2>2
<1> QED BY <1>4

(* And a bounded one has a greatest one.                                     *)
LEMMA Extremes ==
  ASSUME NEW n \in Nat, NEW T, T \subseteq 0 .. n, T # {}
  PROVE  B!Max(T) \in T /\ B!Min(T) \in T /\ \A x \in T : x <= B!Max(T) /\ B!Min(T) <= x
<1>1. \E x \in T : \A y \in T : x <= y
  <2>1. T \subseteq Nat OBVIOUS
  <2> QED BY <2>1, LeastPosition
<1>2. \E x \in T : \A y \in T : y <= x
  <2> DEFINE U == {n - x : x \in T}
  <2>1. U \subseteq Nat
    <3>1. \A x \in T : n - x \in Nat OBVIOUS
    <3> QED BY <3>1
  <2>2. U # {} OBVIOUS
  <2>3. \E u \in U : \A v \in U : u <= v
    <3> HIDE DEF U
    <3> QED BY <2>1, <2>2, LeastPosition
  <2>4. PICK x \in T : \A v \in U : n - x <= v
    BY <2>3
  <2>5. ASSUME NEW y \in T PROVE y <= x
    <3>1. n - x <= n - y BY <2>4
    <3>2. x \in 0 .. n /\ y \in 0 .. n OBVIOUS
    <3> QED BY <3>1, <3>2
  <2> QED BY <2>5
<1> QED BY <1>1, <1>2 DEF B!Max, B!Min

(* The rows up to some position are as current as all of them.               *)
LEMMA PrefixCurrent ==
  ASSUME NEW s \in Seq(ContextRow), Current(s), NEW n \in 0 .. Len(s), now \in Nat
  PROVE  SubSeq(s, 1, n) \in Seq(ContextRow) /\ Len(SubSeq(s, 1, n)) = n /\ Current(SubSeq(s, 1, n))
<1>1. PICK p : p = SubSeq(s, 1, n) OBVIOUS
<1>2. p \in Seq(ContextRow) /\ Len(p) = n /\ \A i \in 1 .. n : p[i] = s[i]
  BY <1>1, SubSeqProperties, ElementOfSeq
<1>3. \A i \in 1 .. n : i \in 1 .. Len(s) OBVIOUS
<1>4. Stamped(p) BY <1>2, <1>3 DEF Current, Stamped
<1>5. ASSUME NEW i \in 1 .. n PROVE Prefix(p, i) = Prefix(s, i)
  BY <1>2 DEF Prefix
<1>6. Describes(p)
  BY <1>2, <1>3, <1>5 DEF Current, Describes
<1> QED BY <1>1, <1>2, <1>4, <1>6 DEF Current

(* Summaries that are stamped anew are no older than anything, which only     *)
(* takes replies out of the choice.                                          *)
LEMMA ReplayedCurrent ==
  ASSUME NEW s \in Seq(ContextRow), Current(s), now \in Nat
  PROVE  B!Replayed(s) \in Seq(ContextRow) /\ Len(B!Replayed(s)) = Len(s) /\ Current(B!Replayed(s))
<1>1. PICK p : p = B!Replayed(s) OBVIOUS
<1>2. /\ \A i \in 1 .. Len(s) : s[i] \in ContextRow
      /\ DOMAIN s = 1 .. Len(s) /\ Len(s) \in Nat
  BY ElementOfSeq, LenProperties
<1>3. \A i \in 1 .. Len(s) : p[i] = IF s[i].summary THEN [s[i] EXCEPT !.at = now] ELSE s[i]
  BY <1>1, <1>2 DEF B!Replayed
<1>4. \A i \in 1 .. Len(s) : /\ p[i] \in ContextRow /\ p[i].id = s[i].id /\ p[i].of = s[i].of
                             /\ p[i].summary = s[i].summary
                             /\ p[i].at = IF s[i].summary THEN now ELSE s[i].at
  BY <1>2, <1>3 DEF ContextRow
<1>5. p \in Seq(ContextRow) /\ Len(p) = Len(s)
  BY <1>1, <1>2, <1>4 DEF B!Replayed
<1>6. Stamped(p)
  <2>1. \A i \in 1 .. Len(s) : p[i].at <= now /\ (p[i].summary => p[i].of = << >>)
    BY <1>4 DEF Current, Stamped
  <2>2. ASSUME NEW i \in 1 .. Len(s), NEW j \in 1 .. Len(s), i < j, ~p[i].summary
        PROVE  p[i].at <= p[j].at
    <3>1. s[i].at <= s[j].at /\ s[i].at <= now /\ p[i].at = s[i].at
      BY <1>4, <2>2 DEF Current, Stamped
    <3>2. p[j].at = now \/ p[j].at = s[j].at BY <1>4
    <3> QED BY <3>1, <3>2
  <2> QED BY <1>5, <2>1, <2>2 DEF Stamped
<1>7. Describes(p)
  <2>1. SUFFICES ASSUME NEW i \in 1 .. Len(s), p[i].of # << >>,
                        \A j \in 1 .. i - 1 : p[j].at <= p[i].at
                 PROVE  p[i].of = Prefix(p, i)
    BY <1>5 DEF Describes
  <2>2. ~s[i].summary BY <1>4, <2>1 DEF Current, Stamped
  <2>3. ASSUME NEW j \in 1 .. i - 1 PROVE s[j].at <= s[i].at
    <3>1. j \in 1 .. Len(s) /\ p[j].at <= p[i].at /\ p[i].at = s[i].at BY <1>4, <2>1, <2>2
    <3>2. CASE s[j].summary
      <4>1. p[j].at = now /\ s[j].at <= now BY <1>4, <3>1, <3>2 DEF Current, Stamped
      <4>2. s[i].at \in Nat /\ s[j].at \in Nat BY <1>2, <3>1 DEF ContextRow
      <4> QED BY <3>1, <4>1, <4>2
    <3>3. CASE ~s[j].summary
      BY <1>4, <3>1, <3>3
    <3> QED BY <3>2, <3>3
  <2>4. s[i].of = Prefix(s, i) BY <1>4, <2>1, <2>3 DEF Current, Describes
  <2>5. Prefix(p, i) = Prefix(s, i) BY <1>4 DEF Prefix
  <2> QED BY <1>4, <2>4, <2>5
<1> QED BY <1>1, <1>5, <1>6, <1>7 DEF Current

(* A row made now, with its usage or without, may follow any rows.           *)
LEMMA AppendCurrent ==
  ASSUME NEW s \in Seq(ContextRow), Current(s), now \in Nat, NEW x \in ContextRow,
         x.at = now, x.summary => x.of = << >>,
         x.of \in {<< >>, Append(B!Ids(s), x.id)}
  PROVE  Append(s, x) \in Seq(ContextRow) /\ Current(Append(s, x))
<1>1. PICK p : p = Append(s, x) OBVIOUS
<1>2. /\ \A i \in 1 .. Len(s) : s[i] \in ContextRow
      /\ DOMAIN s = 1 .. Len(s) /\ Len(s) \in Nat
  BY ElementOfSeq, LenProperties
<1>3. /\ p \in Seq(ContextRow) /\ Len(p) = Len(s) + 1 /\ p[Len(s) + 1] = x
      /\ \A i \in 1 .. Len(s) : p[i] = s[i]
  BY <1>1, AppendProperties
<1>4. Stamped(p)
  <2>1. ASSUME NEW i \in 1 .. Len(s) + 1
        PROVE  p[i].at <= now /\ (p[i].summary => p[i].of = << >>)
    <3>1. CASE i = Len(s) + 1
      BY <1>3, <3>1
    <3>2. CASE i # Len(s) + 1
      <4>1. i \in 1 .. Len(s) /\ p[i] = s[i] BY <1>2, <1>3, <3>2
      <4> QED BY <4>1 DEF Current, Stamped
    <3> QED BY <3>1, <3>2
  <2>2. ASSUME NEW i \in 1 .. Len(s) + 1, NEW j \in 1 .. Len(s) + 1, i < j, ~p[i].summary
        PROVE  p[i].at <= p[j].at
    <3>1. i \in 1 .. Len(s) /\ p[i] = s[i] BY <1>2, <1>3, <2>2
    <3>2. CASE j = Len(s) + 1
      BY <1>3, <2>1, <3>2
    <3>3. CASE j # Len(s) + 1
      BY <1>2, <1>3, <2>2, <3>1, <3>3 DEF Current, Stamped
    <3> QED BY <3>2, <3>3
  <2> QED BY <1>3, <2>1, <2>2 DEF Stamped
<1>5. Append(B!Ids(s), x.id) = Prefix(p, Len(s) + 1)
  <2>1. B!Ids(s) = [i \in 1 .. Len(s) |-> s[i].id] BY <1>2 DEF B!Ids
  <2>2. B!Ids(s) \in Seq(Nat) /\ Len(B!Ids(s)) = Len(s) /\ x.id \in Nat
    BY <1>2, <2>1 DEF ContextRow
  <2>3. /\ Append(B!Ids(s), x.id) \in Seq(Nat) /\ Len(Append(B!Ids(s), x.id)) = Len(s) + 1
        /\ Append(B!Ids(s), x.id)[Len(s) + 1] = x.id
        /\ \A i \in 1 .. Len(s) : Append(B!Ids(s), x.id)[i] = s[i].id
    BY <2>1, <2>2, AppendProperties
  <2>4. Prefix(p, Len(s) + 1) \in Seq(Nat) /\ Len(Prefix(p, Len(s) + 1)) = Len(s) + 1
    <3>1. ASSUME NEW k \in 1 .. Len(s) + 1 PROVE p[k].id \in Nat
      <4>1. k \in 1 .. Len(p) BY <1>3
      <4>2. p[k] \in ContextRow BY <1>3, <4>1, ElementOfSeq
      <4> QED BY <4>2 DEF ContextRow
    <3>2. Len(s) + 1 \in Nat BY <1>2
    <3> QED BY <3>1, <3>2 DEF Prefix
  <2> QED BY <1>2, <1>3, <2>3, <2>4, SeqEqual DEF Prefix
<1>6. Describes(p)
  <2>1. ASSUME NEW i \in 1 .. Len(s) PROVE Prefix(p, i) = Prefix(s, i)
    BY <1>3 DEF Prefix
  <2>2. ASSUME NEW i \in 1 .. Len(s), p[i].of # << >>, \A j \in 1 .. i - 1 : p[j].at <= p[i].at
        PROVE  p[i].of = Prefix(p, i)
    BY <1>2, <1>3, <2>1, <2>2 DEF Current, Describes
  <2>3. x.of # << >> => x.of = Prefix(p, Len(s) + 1) BY <1>5
  <2> QED BY <1>2, <1>3, <2>2, <2>3 DEF Describes
<1> QED BY <1>1, <1>3, <1>4, <1>6 DEF Current

(* A summary is made now.                                                    *)
LEMMA SummaryIsNew ==
  ASSUME now \in Nat, messages \in Nat
  PROVE  B!Summary \in ContextRow /\ B!Summary.at = now /\ B!Summary.of = << >> /\ B!Summary.summary
<1>1. PICK r : r = B!Row("user", SummarySize, << >>) OBVIOUS
<1>2. r \in ContextRow /\ r.at = now /\ r.of = << >>
  <2>1. SummarySize \in Nat /\ messages + 1 \in Nat /\ << >> \in Seq(Nat)
    BY PartsAssumption DEF B!BudgetAssumption
  <2> QED BY <1>1, <2>1 DEF B!Row, ContextRow
<1>3. B!Summary = [r EXCEPT !.summary = TRUE] BY <1>1 DEF B!Summary
<1> QED BY <1>2, <1>3 DEF ContextRow

(* What takes the place of the first n rows is a summary made now, which is   *)
(* newer than any reply that is kept: none of them is an anchor any more.     *)
LEMMA CompactedCurrent ==
  ASSUME NEW s \in Seq(ContextRow), Current(s), now \in Nat, messages \in Nat,
         s[Len(s)].at < now, NEW n \in 0 .. Len(s)
  PROVE  B!Compacted(s, n) \in Seq(ContextRow) /\ Current(B!Compacted(s, n))
<1>1. PICK x : x = B!Summary OBVIOUS
<1>2. x \in ContextRow /\ x.at = now /\ x.of = << >> /\ x.summary
  BY <1>1, SummaryIsNew
<1>3. PICK t : t = SubSeq(s, n + 1, Len(s)) OBVIOUS
<1>4. /\ \A i \in 1 .. Len(s) : s[i] \in ContextRow
      /\ DOMAIN s = 1 .. Len(s) /\ Len(s) \in Nat
  BY ElementOfSeq, LenProperties
<1>5. t \in Seq(ContextRow) /\ Len(t) = Len(s) - n /\ \A i \in 1 .. Len(s) - n : t[i] = s[n + i]
  <2>1. n + 1 \in 1 .. Len(s) + 1 /\ Len(s) \in n + 1 - 1 .. Len(s) BY <1>4
  <2>2. t \in Seq(ContextRow) BY <1>3, <1>4, <2>1
  <2>3. Len(t) = Len(s) - n
    <3>1. Len(t) = IF n + 1 <= Len(s) THEN Len(s) - (n + 1) + 1 ELSE 0
      BY <1>3, <1>4, <2>1, SubSeqProperties
    <3>2. Len(s) \in Nat /\ n \in Nat /\ n <= Len(s) BY <1>4
    <3>3. CASE n = Len(s)
      <4>1. Len(t) = 0 BY <3>1, <3>2, <3>3
      <4> QED BY <3>2, <3>3, <4>1
    <3>4. CASE n # Len(s)
      BY <3>1, <3>2, <3>4
    <3> QED BY <3>3, <3>4
  <2>4. \A i \in 1 .. Len(s) - n : t[i] = s[n + i] BY <1>3, <1>4, <2>1
  <2> QED BY <2>2, <2>3, <2>4
<1>6. PICK q : q = << x >> \o t OBVIOUS
<1>7. /\ q \in Seq(ContextRow) /\ Len(q) = Len(s) - n + 1 /\ q[1] = x
      /\ \A i \in 2 .. Len(s) - n + 1 : q[i] = s[n + i - 1]
  BY <1>2, <1>4, <1>5, <1>6
<1>8. Stamped(q)
  <2>1. ASSUME NEW i \in 1 .. Len(q)
        PROVE  q[i].at <= now /\ (q[i].summary => q[i].of = << >>)
    <3>1. CASE i = 1
      BY <1>2, <1>7, <3>1
    <3>2. CASE i # 1
      <4>1. q[i] = s[n + i - 1] /\ n + i - 1 \in 1 .. Len(s) BY <1>4, <1>7, <3>2
      <4> QED BY <4>1 DEF Current, Stamped
    <3> QED BY <3>1, <3>2
  <2>2. ASSUME NEW i \in 1 .. Len(q), NEW j \in 1 .. Len(q), i < j, ~q[i].summary
        PROVE  q[i].at <= q[j].at
    <3>1. i # 1 BY <1>2, <1>7, <2>2
    <3>2. /\ q[i] = s[n + i - 1] /\ n + i - 1 \in 1 .. Len(s) /\ n + i - 1 < n + j - 1
          /\ q[j] = s[n + j - 1] /\ n + j - 1 \in 1 .. Len(s)
      BY <1>4, <1>7, <2>2, <3>1
    <3> QED BY <2>2, <3>2 DEF Current, Stamped
  <2> QED BY <2>1, <2>2 DEF Stamped
<1>9. ASSUME NEW i \in 1 .. Len(q), q[i].of # << >>, \A j \in 1 .. i - 1 : q[j].at <= q[i].at
      PROVE  FALSE
  <2>1. i # 1 BY <1>2, <1>7, <1>9
  <2>2. q[i] = s[n + i - 1] /\ n + i - 1 \in 1 .. Len(s) BY <1>4, <1>7, <2>1
  <2>3. ~s[n + i - 1].summary BY <1>9, <2>2 DEF Current, Stamped
  <2>4. s[n + i - 1].at <= s[Len(s)].at
    <3>1. CASE n + i - 1 = Len(s)
      <4>1. s[n + i - 1].at \in Nat BY <1>4, <2>2 DEF ContextRow
      <4> QED BY <3>1, <4>1
    <3>2. CASE n + i - 1 # Len(s)
      BY <1>4, <2>2, <2>3, <3>2 DEF Current, Stamped
    <3> QED BY <3>1, <3>2
  <2>5. 1 \in 1 .. i - 1 BY <1>4, <1>7, <2>1
  <2>6. now <= q[i].at BY <1>2, <1>7, <1>9, <2>5
  <2>7. s[n + i - 1].at \in Nat /\ s[Len(s)].at \in Nat
    <3>1. Len(s) \in 1 .. Len(s) BY <1>4, <2>2
    <3> QED BY <1>4, <2>2, <3>1 DEF ContextRow
  <2> QED BY <2>2, <2>4, <2>6, <2>7
<1>10. Current(q)
  BY <1>8, <1>9 DEF Current, Describes
<1>11. B!Compacted(s, n) = B!Replayed(q)
  BY <1>1, <1>3, <1>6 DEF B!Compacted
<1> QED BY <1>7, <1>10, <1>11, ReplayedCurrent

(* A compaction replaces no more rows than there are.                        *)
LEMMA PlanIsAPart ==
  ASSUME NEW s \in Seq(ContextRow)
  PROVE  B!Plan(s) \in 0 .. Len(s)
<1> DEFINE recent == {i \in DOMAIN s : B!Tokens(SubSeq(s, i, Len(s))) >= KeepRecent}
<1> DEFINE user(from) == {i \in from .. Len(s) : s[i].role = "user"}
<1> DEFINE other(from) == {i \in from .. Len(s) : s[i].role # "tool"}
<1> DEFINE c == B!Max(recent)
<1> DEFINE after == user(IF s[c].role = "user" THEN 2 ELSE c + 1)
<1>1. Len(s) \in Nat /\ DOMAIN s = 1 .. Len(s)
  BY LenProperties
<1>2. CASE recent = {}
  <2>1. B!FirstRecent(s) = 0 BY <1>2 DEF B!FirstRecent
  <2> QED BY <1>1, <2>1 DEF B!Plan
<1>3. CASE recent # {}
  <2>1. c \in 1 .. Len(s)
    <3>1. recent \subseteq 0 .. Len(s) /\ recent \subseteq 1 .. Len(s) BY <1>1
    <3> HIDE DEF recent
    <3> QED BY <1>1, <1>3, <3>1, Extremes
  <2> HIDE DEF c
  <2>2. after # {} => B!Min(after) - 1 \in 0 .. Len(s)
    <3>1. after \subseteq 1 .. Len(s) /\ after \subseteq 0 .. Len(s) BY <1>1, <2>1
    <3> HIDE DEF after
    <3>2. after # {} => B!Min(after) \in 1 .. Len(s) BY <1>1, <3>1, Extremes
    <3> QED BY <1>1, <3>2
  <2>3. other(c) # {} => B!Min(other(c)) - 1 \in 0 .. Len(s)
    <3> DEFINE o == other(c)
    <3>1. o \subseteq 1 .. Len(s) /\ o \subseteq 0 .. Len(s) BY <1>1, <2>1
    <3> HIDE DEF o
    <3>2. o # {} => B!Min(o) \in 1 .. Len(s) BY <1>1, <3>1, Extremes
    <3>3. o # {} => B!Min(o) - 1 \in 0 .. Len(s) BY <1>1, <3>2
    <3> QED BY <3>3 DEF o
  <2>4. B!FirstRecent(s) =
          IF s[c].role = "user" /\ c > 1 THEN c - 1
          ELSE IF after # {} THEN B!Min(after) - 1
          ELSE IF s[c].role = "user" THEN 0
          ELSE IF other(c) # {} THEN B!Min(other(c)) - 1 ELSE Len(s)
    BY <1>3, Zenon DEF B!FirstRecent, c
  <2> HIDE DEF after, other
  <2>5. c - 1 \in 0 .. Len(s) BY <1>1, <2>1
  <2>6. B!FirstRecent(s) \in 0 .. Len(s)
    BY <1>1, <2>2, <2>3, <2>4, <2>5
  <2> QED BY <1>1, <2>6 DEF B!Plan
<1> QED BY <1>2, <1>3

(* A step that leaves rows that are current, and remembers ones that are.     *)
LEMMA KeepsCurrent ==
  ASSUME BudgetInv, now' = now, messages' \in Nat, before' \in {before, rows},
         NEW q \in Seq(ContextRow), Current(q), rows' = q
  PROVE  BudgetInv'
<1>1. PICK n : n = now OBVIOUS
<1>2. PICK b : b \in Seq(ContextRow) /\ Current(b) /\ before' = b
  BY DEF BudgetInv
<1>3. now' = n /\ n \in Nat BY <1>1 DEF BudgetInv
<1>4. Current(rows)' BY <1>1, <1>3 DEF Current, Stamped, Describes, Prefix
<1>5. Current(before)' BY <1>1, <1>2, <1>3 DEF Current, Stamped, Describes, Prefix
<1> QED BY <1>2, <1>3, <1>4, <1>5 DEF BudgetInv

(* A message of a prompt, a reply or a tool.                                  *)
LEMMA AddHolds ==
  ASSUME BudgetInv, NEW role \in {"user", "assistant", "tool"}, NEW size \in Nat,
         NEW of \in {<< >>, Append(B!Ids(rows), messages + 1)}, B!Add(role, size, of)
  PROVE  BudgetInv'
<1>1. PICK x : x = B!Row(role, size, of) OBVIOUS
<1>2. PICK s : s = rows OBVIOUS
<1>3. s \in Seq(ContextRow) /\ Current(s) /\ now \in Nat /\ messages \in Nat
  BY <1>2 DEF BudgetInv
<1>4. of \in Seq(Nat)
  <2>1. DOMAIN s = 1 .. Len(s) /\ Len(s) \in Nat /\ \A i \in 1 .. Len(s) : s[i] \in ContextRow
    BY <1>3, LenProperties, ElementOfSeq
  <2>2. B!Ids(s) \in Seq(Nat) BY <2>1 DEF B!Ids, ContextRow
  <2>3. Append(B!Ids(s), messages + 1) \in Seq(Nat) BY <1>3, <2>2, AppendProperties
  <2>4. << >> \in Seq(Nat) OBVIOUS
  <2> QED BY <1>2, <2>3, <2>4
<1>5. x \in ContextRow /\ x.at = now /\ ~x.summary /\ x.of = of /\ x.id = messages + 1
  BY <1>1, <1>3, <1>4 DEF B!Row, ContextRow
<1>6. Append(s, x) \in Seq(ContextRow) /\ Current(Append(s, x))
  BY <1>2, <1>3, <1>5, AppendCurrent
<1>7. PICK q : q = Append(s, x) OBVIOUS
<1>8. rows' = q /\ before' = before /\ now' = now /\ messages' \in Nat
  BY <1>1, <1>2, <1>3, <1>7 DEF B!Add
<1> QED BY <1>6, <1>7, <1>8, KeepsCurrent

(* branch_to_entry, on either side of the last compaction.                   *)
LEMMA BranchHolds ==
  ASSUME BudgetInv, NEW s \in Seq(ContextRow), Current(s), NEW n, NEW summarize \in BOOLEAN,
         B!Branch(s, n, summarize)
  PROVE  BudgetInv'
<1>1. now \in Nat /\ messages \in Nat BY DEF BudgetInv
<1>2. n \in 1 .. Len(s) /\ Len(s) \in Nat BY DEF B!Branch
<1>3. now' = now /\ before' = before /\ messages' \in Nat
  BY <1>1 DEF B!Branch
<1>4. CASE summarize
  <2>1. PICK p : p = B!Replayed(SubSeq(s, 1, n)) OBVIOUS
  <2>2. p \in Seq(ContextRow) /\ Current(p)
    <3>1. PICK r : r = SubSeq(s, 1, n) OBVIOUS
    <3>2. r \in Seq(ContextRow) /\ Current(r) BY <1>1, <1>2, <3>1, PrefixCurrent
    <3> QED BY <1>1, <2>1, <3>1, <3>2, ReplayedCurrent
  <2>3. PICK x : x = B!Summary OBVIOUS
  <2>4. x \in ContextRow /\ x.at = now /\ x.of = << >>
    BY <1>1, <2>3, SummaryIsNew
  <2>5. PICK q : q = Append(p, x) OBVIOUS
  <2>6. q \in Seq(ContextRow) /\ Current(q)
    BY <1>1, <2>2, <2>4, <2>5, AppendCurrent
  <2>7. rows' = q BY <1>4, <2>1, <2>3, <2>5 DEF B!Branch
  <2> QED BY <1>3, <2>6, <2>7, KeepsCurrent
<1>5. CASE ~summarize
  <2>1. PICK k : k = IF s[n].role = "user" THEN n - 1 ELSE n OBVIOUS
  <2>2. k \in 0 .. Len(s) BY <1>2, <2>1
  <2>3. PICK q : q = B!Replayed(SubSeq(s, 1, k)) OBVIOUS
  <2>4. q \in Seq(ContextRow) /\ Current(q)
    BY <1>1, <2>2, <2>3, PrefixCurrent, ReplayedCurrent
  <2>5. rows' = q BY <1>5, <2>1, <2>3 DEF B!Branch
  <2> QED BY <1>3, <2>4, <2>5, KeepsCurrent
<1> QED BY <1>4, <1>5

(* Every step keeps the rows current.                                         *)
LEMMA BudgetNext ==
  ASSUME BudgetInv, B!Next
  PROVE  BudgetInv'
<1>1. /\ rows \in Seq(ContextRow) /\ Current(rows) /\ now \in Nat /\ messages \in Nat
      /\ before \in Seq(ContextRow) /\ Current(before)
  BY DEF BudgetInv
<1>2. \A size \in Sizes : size \in Nat
  BY PartsAssumption DEF B!BudgetAssumption
<1>3. PICK s : s = rows OBVIOUS
<1>4. ASSUME NEW size \in Sizes, B!Prompt(size) \/ B!PromptAfter(size) PROVE BudgetInv'
  BY <1>2, <1>4, AddHolds DEF B!Prompt, B!PromptAfter
<1>5. ASSUME NEW size \in Sizes, B!ToolResult(size) PROVE BudgetInv'
  BY <1>2, <1>5, AddHolds DEF B!ToolResult
<1>6. ASSUME NEW size \in Sizes, NEW calls \in BOOLEAN, NEW reports \in BOOLEAN,
             B!Reply(size, calls, reports)
      PROVE  BudgetInv'
  <2>1. PICK of : of = IF reports THEN Append(B!Ids(rows), messages + 1) ELSE << >> OBVIOUS
  <2>2. of \in {<< >>, Append(B!Ids(rows), messages + 1)} BY <2>1
  <2>3. B!Add("assistant", size, of) BY <1>6, <2>1 DEF B!Reply
  <2> QED BY <1>2, <2>2, <2>3, AddHolds
<1>7. CASE B!CompactFirst \/ B!CompactionFails
  BY <1>1, <1>3, <1>7, KeepsCurrent DEF B!CompactFirst, B!CompactionFails
<1>8. CASE B!Overflow
  BY <1>8, AddHolds DEF B!Overflow
<1>9. CASE B!Compact
  <2>1. s[Len(s)].at < now
    BY <1>3, <1>9 DEF B!Compact, B!Last
  <2>2. B!Plan(s) \in 0 .. Len(s) BY <1>1, <1>3, PlanIsAPart
  <2>3. PICK q : q = B!Compacted(s, B!Plan(s)) OBVIOUS
  <2>4. q \in Seq(ContextRow) /\ Current(q)
    BY <1>1, <1>3, <2>1, <2>2, <2>3, CompactedCurrent
  <2>5. rows' = q /\ before' = rows /\ now' = now /\ messages' \in Nat
    BY <1>1, <1>3, <1>9, <2>3 DEF B!Compact
  <2> QED BY <2>4, <2>5, KeepsCurrent
<1>10. CASE B!ManualCompact
  <2>1. PICK x : x = B!Summary OBVIOUS
  <2>2. x \in ContextRow /\ x.at = now /\ x.of = << >>
    BY <1>1, <2>1, SummaryIsNew
  <2>3. PICK q : q = << x >> OBVIOUS
  <2>4. q \in Seq(ContextRow) /\ Current(q)
    BY <1>1, <2>2, <2>3 DEF Current, Stamped, Describes, ContextRow
  <2>5. rows' = q /\ before' = rows /\ now' = now /\ messages' \in Nat
    BY <1>1, <1>10, <2>1, <2>3 DEF B!ManualCompact
  <2> QED BY <2>4, <2>5, KeepsCurrent
<1>11. ASSUME NEW n \in 1 .. MaxRows, NEW summarize \in BOOLEAN,
              B!Branch(rows, n, summarize) \/ B!Branch(before, n, summarize)
       PROVE  BudgetInv'
  BY <1>1, <1>11, BranchHolds
<1>12. CASE B!Reload
  <2>1. PICK q : q = B!Replayed(s) OBVIOUS
  <2>2. q \in Seq(ContextRow) /\ Current(q)
    BY <1>1, <1>3, <2>1, ReplayedCurrent
  <2>3. rows' = q /\ before' = before /\ now' = now /\ messages' \in Nat
    BY <1>1, <1>3, <1>12, <2>1 DEF B!Reload
  <2> QED BY <2>2, <2>3, KeepsCurrent
<1>13. CASE B!Tick
  <2>1. PICK t : t = now OBVIOUS
  <2>2. PICK b : b = before OBVIOUS
  <2>3. /\ rows' = s /\ before' = b /\ messages' = messages /\ now' = t + 1
    BY <1>3, <1>13, <2>1, <2>2 DEF B!Tick
  <2>6. ASSUME NEW r \in Seq(ContextRow), NEW i \in 1 .. Len(r) PROVE r[i].at \in Nat
    <3>1. r[i] \in ContextRow BY ElementOfSeq
    <3> QED BY <3>1 DEF ContextRow
  <2>4. Current(rows)'
    BY <1>1, <1>3, <2>1, <2>3, <2>6 DEF Current, Stamped, Describes, Prefix
  <2>5. Current(before)'
    BY <1>1, <2>1, <2>2, <2>3, <2>6 DEF Current, Stamped, Describes, Prefix
  <2> QED BY <1>1, <1>3, <2>1, <2>2, <2>3, <2>4, <2>5 DEF BudgetInv
<1> QED BY <1>4, <1>5, <1>6, <1>7, <1>8, <1>9, <1>10, <1>11, <1>12, <1>13 DEF B!Next

(* The usage that anchors the estimate of the context's size was reported for *)
(* exactly the messages the context begins with (context_window.py's          *)
(* _last_applicable_provider_usage), whatever was compacted, branched and     *)
(* loaded again since.                                                        *)
THEOREM AnchorIsAlwaysCurrent == Spec => []AnchorIsCurrent
<1>1. Init => BudgetInv
  <2>1. Init => rows = << >> /\ before = << >> /\ now = 1 /\ messages = 0
    BY DEF Init, B!Init
  <2> QED BY <2>1 DEF BudgetInv, Current, Stamped, Describes
<1>2. BudgetInv /\ [Next]_vars => BudgetInv'
  <2> SUFFICES ASSUME BudgetInv, [Next]_vars PROVE BudgetInv'
    OBVIOUS
  <2>1. B!Next \/ (rows' = rows /\ before' = before /\ now' = now /\ messages' = messages)
    BY DEF Next, vars, budgetVars
  <2>2. CASE rows' = rows /\ before' = before /\ now' = now /\ messages' = messages
    BY <2>2 DEF BudgetInv, Current, Stamped, Describes, Prefix
  <2> QED BY <2>1, <2>2, BudgetNext
<1>3. BudgetInv => AnchorIsCurrent
  <2> SUFFICES ASSUME BudgetInv, B!Anchor(rows) > 0
               PROVE  rows[B!Anchor(rows)].of = B!Ids(SubSeq(rows, 1, B!Anchor(rows)))
    BY DEF AnchorIsCurrent, B!AnchorIsCurrent
  <2> DEFINE T == {0} \union {i \in DOMAIN rows : /\ rows[i].of # << >>
                                                /\ \A j \in 1 .. (i - 1) : rows[j].at <= rows[i].at}
  <2>1. rows \in Seq(ContextRow) /\ Len(rows) \in Nat /\ DOMAIN rows = 1 .. Len(rows)
    BY DEF BudgetInv
  <2>2. B!Anchor(rows) \in T
    <3>1. T \subseteq 0 .. Len(rows) /\ T # {} BY <2>1
    <3>2. B!Anchor(rows) = B!Max(T) BY DEF B!Anchor
    <3> HIDE DEF T
    <3> QED BY <2>1, <3>1, <3>2, Extremes
  <2>3. PICK i : i = B!Anchor(rows) OBVIOUS
  <2>4. i \in 1 .. Len(rows) /\ rows[i].of = Prefix(rows, i)
    BY <2>1, <2>2, <2>3 DEF BudgetInv, Current, Describes
  <2>5. B!Ids(SubSeq(rows, 1, i)) = Prefix(rows, i)
    <3>1. PICK p : p = SubSeq(rows, 1, i) OBVIOUS
    <3>2. Len(p) = i /\ p \in Seq(ContextRow) /\ \A k \in 1 .. i : p[k] = rows[k]
      BY <2>1, <2>4, <3>1
    <3>3. DOMAIN p = 1 .. i BY <3>2
    <3> QED BY <3>1, <3>2, <3>3 DEF Prefix, B!Ids
  <2> QED BY <2>3, <2>4, <2>5
<1> QED BY <1>1, <1>2, <1>3, PTL DEF Spec

-----------------------------------------------------------------------------
(***************************************************************************)
(* ExtensionRegistry: no tool runs past a hook.                            *)
(***************************************************************************)
(* The call in progress: what was due when it began is still subscribed, and *)
(* of the extensions whose turn is over every one that was due was asked.    *)
Passed ==
  /\ call = [tool |-> call.tool, at |-> call.at, turn |-> call.turn, asked |-> call.asked,
             blocked |-> call.blocked, due |-> call.due]
  /\ call.due \subseteq hooks
  /\ call.at \in {"hooks", "runs"} => ~call.blocked
  /\ call.at = "hooks" => /\ call.turn \in Nat \ {0}
                          /\ \A i \in 1 .. Len(exts) :
                               i < call.turn /\ exts[i] \in call.due => exts[i] \in call.asked
  /\ call.at = "runs" => call.due \subseteq call.asked

(* The inductive invariant: only loaded extensions have hooks, the one whose *)
(* setup runs is among them, and once the tools are composed no setup runs.  *)
RegistryInv ==
  /\ exts \in Seq(E!Ext)
  /\ hooks \subseteq E!Loaded
  /\ current # None => current \in E!Loaded
  /\ found \subseteq E!Ext
  /\ stage = "ready" => found = {} /\ current = None
  /\ call # None => stage = "ready" /\ Passed

(* The places of an extension's name have a first.                           *)
LEMMA FirstOfName ==
  ASSUME RegistryInv, NEW f \in E!Loaded
  PROVE  E!FirstNamed(f.name) \in E!Loaded
<1> DEFINE T == {i \in DOMAIN exts : exts[i].name = f.name}
<1>1. DOMAIN exts = 1 .. Len(exts) BY DEF RegistryInv
<1>2. T # {} BY DEF E!Loaded
<1>3. PICK i \in T : \A j \in T : i <= j
  <2>1. T \subseteq Nat BY <1>1
  <2> HIDE DEF T
  <2> QED BY <1>2, <2>1, LeastPosition
<1>4. \E k \in DOMAIN exts : exts[k].name = f.name /\ \A j \in 1 .. k - 1 : exts[j].name # f.name
  <2>1. \A j \in 1 .. i - 1 : j \in DOMAIN exts /\ ~(i <= j) BY <1>1, <1>3
  <2> QED BY <1>3, <2>1
<1> QED BY <1>4 DEF E!FirstNamed, E!Loaded

(* Taking an extension off the list leaves the others on it.                 *)
LEMMA OthersStay ==
  ASSUME RegistryInv, NEW e \in E!Loaded
  PROVE  /\ E!Without(e) \in Seq(E!Ext)
         /\ \A f \in E!Loaded \ {e} : \E i \in DOMAIN E!Without(e) : E!Without(e)[i] = f
<1> DEFINE T == {i \in DOMAIN exts : exts[i] = e}
           n == Len(exts)
<1>1. exts \in Seq(E!Ext) /\ DOMAIN exts = 1 .. n /\ n \in Nat BY DEF RegistryInv
<1>2. PICK i \in T : \A j \in T : i <= j
  <2>1. T \subseteq Nat BY <1>1
  <2>2. T # {} BY DEF E!Loaded
  <2> HIDE DEF T
  <2> QED BY <2>1, <2>2, LeastPosition
<1>3. \E k \in DOMAIN exts : exts[k] = e /\ \A j \in 1 .. k - 1 : exts[j] # e
  <2>1. \A j \in 1 .. i - 1 : j \in DOMAIN exts /\ ~(i <= j) BY <1>1, <1>2
  <2> QED BY <1>2, <2>1
<1>4. PICK k : k = E!Position(e) OBVIOUS
<1>5. k \in 1 .. n /\ exts[k] = e
  BY <1>1, <1>3, <1>4 DEF E!Position
<1> DEFINE a == SubSeq(exts, 1, k - 1)
           b == SubSeq(exts, k + 1, n)
<1>6. /\ a \in Seq(E!Ext) /\ Len(a) = k - 1 /\ \A j \in 1 .. k - 1 : a[j] = exts[j]
      /\ b \in Seq(E!Ext) /\ Len(b) = n - k /\ \A j \in 1 .. n - k : b[j] = exts[k + j]
  <2>1. \A j \in 1 .. n : exts[j] \in E!Ext BY <1>1
  <2>2. /\ k - 1 \in Int /\ k + 1 \in Int /\ n \in Int
        /\ \A j \in 1 .. k - 1 : exts[j] \in E!Ext
        /\ \A j \in k + 1 .. n : exts[j] \in E!Ext
    BY <1>1, <1>5, <2>1
  <2>3. /\ a \in Seq(E!Ext) /\ Len(a) = (IF 1 <= k - 1 THEN k - 1 - 1 + 1 ELSE 0)
        /\ \A j \in 1 .. k - 1 - 1 + 1 : a[j] = exts[1 + j - 1]
    BY <2>2, SubSeqProperties
  <2>4. /\ b \in Seq(E!Ext) /\ Len(b) = (IF k + 1 <= n THEN n - (k + 1) + 1 ELSE 0)
        /\ \A j \in 1 .. n - (k + 1) + 1 : b[j] = exts[k + 1 + j - 1]
    BY <2>2, SubSeqProperties
  <2> HIDE DEF a, b, n
  <2>5. k \in 1 .. n /\ n \in Nat BY <1>1, <1>5
  <2>6. Len(a) = k - 1 BY <2>3, <2>5
  <2>7. Len(b) = n - k BY <2>4, <2>5
  <2>8. \A j \in 1 .. k - 1 : j \in 1 .. k - 1 - 1 + 1 /\ 1 + j - 1 = j BY <2>5
  <2>9. \A j \in 1 .. n - k : j \in 1 .. n - (k + 1) + 1 /\ k + 1 + j - 1 = k + j BY <2>5
  <2> QED BY <2>3, <2>4, <2>6, <2>7, <2>8, <2>9
<1>7. E!Without(e) = a \o b BY <1>4 DEF E!Without
<1> HIDE DEF a, b, T, n
<1>8. /\ a \o b \in Seq(E!Ext) /\ Len(a \o b) = n - 1
      /\ \A j \in 1 .. n - 1 : (a \o b)[j] = IF j <= k - 1 THEN a[j] ELSE b[j - (k - 1)]
  <2>1. /\ a \o b \in Seq(E!Ext) /\ Len(a \o b) = Len(a) + Len(b)
        /\ \A j \in 1 .. Len(a) + Len(b) :
             (a \o b)[j] = IF j <= Len(a) THEN a[j] ELSE b[j - Len(a)]
    BY <1>6, ConcatProperties
  <2>2. Len(a) = k - 1 /\ Len(a) + Len(b) = n - 1 BY <1>1, <1>5, <1>6
  <2> QED BY <2>1, <2>2
<1>9. DOMAIN (a \o b) = 1 .. n - 1
  BY <1>8
<1>10. ASSUME NEW f \in E!Loaded \ {e} PROVE \E j \in DOMAIN (a \o b) : (a \o b)[j] = f
  <2>1. PICK m \in 1 .. n : exts[m] = f BY <1>1 DEF E!Loaded
  <2>2. m # k BY <1>5, <2>1
  <2>3. CASE m < k
    <3>1. m \in 1 .. n - 1 /\ m \in 1 .. k - 1 BY <1>1, <1>5, <2>3
    <3> QED BY <1>6, <1>8, <1>9, <2>1, <3>1
  <2>4. CASE m > k
    <3>1. m - 1 \in 1 .. n - 1 /\ ~(m - 1 <= k - 1) /\ m - 1 - (k - 1) = m - k /\ m - k \in 1 .. n - k
      BY <1>1, <1>5, <2>4
    <3>2. (a \o b)[m - 1] = exts[k + (m - k)] BY <1>6, <1>8, <3>1
    <3>3. k + (m - k) = m BY <1>1, <1>5
    <3> QED BY <1>9, <2>1, <3>1, <3>2, <3>3
  <2> QED BY <1>1, <1>5, <2>2, <2>3, <2>4
<1> QED BY <1>7, <1>8, <1>10

(* Every load, setup, registration, hook and call keeps it.                  *)
LEMMA RegistryNext ==
  ASSUME E!RegistryAssumption, RegistryInv, [E!Next]_(E!vars)
  PROVE  RegistryInv'
<1> USE DEF RegistryInv, Passed, E!Loaded, E!loading
<1>1. CASE E!LoadUser \/ E!LoadProject
  <2>1. stage # "ready" /\ stage' # "ready" /\ UNCHANGED <<current, exts, hooks, call>>
    BY <1>1 DEF E!LoadUser, E!LoadProject, E!Discover
  <2>2. found' \subseteq E!Ext
    BY <1>1 DEF E!LoadUser, E!LoadProject, E!Discover, E!Kept
  <2> QED BY <2>1, <2>2
<1>2. CASE E!SetUp
  <2>1. PICK e \in found : /\ current = None /\ current' = e /\ exts' = Append(exts, e)
                           /\ found' = found \ {e}
                           /\ UNCHANGED <<stage, hooks, call>>
    BY <1>2 DEF E!SetUp
  <2>2. e \in E!Ext /\ exts \in Seq(E!Ext) /\ stage # "ready" /\ call = None BY <2>1
  <2>3. /\ exts' \in Seq(E!Ext) /\ Len(exts') = Len(exts) + 1 /\ exts'[Len(exts) + 1] = e
        /\ \A i \in 1 .. Len(exts) : exts'[i] = exts[i]
    BY <2>1, <2>2, AppendProperties
  <2>4. /\ DOMAIN exts = 1 .. Len(exts) /\ DOMAIN exts' = 1 .. Len(exts) + 1 /\ Len(exts) \in Nat
    BY <2>2, <2>3
  <2>5. E!Loaded \subseteq E!Loaded' /\ e \in E!Loaded'
    BY <2>3, <2>4
  <2> QED BY <2>1, <2>2, <2>3, <2>5
<1>3. CASE E!SetupReturns
  BY <1>3 DEF E!SetupReturns
<1>4. CASE E!SetupFails
  <2>1. /\ current # None /\ current' = None /\ exts' = E!Without(current)
        /\ hooks' = hooks \ {current} /\ UNCHANGED <<stage, found, call>>
    BY <1>4 DEF E!SetupFails
  <2>2. current \in E!Loaded /\ stage # "ready" /\ call = None BY <2>1
  <2>3. exts' \in Seq(E!Ext) /\ E!Loaded \ {current} \subseteq E!Loaded'
    BY <2>1, <2>2, OthersStay
  <2> QED BY <2>1, <2>2, <2>3
<1>5. ASSUME NEW e \in E!Ext, E!Subscribe(e) PROVE RegistryInv'
  <2>1. PICK f \in E!Loaded : hooks' = hooks \union {E!FirstNamed(f.name)}
    BY <1>5 DEF E!Subscribe
  <2>2. E!FirstNamed(f.name) \in E!Loaded BY <2>1, FirstOfName
  <2> QED BY <1>5, <2>1, <2>2 DEF E!Subscribe
<1>6. ASSUME NEW e \in E!Ext, NEW s \in E!Slot, E!Register(e, s) PROVE RegistryInv'
  BY <1>6 DEF E!Register
<1>7. CASE E!Compose
  BY <1>7 DEF E!Compose
<1>8. ASSUME NEW t \in Tool, E!CallTool(t) PROVE RegistryInv'
  BY <1>8 DEF E!CallTool
<1>9. CASE E!AskHook
  <2>1. /\ call # None /\ call.at = "hooks" /\ call.turn <= Len(exts) /\ stage = "ready"
        /\ call.turn \in Nat \ {0} /\ call.due \subseteq hooks /\ ~call.blocked
        /\ UNCHANGED <<hooks, E!loading>>
    BY <1>9 DEF E!AskHook
  <2>2. CASE E!Turn \notin hooks /\ call' = [call EXCEPT !.turn = @ + 1]
    BY <2>1, <2>2 DEF E!Turn
  <2>3. CASE E!Turn \in hooks /\ call' = E!Blocks
    BY <2>1, <2>3 DEF E!Blocks, E!Asked, E!Turn
  <2>4. CASE E!Turn \in hooks /\ call' = E!Asked
    <3>1. /\ call'.due = call.due /\ call'.at = "hooks" /\ ~call'.blocked
          /\ call'.turn = call.turn + 1 /\ call'.asked = call.asked \union {exts[call.turn]}
          /\ call' = [tool |-> call'.tool, at |-> call'.at, turn |-> call'.turn,
                      asked |-> call'.asked, blocked |-> call'.blocked, due |-> call'.due]
      BY <2>1, <2>4 DEF E!Asked, E!Turn
    <3>2. \A i \in 1 .. Len(exts) :
             i < call.turn + 1 /\ exts[i] \in call.due => exts[i] \in call'.asked
      <4> TAKE i \in 1 .. Len(exts)
      <4>1. i < call.turn + 1 => i < call.turn \/ i = call.turn BY <2>1
      <4> QED BY <2>1, <3>1, <4>1
    <3> QED BY <2>1, <3>1, <3>2
  <2> QED BY <1>9, <2>2, <2>3, <2>4 DEF E!AskHook
<1>10. CASE E!Execute
  BY <1>10 DEF E!Execute
<1>11. CASE E!CallReturns
  BY <1>11 DEF E!CallReturns
<1>12. CASE E!Retire \/ UNCHANGED E!vars
  BY <1>12 DEF E!Retire, E!vars
<1> QED
  BY <1>1, <1>2, <1>3, <1>4, <1>5, <1>6, <1>7, <1>8, <1>9, <1>10, <1>11, <1>12 DEF E!Next

(* Whatever extensions are found, fail, subscribe and register when they     *)
(* like, a tool runs only after each hook that was subscribed when the call  *)
(* began was asked and let it pass, for any number of extensions.            *)
THEOREM ToolAlwaysPassed == Spec => []ToolRunsOnlyIfPassed
<1>1. Init => RegistryInv
  BY DEF Init, E!Init, RegistryInv, E!Loaded
<1>2. RegistryInv /\ [Next]_vars => RegistryInv'
  <2>1. [Next]_vars => [E!Next]_(E!vars)
    BY DEF Next, vars, registryVars, E!vars
  <2> QED BY <2>1, PartsAssumption, RegistryNext
<1>3. RegistryInv => ToolRunsOnlyIfPassed
  BY DEF RegistryInv, Passed, ToolRunsOnlyIfPassed, E!ToolRunsOnlyIfPassed
<1> QED BY <1>1, <1>2, <1>3, PTL DEF Spec
=============================================================================

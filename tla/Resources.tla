------------------------------ MODULE Resources ------------------------------
(* The Markdown and JSON files a coding session is made of: skills, prompt    *)
(* templates, themes, context files and system prompt files of the user and   *)
(* of the project (tau_coding/resources.py, skills.py, prompt_templates.py,   *)
(* context.py, tui/themes), the detector that decides whether the project has *)
(* to be approved (project_trust.py), the system prompt built from them       *)
(* (system_prompt.py), and the load and /reload that publish all of it        *)
(* (session.py).  What a session has read of them and what its prompt was     *)
(* built from change at different times; SessionSwap has the awaits.          *)
EXTENDS Naturals, FiniteSets, FiniteSetsExt, Functions

CONSTANTS Place,      \* [kind, scope, name]: where a resource may be
          Version,    \* what a file may say
          Described,  \* the description a version of a skill has
          Reserved,   \* the names _RESERVED_TEMPLATE_NAMES keeps for commands
          Extension,  \* [tool, snippet, attached, own]: a user's extension
          Config,     \* [given, custom, append, read]: how Tau was started
          None,
          MaxEdits    \* bound: files changed

(* In increasing precedence, for skills and templates.                        *)
Scope == <<"home", "agents", "above", "cwd", "project", "projectAgents">>
Kind == {"skill", "template", "theme", "context", "system", "append"}

ResourceAssumption ==
  /\ \A p \in Place : p.kind \in Kind /\ p.scope \in Range(Scope)
  /\ Described \in [Version -> Nat] /\ MaxEdits \in Nat
  /\ Version \intersect {"absent", "unreadable", "garbled"} = {}

Content == Version \union {"absent", "unreadable", "garbled"}

VARIABLES config,
          files,      \* what each place holds
          extension,  \* the extension on disk
          decision,   \* whether the project would be approved
          edits,
          live,       \* what the session has read
          prompt      \* the parts of the system prompt in use

vars == <<config, files, extension, decision, edits, live, prompt>>

Init ==
  /\ config \in Config /\ files = [p \in Place |-> "absent"] /\ extension = None
  /\ decision = FALSE /\ edits = 0 /\ live = None /\ prompt = None

---------------------------------------------------------------------------
(* Where resources are looked for: the user's places always, the project's    *)
(* only when project_resources_enabled.                                       *)
OfProject(p) == p.scope \notin {"home", "agents"}
Searched(trusted) == {p \in Place : trusted \/ ~OfProject(p)}
Rank(p) == CHOOSE i \in DOMAIN Scope : Scope[i] = p.scope
Exists(p) == files[p] # "absent"
Reads(p) == files[p] \in Version
Item(p) == [at |-> p, text |-> files[p]]

(* The resources of a kind that can be used: a file that cannot be read, or   *)
(* that is not UTF-8, is left out, and so is a template a command is named    *)
(* like.                                                                      *)
is_prompt_template_candidate(p) == p.name \notin Reserved
Skills(trusted) == {p \in Searched(trusted) : p.kind = "skill" /\ Reads(p)}
Templates(trusted) ==
  {p \in Searched(trusted) : p.kind = "template" /\ is_prompt_template_candidate(p) /\ Reads(p)}
load_custom_tui_themes(trusted) == {p \in Searched(trusted) : p.kind = "theme" /\ Reads(p)}

(* One resource of a name: that of the last directory that has one.           *)
Winners(found) ==
  {Item(p) : p \in {q \in found : \A o \in found : o.name = q.name => Rank(o) <= Rank(q)}}

(* Every context file there is, from the user's to the nearest.  One that     *)
(* cannot be read is left out; one that is not UTF-8 raises.                  *)
ContextCandidates(trusted) == {p \in Searched(trusted) : p.kind = "context" /\ Exists(p)}
Context(trusted) == {Item(p) : p \in {q \in ContextCandidates(trusted) : Reads(q)}}

(* _discover_system_prompt_file: the project's, else the user's, unless the   *)
(* command line gave one; the one selected must be legible.                   *)
SystemFile(kind, trusted) ==
  LET found == {p \in Searched(trusted) : p.kind = kind /\ Exists(p)}
      explicit == IF kind = "system" THEN config.custom ELSE config.append
  IN IF config.given \/ explicit THEN {} ELSE {p \in found : \A o \in found : Rank(o) <= Rank(p)}

Fails(trusted) ==
  \/ \E p \in SystemFile("system", trusted) \union SystemFile("append", trusted) : ~Reads(p)
  \/ \E p \in ContextCandidates(trusted) : files[p] = "garbled"

(* Mutant: themes are not looked for.                                         *)
DetectedButThemes ==
  \E p \in Place : /\ OfProject(p) /\ Exists(p) /\ p.kind # "theme"
                   /\ p.kind = "template" => is_prompt_template_candidate(p)

(* ProtectedResourceDetector.detect: by names alone, whatever a file says.    *)
Detected ==
  \E p \in Place : OfProject(p) /\ Exists(p) /\ (p.kind = "template" => is_prompt_template_candidate(p))
Trusted == ~Detected \/ decision

Snapshot(trusted) ==   \* _load_session_resources
  [approved |-> Detected /\ trusted,
   skills |-> Winners(Skills(trusted)), templates |-> Winners(Templates(trusted)),
   themes |-> Winners(load_custom_tui_themes(trusted)), context |-> Context(trusted),
   system |-> {Item(p) : p \in SystemFile("system", trusted)},
   append |-> {Item(p) : p \in SystemFile("append", trusted)},
   extension |-> extension]

---------------------------------------------------------------------------
Description(i) == Described[i.text]
Listed(skills) == {[name |-> i.at.name, at |-> i.at, described |-> Description(i)] : i \in skills}
Tools(l) == IF l.extension = None THEN {} ELSE {l.extension.tool}
Guidelines(l) == IF l.extension = None THEN {} ELSE {l.extension.own}

(* build_system_prompt.  A replacement of the prompt has no tools and no      *)
(* guidelines; skills are for a model that can read their files.              *)
Built(l) ==
  LET whole == ~config.custom /\ l.system = {}
      mine == IF whole /\ l.extension # None THEN {l.extension} ELSE {}
  IN IF config.given THEN None
     ELSE [base |-> l.system, append |-> l.append, context |-> l.context,
           skills |-> IF config.read THEN Listed(l.skills) ELSE {},
           tools |-> {<<e.tool, e.snippet>> : e \in mine},
           guidelines |-> {e.own : e \in mine} \union {e.attached : e \in mine}]

(* Mutant: context files are not compared.                                    *)
SignatureWithoutContext(l) ==
  [skills |-> Listed(l.skills), system |-> l.system, append |-> l.append,
   tools |-> Tools(l), guidelines |-> Guidelines(l)]

(* What /reload compares to decide whether it builds the prompt again.        *)
Signature(l) ==
  [skills |-> Listed(l.skills), context |-> l.context, system |-> l.system, append |-> l.append,
   tools |-> Tools(l), guidelines |-> Guidelines(l)]

---------------------------------------------------------------------------
Unpublished == UNCHANGED <<live, prompt>>
Edit(p, c) ==
  /\ edits < MaxEdits /\ files[p] # c /\ edits' = edits + 1 /\ files' = [files EXCEPT ![p] = c]
  /\ UNCHANGED <<config, extension, decision>> /\ Unpublished
EditExtension(e) ==
  /\ edits < MaxEdits /\ extension # e /\ edits' = edits + 1 /\ extension' = e
  /\ UNCHANGED <<config, files, decision>> /\ Unpublished
Decide == decision' = ~decision /\ UNCHANGED <<config, files, extension, edits>> /\ Unpublished

Load ==
  /\ live = None /\ ~Fails(Trusted)
  /\ live' = Snapshot(Trusted) /\ prompt' = Built(live')
  /\ UNCHANGED <<config, files, extension, decision, edits>>

(* Nothing is published by a reload that fails.                               *)
Reload ==
  /\ live # None /\ ~Fails(Trusted)
  /\ live' = Snapshot(Trusted)
  /\ prompt' = IF ~config.given /\ Signature(live) # Signature(live') THEN Built(live') ELSE prompt
  /\ UNCHANGED <<config, files, extension, decision, edits>>

Next ==
  \/ (\E p \in Place, c \in Content : Edit(p, c)) \/ (\E e \in Extension \union {None} : EditExtension(e))
  \/ Decide \/ Load \/ Reload

Spec == Init /\ [][Next]_vars

---------------------------------------------------------------------------
(* The prompt in use is the one the session's resources would give now, but   *)
(* for the text a tool brings with it: nothing the prompt is made of changes  *)
(* without /reload seeing it.                                                 *)
WithoutTools(b) ==
  IF config.given THEN b
  ELSE [base |-> b.base, append |-> b.append, context |-> b.context, skills |-> b.skills,
        tools |-> {t[1] : t \in b.tools}, guidelines |-> b.guidelines \intersect Guidelines(live)]
PromptIsCurrent == live # None => WithoutTools(prompt) = WithoutTools(Built(live))

(* Nothing of a project is in use unless the project was found to have        *)
(* something to approve, and was approved: what the detector looks for by     *)
(* name covers everything the loaders read.                                   *)
Read(l) == UNION {l.skills, l.templates, l.themes, l.context, l.system, l.append}
ProjectIsApproved == live # None /\ ~live.approved => \A i \in Read(live) : ~OfProject(i.at)
=============================================================================

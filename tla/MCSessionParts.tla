--------------------------- MODULE MCSessionParts ---------------------------
(* SessionParts for TLC: the settings, files, extensions and models.         *)
EXTENDS SessionParts

Settings(override, default, interactive, extensions) ==
    [override |-> override, default |-> default, interactive |-> interactive,
     projectExtensions |-> extensions]
SixPolicies == { Settings(None, "ask", TRUE, TRUE), Settings("approve", "ask", TRUE, FALSE),
                 Settings("decline", "ask", TRUE, TRUE), Settings(None, "always", FALSE, TRUE),
                 Settings(None, "never", FALSE, FALSE), Settings(None, "ask", FALSE, FALSE) }

At(kind, scope, name) == [kind |-> kind, scope |-> scope, name |-> name]
ElevenPlaces == { At("skill", "home", "s"), At("skill", "projectAgents", "s"),
                  At("template", "agents", "t"), At("template", "project", "t"),
                  At("template", "project", "tools"), At("theme", "project", "x"),
                  At("context", "home", "c"), At("context", "above", "c"),
                  At("system", "home", "S"), At("system", "project", "S"),
                  At("append", "project", "A") }
\* the first two versions of a skill have the same description
TwoDescriptions == [v1 |-> 1, v2 |-> 1, v3 |-> 2]

Registers(tool, snippet, attached, own) ==
    [tool |-> tool, snippet |-> snippet, attached |-> attached, own |-> own]
ThreeExtensions == { Registers("hello", 1, "a1", "o1"), Registers("hello", 2, "a2", "o1"),
                     Registers("hi", 2, "a2", "o2") }

Started(given, custom, append, read) ==
    [given |-> given, custom |-> custom, append |-> append, read |-> read]
FourConfigs == { Started(FALSE, FALSE, FALSE, TRUE), Started(FALSE, TRUE, FALSE, FALSE),
                 Started(FALSE, FALSE, TRUE, TRUE), Started(TRUE, FALSE, FALSE, TRUE) }

\* two models of the router, of which one has a single level, and one of another provider
ThreeModels    == [r1 |-> "router", r2 |-> "router", o1 |-> "other"]
SomeLevels     == [r1 |-> {"low", "high"}, r2 |-> {"low"}, o1 |-> {"low", "high"}]
SomeDefaults   == [r1 |-> "high", r2 |-> "low", o1 |-> "low"]
OneIsPinned    == [r1 |-> None, r2 |-> "pinned", o1 |-> None]
=============================================================================

---------------------------- MODULE MCUserFiles ----------------------------
(* UserFiles for TLC: three releases of a provider.  Model "a" is dropped and *)
(* comes back, the levels shrink, the default moves.                         *)
EXTENDS UserFiles

NoHeaders == [n \in Names |-> None]
Release(models, default_, removed, levels, url) ==
    [models |-> models, default |-> default_, removed |-> removed, levels |-> levels,
     url |-> url, headers |-> NoHeaders]
ThreeReleases == { Release({"a", "b"}, "a", {}, {"low", "high"}, "u1"),
                   Release({"b"}, "b", {"a"}, {"low"}, "u2"),
                   Release({"a", "b"}, "b", {}, {"low", "high"}, "u1") }
=============================================================================

------------------------- MODULE MCToolsAndStreams -------------------------
(* ToolsAndStreams for TLC.                                                  *)
EXTENDS ToolsAndStreams

\* every file of up to four lines that are empty, within the limit or too long
ShortFiles == UNION {[1 .. n -> {0, 1, 3, 5}] : n \in 1 .. 4}
FewLimits  == {1, 2, None}

SixTexts == { <<"a", "b", "n", "b">>, <<"a", "a", "a">>, <<"a", "r", "n", "b">>, <<>>,
              <<"n", "n", "n">>, <<"b", "r", "a">> }
SomeEdits == [old : {<<>>, <<"a">>, <<"a", "b">>, <<"b">>, <<"n">>, <<"r", "n">>, <<"a", "a">>},
              new : {<<>>, <<"b">>, <<"a", "n">>}]

SixShapes == { <<"text">>, <<"thinking">>, <<"thinking", "text", "call">>, <<"call", "call">>,
               <<>>, <<"call", "text", "call">> }
=============================================================================

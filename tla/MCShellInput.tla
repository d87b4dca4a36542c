---------------------------- MODULE MCShellInput ----------------------------
(* A small instance of ShellInput for TLC: a screen of three lines, input  *)
(* that wraps at the line's end and makes the screen scroll, a buffer that *)
(* can be filled and more words than the array takes.                      *)
EXTENDS ShellInput

MCGlyphs == {"a", "$", "space"}
MCPrompt == <<"$">>
MCBanner == <<"$", "newline", "$">>
MCBehind == {<<>>, <<"space", "a">>}
MCExtraTokens == {0, 1}
MCClearWord == <<"a">>
MCOutputs == {<<>>, <<"a", "newline">>, <<"$", "$", "$", "$", "newline">>}
=============================================================================

------------------------------- MODULE MCAta -------------------------------
(* A small instance of Ata for TLC: two sectors of two words, data of every *)
(* length.                                                                 *)
EXTENDS Ata

MCSectors == {0, 1}
MCData == {<<"x">>, <<"y", "x">>, <<"x", "y", "x">>, <<"y", "x", "y", "y">>}
MCIdentity == <<"y", "y", "y", "y">>
=============================================================================

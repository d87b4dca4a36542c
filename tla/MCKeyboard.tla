----------------------------- MODULE MCKeyboard -----------------------------
(* Small instances of Keyboard for TLC: one key of each kind that matters, *)
(* the right alt key being one whose scan code has a prefix.               *)
EXTENDS Keyboard

MCKeys == {"a", "shift", "caps", "altgr"}
MCKind == [k \in MCKeys |-> CASE k = "a" -> "char" [] k = "altgr" -> "alt" [] OTHER -> k]
MCExtended == {"altgr"}
MCFewKeys == {"a"}
MCFewKind == [k \in MCFewKeys |-> "char"]
MCNotExtended == {}
=============================================================================

------------------------------ MODULE MCFatDir ------------------------------
(* Small instances of FatDir for TLC.                                      *)
EXTENDS FatDir

Short == {"a", "b", "c", "d"}          \* names of up to 13 characters
MCShortLfn == [n \in Short |-> 1]
MCMixed == {"a", "b", "c", "long"}
MCMixedLfn == [n \in MCMixed |-> IF n = "long" THEN 2 ELSE 1]

(* A file, and other directories: one with the name "a" and room for more, *)
(* one full of the names "a" and "d".                                      *)
Entry(n) == <<Slot("long", n, 1), Slot("short", n, 0)>>
Padded(row, with) ==
  [i \in Slots |-> IF i \in DOMAIN row THEN row[i] ELSE with]
MCBeyond == {Padded(<<>>, Data), Padded(Entry("a"), End),
             Padded(Entry("a") \o Entry("d"), Data)}
MCBeyondMixed == {Padded(<<>>, Data)}
=============================================================================

---------------------------- MODULE MCInstaller ----------------------------
(* Revisions that differ in one area each, for Installer. *)
EXTENDS Installer

CONSTANTS r1, r2, r3

Same == [a \in Areas |-> 0]
MCContent ==
  [r \in Revs |->
     CASE r = r1 -> Same
       [] r = r2 -> [Same EXCEPT !["bridge"] = 1, !["api"] = 1]
       [] OTHER -> [Same EXCEPT !["plugin"] = 1, !["entry"] = 1]]

=============================================================================

---------------------------- MODULE MCAttempts ----------------------------
(* Settings for Attempts: trees of three attempts in one folder; two       *)
(* attempts on every route while the project is changed; one attempt while *)
(* two requests change it at once; and three such requests alone.          *)
EXTENDS Attempts

CONSTANTS f1, f2, t1, t2, t3

Routes == {"create", "retry", "continue", "edit-retry", "new-session"}
FolderOps == {"add", "remove", "primary"}

Trees ==
  {[gate |-> FALSE, folders |-> {f1}, threads |-> {}, ops |-> {}, keys |-> Keys,
    attempts |-> 3, sessions |-> 0, clock |-> 2, outcomes |-> {"canceled"},
    routes |-> {"create", "retry"}]}
Contexts ==
  {[gate |-> gate, folders |-> {f1, f2}, threads |-> {t1},
    ops |-> {"remove", "primary", "archive", "unarchive"}, keys |-> {}, attempts |-> 2, sessions |-> 1,
    clock |-> 1, outcomes |-> {"completed", "rejected"}, routes |-> Routes] : gate \in BOOLEAN}
Requests ==
  {[gate |-> FALSE, folders |-> {}, threads |-> {t1, t2, t3}, ops |-> FolderOps,
    keys |-> {}, attempts |-> 0, sessions |-> 0, clock |-> 1, outcomes |-> {},
    routes |-> {}]}
Crossings ==
  {[gate |-> FALSE, folders |-> {f1, f2}, threads |-> {t1, t2}, ops |-> FolderOps,
    keys |-> {}, attempts |-> 1, sessions |-> 0, clock |-> 1, outcomes |-> {"failed"},
    routes |-> {"create"}]}

MCSettings == Trees \union Contexts \union Requests \union Crossings

===========================================================================

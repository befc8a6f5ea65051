------------------------------ MODULE MCFiles -------------------------------
(***************************************************************************)
(* Files for TLC: the name a, most often of a directory, with b in it, and *)
(* b in the root, which only sys_link() makes; <<>> is the root.  The      *)
(* processes are interchangeable.                                          *)
(***************************************************************************)
EXTENDS Files, TLC

CONSTANTS a, b

Of(op, paths) == [op : {op}, path : paths, new : {<<b>>}]

MCCall ==
  Of("open", {<<b>>}) \cup Of("openw", {<<>>}) \cup Of("mkdir", {<<a>>})
  \cup Of("create", {<<a, b>>}) \cup Of("unlink", {<<>>, <<a>>, <<a, b>>})
  \cup Of("link", {<<a>>, <<a, b>>})

Symmetry == Permutations(Proc)
=============================================================================

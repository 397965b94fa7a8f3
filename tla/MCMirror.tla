------------------------------ MODULE MCMirror ------------------------------
(***************************************************************************)
(* Constants for the run of a client's copy.                               *)
(***************************************************************************)
EXTENDS MirrorProperties

MCMeta ==
    [number |-> [type |-> "Number", perm |-> "rw", rule |-> "OneOfMany"],
     switch |-> [type |-> "Switch", perm |-> "rw", rule |-> "AtMostOne"],
     light  |-> [type |-> "Light", perm |-> "ro", rule |-> "OneOfMany"],
     blob   |-> [type |-> "BLOB", perm |-> "ro", rule |-> "OneOfMany"]]
MCWork == [driver |-> 2, reader |-> 1]
MCProp == DOMAIN MCMeta
=============================================================================

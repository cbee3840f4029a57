----------------------------- MODULE MCHandlers -----------------------------
(* Instances of Handlers for TLC: a directory with an index file, a second  *)
(* file in it, and a file outside.                                          *)
EXTENDS Handlers, TLC

CONSTANTS t1, t2, dir, index, file, i1, i2, i3

Plain(method, path, length) ==
  [method |-> method, path |-> path, length |-> length, limit |-> 0, cgi |-> FALSE]

\* One file.  A PUT is written in two steps.
OnFile ==
  {Plain("GET", index, 0), Plain("DELETE", index, 0), Plain("POST", index, 1),
   Plain("PUT", index, 2)}

\* The file found as the index of its directory, and the directory without it.
OnDir ==
  OnFile
    \cup {Plain(m, dir, 0) : m \in {"GET", "DELETE"}}
    \cup {Plain(m, dir, 2) : m \in {"POST", "PUT"}}

\* Everything a request can ask of one of paths.
Asking(paths) == {q \in [method : Methods, path : paths, length : {0, 2}, limit : {0, 1},
                         cgi : BOOLEAN] : q.method \notin {"POST", "PUT"} => q.length = 0}

\* One request of t1, of any kind, and two of t2 that change the file.
Changes == {Plain("DELETE", index, 0), Plain("POST", index, 1), Plain("PUT", index, 1)}
OnOne   == t1 :> OnDir @@ t2 :> Changes
OneTwo  == t1 :> 1 @@ t2 :> 2

AllOnFile == [t \in Threads |-> OnFile]
Apart     == t1 :> Asking({file}) @@ t2 :> OnDir
Limited   == [t \in Threads |-> Asking({file})]
One       == [t \in Threads |-> 1]

AllReadable == {Pages}
AllOrNone   == {{}, Pages}

Symmetry == Permutations(Threads) \cup Permutations(Inodes)
InodeSymmetry == Permutations(Inodes)
=============================================================================

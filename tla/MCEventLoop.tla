---------------------------- MODULE MCEventLoop ----------------------------
(* Instances of EventLoop for TLC; the .cfg files give the constants.      *)
EXTENDS EventLoop, TLC

\* Connections and descriptors are only compared, never ordered.
Symmetry == Permutations(Conns) \cup Permutations(Fds)

\* All but phantom and ignored, which no step reads, and of the properties checked
\* under this view only TypeOK, for their type.
View == <<kernel, running, hung, event_list, client, answers, total, wire>>
=============================================================================

------------------------- MODULE MCWorkspaceRestore -------------------------
(* A directory with one child, a top-level path, and an ignored directory. *)
EXTENDS WorkspaceRestore

CONSTANTS a, ax, b, t, ty

TreePaths == {a, ax, b, t, ty}
TreeAbove == [p \in TreePaths |-> CASE p = ax -> {a} [] p = ty -> {t} [] OTHER -> {}]

\* A workspace has a build directory with a file, which no checkpoint records;
\* b may be a symlink into it.
Built == File(CHOOSE c \in Contents : TRUE, FALSE)
Plain == {None, Dir} \cup Files
MCTrees ==
    {f \in [TreePaths -> Nodes] :
        /\ IsTree(f) /\ f[t] = Dir /\ f[ty] = Built /\ f[a] \in Plain /\ f[ax] \in Plain}

\* op-replay may have made a path in it, or a file in its place.
MCTargets ==
    {f \in [TreePaths -> Plain] :
        IsTree(f) /\ (f[t] # None => f[a] = None)}

\* One mode at a time is in the way.
MCInit ==
    /\ tree \in MCTrees /\ target \in MCTargets
    /\ locked \in {{}} \cup {{d} : d \in {Root, a} \cap ({Root} \cup {p \in Paths : tree[p] = Dir})}
    /\ unreadable \in {{}} \cup {{p} : p \in {q \in {b} : tree[q].kind = "file"}}
    /\ target[t] # None /\ target[b] # None => tree[a] = None
    /\ locked = {} \/ unreadable = {}
    /\ Init

MCSpec == MCInit /\ [][Next]_vars
=============================================================================

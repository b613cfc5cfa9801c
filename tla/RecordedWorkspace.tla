-------------------------- MODULE RecordedWorkspace --------------------------
(***************************************************************************)
(* What the recording mount promises (docs/versioned-workspace.md:189,     *)
(* "time travel becomes checkpoint + redo[0..seq]"): the workspace has a   *)
(* version per recorded operation; a version, once recorded, never         *)
(* changes; and a recovery yields the version it was asked for.            *)
(*                                                                         *)
(* The promise ends at the first change that is not recorded, or not under *)
(* its own name: the versions there are stay recoverable, later ones need  *)
(* not be right.                                                           *)
(***************************************************************************)
EXTENDS Naturals, SequencesExt

CONSTANTS
    Trees,      \* the states of a workspace
    NoTree      \* "nothing recovered", or a version that cannot be

VARIABLES
    tree,       \* the workspace
    versions,   \* the base, and the workspace after each recorded operation
    link,       \* whether the last version is the workspace
    recovered   \* the outcome of the recovery at hand

vars == <<tree, versions, link, recovered>>

Init ==
    /\ tree \in Trees /\ versions = <<tree>>
    /\ link = "synced" /\ recovered = NoTree

\* An operation changes the workspace, then becomes a version.
Change ==
    /\ link = "synced" /\ link' = "applied"
    /\ tree' \in Trees
    /\ UNCHANGED <<versions, recovered>>

Record ==
    /\ link = "applied" /\ link' = "synced"
    /\ versions' = Append(versions, tree)
    /\ UNCHANGED <<tree, recovered>>

Kept == \/ versions' = versions
        \/ Len(versions') = Len(versions) + 1 /\ IsPrefix(versions, versions')

\* A change that has no version, and whatever follows it.
Lose ==
    /\ link' = "lost"
    /\ tree' \in Trees
    /\ Kept
    /\ UNCHANGED recovered

\* Recording starts anew from the workspace as long as nothing is recorded.
Rebase ==
    /\ link' = "synced" /\ Len(versions) = 1
    /\ versions' = <<tree>>
    /\ UNCHANGED <<tree, recovered>>

Recover(n) ==
    /\ recovered' = versions[n] /\ recovered' # NoTree
    /\ UNCHANGED <<tree, versions, link>>

Forget ==
    /\ recovered' = NoTree
    /\ UNCHANGED <<tree, versions, link>>

Next ==
    \/ Change \/ Record \/ Forget \/ Lose \/ Rebase
    \/ \E n \in DOMAIN versions : Recover(n)

Spec == Init /\ [][Next]_vars

=============================================================================

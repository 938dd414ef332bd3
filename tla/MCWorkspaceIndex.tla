-------------------------- MODULE MCWorkspaceIndex --------------------------
(* Small workspaces for WorkspaceIndex: the runs are given by the cfgs. *)
EXTENDS WorkspaceIndex, TLC

CONSTANTS file1, file2, command, background

Symmetry == Permutations({file1, file2})
=============================================================================

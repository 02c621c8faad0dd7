-------------------------- MODULE MCWorkspacePages --------------------------
EXTENDS WorkspacePages, TLC

CONSTANTS w1, w2, r1, r2

MCHome == r1 :> w1 @@ r2 :> w2
=============================================================================

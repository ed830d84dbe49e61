--------------------------- MODULE MCRevisionSync ---------------------------
(* The requests that keep a channel's revisions with its content, and all.  *)
EXTENDS RevisionSync, TLC
CONSTANTS c1, c2, h1, h2
MCSound    == AllOps \ GroupOps
MCAll      == AllOps
MCSymmetry == Permutations(Channels)
=============================================================================

-------------------------- MODULE MC_ContainerUtil --------------------------
(* Vectors over three values, v and ms of up to four elements.            *)
EXTENDS ContainerUtil
=============================================================================

---------------------------- MODULE MCContainers ----------------------------
(* Instances of Containers for TLC.  0 is the NUL character. *)
EXTENDS Containers

ShortTexts == {<<>>, <<0>>, <<97>>, <<97, 0>>, <<97, 97>>}
=============================================================================

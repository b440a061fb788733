---------------------------- MODULE MCFileService ----------------------------
(* Names and memory for TLC: with what the memory may hold, the shorter    *)
(* name, which is not stored, becomes the longer one, which is, and the    *)
(* longer one becomes one that is not.                                     *)
EXTENDS FileService

MCNames     == {<<"a">>, <<"a", "b">>}
MCFildes    == {<<"a", "b">>}
MCLeftovers == {<<>>, <<"b">>}
=============================================================================

---------------------------- MODULE MCResultStore ----------------------------
(***************************************************************************)
(* ResultStore with results of two bytes read in chunks of one or two, and *)
(* a Host that may claim up to four.  Sums of offsets wrap at 2^3          *)
(* (IntWidth = 4); the runs differ in the offsets the extension asks for.  *)
(***************************************************************************)
EXTENDS ResultStore

StoredContents == {<<"a", "b">>, <<"b", "a">>}
AnsweredChunks == {<<>>, <<"a">>, <<"b", "a">>, <<"a", "b", "a">>}
NearOffsets == {-1, 0, 1, 2}
AllOffsets  == NearOffsets \cup {MaxInt}
=============================================================================

------------------------------ MODULE MCEditor ------------------------------
(***************************************************************************)
(* Editor in a window of two rows on files of three and four lines, so     *)
(* that paging, scrolling and jumping have an effect, and on one of a      *)
(* single line, shorter than the window; with room for one to seven more   *)
(* characters, the file of three lines also with two characters at the end *)
(* of each line.                                                           *)
(***************************************************************************)
EXTENDS Editor

MCFiles == {<< <<"a">>, <<"b", "a">>, <<>>, <<"b">> >>, << <<"b">>, <<>>, <<"a">> >>, << <<"a">> >>}
=============================================================================

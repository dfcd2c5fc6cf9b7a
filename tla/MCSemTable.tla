------------------------------ MODULE MCSemTable ------------------------------
(* Instances of SemTable for TLC.                                            *)
EXTENDS SemTable

\* Names of one length: two that differ in their last character.
EqualLengths == {<<"x", "y">>, <<"x", "z">>}
\* A name and a prefix of it.
PrefixNames == {<<"x">>, <<"x", "y">>}
===============================================================================

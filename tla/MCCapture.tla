------------------------------- MODULE MCCapture -------------------------------
EXTENDS OutputCapture

(* Every text of at most five characters: two that secrets are made of,    *)
(* and the two of the marker.                                              *)
FourChars == {"a", "b", "[", "]"}
ShortTexts == UNION {[1 .. n -> FourChars] : n \in 1 .. 5}

(* One secret, one inside another, and two that overlap.                   *)
SomeRegistries ==
  { {<< "a", "b" >>},
    {<< "b" >>, << "a", "b", "a" >>, << "a", "b", "b", "a" >>},
    {<< "a", "a", "b" >>, << "a", "b", "b" >>, << "a" >>} }

LateSecret == {<< "b", "b" >>}
=============================================================================

------------------------ MODULE MCRecognitionStream ------------------------
(* A bounded instance of RecognitionStream for TLC: one stream, of a recognition   *)
(* session or of any producer, long enough for a commit between revisions, and a   *)
(* stray envelope of another.                                                      *)
EXTENDS RecognitionStream

TwoTexts == {<<"a">>, <<"b">>}

\* Two that differ behind the first letter of their second word.
Hypotheses == {<< >>, <<"a", " ", "b", "c">>, <<"a", " ", "b", "d", "d">>}

CONSTANTS s1, s2
Streams == {s1, s2}
Events == [s \in Streams |-> IF s = s1 THEN 4 ELSE 1]
FewEvents == [s \in Streams |-> IF s = s1 THEN 2 ELSE 1]
=============================================================================

-------------------------------- MODULE MCHttp --------------------------------
(* HttpParser for TLC. The streams are three well-formed requests, one of  *)
(* which just fills the buffer and one of which does not fit, and what     *)
(* they become when any one symbol is replaced, left out or put in: stray  *)
(* CRs and LFs at every place, missing blanks, wrong words, lines that end *)
(* early.                                                                  *)
EXTENDS HttpParser

Short == <<"GET", "SP", "URL", "SP", "VERSION", "CR", "LF", "CR", "LF">>
Full  == <<"GET", "SP", "URL", "SP", "VERSION", "CR", "LF", "OTHER", "CR", "LF", "CR", "LF">>
Long  == <<"GET", "SP", "URL", "SP", "VERSION", "CR", "LF", "OTHER", "CR", "LF", "OTHER",
           "CR", "LF", "CR", "LF">>

(* One line that just fills the buffer.                                    *)
Wide  == <<"GET", "SP", "SP", "URL", "SP", "SP", "SP", "SP", "SP", "VERSION", "CR", "LF">>

Replaced(s) == {[s EXCEPT ![k] = x] : k \in DOMAIN s, x \in Symbol}
Omitted(s)  == {SubSeq(s, 1, k - 1) \o SubSeq(s, k + 1, Len(s)) : k \in DOMAIN s}
Inserted(s) == {SubSeq(s, 1, k) \o <<x>> \o SubSeq(s, k + 1, Len(s)) :
                  k \in 0..Len(s), x \in Symbol}

MCStreams == UNION {Replaced(s) \cup Omitted(s) \cup Inserted(s) : s \in {Short, Full}}
               \cup {Long, Wide}
=============================================================================

-------------------------- MODULE MCTranscriptVerify --------------------------
(* Small instances of TranscriptVerify for TLC.                             *)
EXTENDS TranscriptVerify, TLC

CONSTANTS first, average, a, b, absent

NoCount == [courses |-> 0, awards |-> 0]
OneOfEach == [courses |-> 1, awards |-> 1]
Empty == [summaries |-> <<>>, own |-> NoCount, sessions |-> <<>>]
Plain == [fields |-> [f \in {first} |-> a], middle |-> <<>>, composite |-> absent]
GpaOf(x) == [gpa |-> [f \in {average} |-> x]]

(* Every name, with nothing else.                                           *)
NamesOnly == [name : Name, records : {<<>>}]

(* No record, or one or two of them, with all that a record may hold.       *)
ShortRecord ==
    [summaries : {<<>>, <<GpaOf(a)>>, <<GpaOf(b), GpaOf(a)>>, <<GpaOf(absent)>>,
                  <<[gpa |-> absent]>>},
     own : {NoCount, OneOfEach}, sessions : {<<>>, <<[courses |-> 1, awards |-> 0]>>}]
OneRecord == [name : {Plain}, records : {<<>>} \union [{1} -> ShortRecord]]
TwoRecords ==
    [name : {Plain},
     records : {<<r, q>> : r \in {Empty, [Empty EXCEPT !.summaries = <<GpaOf(b)>>]},
                           q \in ShortRecord}]

AllTranscripts == NamesOnly \union OneRecord \union TwoRecords
=============================================================================

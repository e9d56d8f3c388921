-------------------------------- MODULE MCPages --------------------------------
EXTENDS Pages, TLC

CONSTANTS s1, s2, s3

\* Among is SelectSeq, on every sequence of up to four elements.
ASSUME AmongSelects ==
    \A n \in 0..4 : \A s \in [1..n -> 1..3], S \in SUBSET (1..3) :
        Among(s, S) = SelectSeq(s, LAMBDA e : e \in S)

MCSongs == {s1, s2, s3}

Titles == {"", "a", "b"}
Owned  == [id : {1, 2}, title : Titles, copy : Copies, album : {"p"}]
Single == [id |-> 3, title |-> "a", copy |-> "mp3", album |-> "none"]

MCLibraries == {<<o>> : o \in Owned} \cup
    {<<o[1], Single, o[2]>> : o \in {p \in Owned \X Owned :
        /\ p[1] # p[2] /\ (p[1].id = p[2].id => p[1].title = p[2].title /\ p[1].copy # p[2].copy)}}

Remote     == [id : {1, 3}, title : {"", "a"}]
MCEditions == {<<>>} \cup {<<t>> : t \in Remote} \cup
    {t \in Remote \X Remote : t[1].id # t[2].id}
===============================================================================

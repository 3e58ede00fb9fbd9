--------------------------- MODULE MCFollowStream ---------------------------
(* Model-checking values for FollowStream: three lines, one of them written *)
(* on two lines of the stream, and eof.                                     *)
EXTENDS FollowStream

MCPayloads == << <<"l1">>, <<"l2a", "l2b">>, <<"l3">>, <<"e">> >>
MCNames == <<"output", "output", "output", "eof">>
MCText == {"", "cut", "l1", "l2a", "l2b", "l3", "e", "output", "eof"}
MCLines == [field : Fields, val : MCText]
=============================================================================

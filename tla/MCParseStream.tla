---------------------------- MODULE MCParseStream ----------------------------
(* Model-checking values for ParseStream: three events, one of them with a  *)
(* payload of two lines.                                                    *)
EXTENDS ParseStream

MCPayloads == << <<"p1">>, <<"p2a", "p2b">>, <<"p3">> >>
MCText == {"", "cut", "p1", "p2a", "p2b", "p3"} \cup EventNames
MCLines == [field : Fields, val : MCText]
=============================================================================

-------------------------------- MODULE MCSSE --------------------------------
(* Model-checking values for SSEStream and SSEReference.                    *)
EXTENDS SSEReference

L(f, v) == [field |-> f, val |-> v]

MCText == {"", "a", "b"}

\* Two values where the order or the last one counts, the empty value where
\* an event may turn out empty.
MCLines == {L("blank", ""), L("nocolon", ""), L("other", "a"),
            L("event", "a"), L("event", "b"), L("event", ""),
            L("id", "a"), L("retry", "a"),
            L("data", "a"), L("data", "b"), L("data", "")}

\* The lines whose runs and records interact, for longer streams.
MCRunLines == {L("blank", ""), L("other", "a"), L("data", "a"), L("data", "b")}
=============================================================================

------------------------- MODULE MCSandboxBenchmark -------------------------
(* Model-checking values for SandboxBenchmark.                              *)
EXTENDS SandboxBenchmark

F(con, times, key) == [con |-> con, repeat |-> times, key |-> key]

\* Three sandboxes at once; one after two; repeated runs at two levels; a level
\* that is never run; no level at all; an invalid level; no API key.
MCFlags == {F(<<3>>, 1, TRUE), F(<<2, 1>>, 1, TRUE), F(<<1, 1>>, 2, TRUE),
            F(<<1>>, 0, TRUE), F(<<>>, 1, TRUE), F(<<>>, 2, TRUE),
            F(<<1, 0>>, 1, TRUE), F(<<1>>, 1, FALSE)}
=============================================================================

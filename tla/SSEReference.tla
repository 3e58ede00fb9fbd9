---------------------------- MODULE SSEReference ----------------------------
(***************************************************************************)
(* What a stream of lines means, stated without a scanner: records end at  *)
(* blank lines, the last event, id and retry line of a record count, and   *)
(* so does its last run of adjacent data lines.  SSEStream is compared     *)
(* with it on every short stream.                                          *)
(***************************************************************************)
EXTENDS SSEStream, FiniteSets, FiniteSetsExt

Of(ls, I, f) == {i \in I : ls[i].field = f}

\* The value of the last line of field f among the lines I.
LastOf(ls, I, f) ==
  IF Of(ls, I, f) = {} THEN "" ELSE ls[Max(Of(ls, I, f))].val

\* The values of the last run of adjacent data lines among the lines I.
LastRun(ls, I) ==
  LET D == Of(ls, I, "data") IN
  IF D = {} THEN <<>>
  ELSE LET hi == Max(D)
           lo == Min({i \in D : i .. hi \subseteq D})
       IN  [k \in 1 .. hi - lo + 1 |-> ls[lo + k - 1].val]

\* The lines before position end that no blank line parts from it.
Part(ls, end) ==
  {i \in 1 .. end - 1 : \A j \in i .. end - 1 : ls[j].field # "blank"}

\* The record that ends just before position end.
Record(ls, end) ==
  LET I == Part(ls, end)
  IN  [name  |-> LastOf(ls, I, "event"), id   |-> LastOf(ls, I, "id"),
       retry |-> LastOf(ls, I, "retry"), data |-> LastRun(ls, I)]

\* The position with k positions of P up to it.
Nth(P, k) == CHOOSE i \in P : Cardinality({j \in P : j <= i}) = k

\* The values of the positions of P, in their order.
Listed(P, val) == [k \in 1 .. Cardinality(P) |-> val[Nth(P, k)]]

\* The events of the records ended by a blank line, and the unfinished one.
Ends(ls) == {b \in DOMAIN ls : ls[b].field = "blank" /\ ~Empty(Record(ls, b))}
Closed(ls) == Listed(Ends(ls), [b \in DOMAIN ls |-> Record(ls, b)])
Unfinished(ls) ==
  LET r == Record(ls, Len(ls) + 1) IN IF Empty(r) THEN <<>> ELSE <<r>>

Nils(items) == {i \in DOMAIN items : items[i].err = "nil"}
EventsOf(items) == Listed(Nils(items), [i \in DOMAIN items |-> items[i].evt])

\* The loop is over and the last thing yielded is not an error.
Completed == /\ spc \in {"yieldLast", "done"}
             /\ out = <<>> \/ out[Len(out)].err = "nil"

\* The consumer gets exactly the events of the lines scanned so far: none is
\* lost, made up, merged with a neighbour or yielded twice (iter.go:104-153).
YieldsTheEvents ==
  EventsOf(out) = Closed(read) \o IF Completed THEN Unfinished(read) ELSE <<>>

\* The inductive invariant behind it: between two lines the decoder holds the
\* record that has not ended, and it collects data if the last line was data.
InRun(ls) == ls # <<>> /\ ls[Len(ls)].field = "data"

DecoderInv ==
  /\ spc \in {"scan", "yieldError", "final"} =>
       /\ Flushed(evt, dataBuf) = Record(read, Len(read) + 1)
       /\ dataBuf # <<>> <=> InRun(read)
  /\ spc = "yieldRecord" =>
       dataBuf = <<>> /\ Record(read, Len(read) + 1) = NoEvent /\ ~InRun(read)
  /\ YieldsTheEvents

NotAComment(l) == l.field # "other"

\* "Lines starting with ":" are treated as comments and ignored" and "all
\* other fields are ignored" (iter.go:91-92): leaving such lines out changes
\* no event.  Violated by a comment between two data lines of one event.
CommentsAreIgnored ==
  EventsOf(out) = LET ls == SelectSeq(read, NotAComment)
                  IN  Closed(ls) \o IF Completed THEN Unfinished(ls) ELSE <<>>
=============================================================================

-------------------------- MODULE SandboxBenchmark --------------------------
(***************************************************************************)
(* The benchmark example (src/examples/sandbox-benchmark/main.go).  main   *)
(* runs runLevel for every level and repetition; runLevel starts a         *)
(* goroutine per sandbox (bench), waits for all of them, deletes the       *)
(* sandboxes in as many goroutines, waits for those, and computes the      *)
(* statistics of the measurements that succeeded; main prints a summary of *)
(* the runs.  A signal cancels the context of everything but the           *)
(* deletions.  The service is external.                                    *)
(*                                                                         *)
(* Durations are inputs: a call or a wait takes any of them, and readyDur  *)
(* is their sum, as the comment of result has it.  The rounding to         *)
(* milliseconds of what is printed and the wall time are left out.         *)
(***************************************************************************)
EXTENDS Integers, Sequences, FiniteSets, SequencesExt

CONSTANTS
  Flags,       \* the command lines that are tried: -con, where 0 stands for a part
               \* that is no number or not positive, -repeat, and whether there is
               \* an API key
  Durations    \* how long a call or a wait may take

ASSUME BenchmarkAssumption ==
  /\ Flags \subseteq [con : Seq(Nat), repeat : Nat, key : BOOLEAN]
  /\ Durations \subseteq Nat

VARIABLES
  levels, repeat,   \* -con and -repeat
  allRuns,     \* the statistics of the runs made at each level
  mpc,         \* where main is
  level,       \* the index of its level
  bench,       \* where each goroutine is
  results,     \* what it has measured so far
  clean,       \* sandboxes whose deletion has been started
  deleted,     \* ... and asked for
  created,     \* the goroutines the service created a sandbox for
  interrupted  \* the context is cancelled

flags   == <<levels, repeat>>
vars    == <<flags, allRuns, mpc, level, bench, results, clean, deleted, created,
             interrupted>>

NoResult == [sandboxID |-> FALSE, createDur |-> 0, pendingDur |-> 0, readyDur |-> 0,
             err |-> "nil"]

\* main has parsed its flags, or exits: an invalid level, or no API key.
Init ==
  /\ \E f \in Flags :
       /\ levels = f.con /\ repeat = f.repeat
       /\ mpc = IF f.key /\ 0 \notin Range(f.con) THEN "next" ELSE "exit"
  /\ allRuns = [l \in 1 .. Len(levels) |-> <<>>]
  /\ level = 1
  /\ bench = <<>> /\ results = <<>>
  /\ created = {} /\ clean = {} /\ deleted = {}
  /\ interrupted = FALSE

Indices == DOMAIN bench

-----------------------------------------------------------------------------
(* The statistics.                                                         *)

\* pctDefs, with p in thousandths.
pctDefs == [Min |-> 0, P50 |-> 500, P75 |-> 750, P90 |-> 900, P95 |-> 950,
            P99 |-> 990, P999 |-> 999, Max |-> 1000]

\* The rows of the summary.
Rows == DOMAIN pctDefs \cup {"Mean", "Stddev"}

\* The elements of a set, those with a smaller key first.
Arranged(S, key) ==
  CHOOSE order \in [1 .. Cardinality(S) -> S] :
    /\ IsInjective(order)
    /\ \A m, n \in DOMAIN order : m < n => key[order[m]] <= key[order[n]]

\* The durations of the runs in S, sorted.
Sorted(S, dur) == [n \in 1 .. Cardinality(S) |-> dur[Arranged(S, dur)[n]]]

\* The index is that of the code, counted from 0: the ceiling of p * len, less one.
percentile(sorted, p) ==
  LET idx == (p * Len(sorted) + 999) \div 1000 - 1
  IN IF sorted = <<>> THEN 0
     ELSE sorted[1 + Min({Max({idx, 0}), Len(sorted) - 1})]

pctValue(sorted, name) ==
  IF sorted = <<>> THEN 0
  ELSE IF name = "Min" THEN sorted[1]
  ELSE IF name = "Max" THEN sorted[Len(sorted)]
  ELSE percentile(sorted, pctDefs[name])

\* meanDur of the values of I, and meanF as it is printed.
Mean(I, val) == IF I = {} THEN 0 ELSE SumFunctionOnSet(val, I) \div Cardinality(I)

Root(v) == CHOOSE r \in 0 .. v : r * r <= v /\ v < (r + 1) * (r + 1)

MutStddev(I, val) ==
  LET m == Mean(I, val) IN
  IF I = {} THEN 0
  ELSE SumFunctionOnSet([i \in I |-> (val[i] - m) * (val[i] - m)], I) \div Cardinality(I)

\* stddevDur, around the mean cut to a whole number.
Stddev(I, val) ==
  LET m == Mean(I, val) IN
  IF I = {} THEN 0
  ELSE Root(SumFunctionOnSet([i \in I |-> (val[i] - m) * (val[i] - m)], I) \div Cardinality(I))

\* stddevF as it is printed, around the real mean, sum / n: the squares are those
\* of n times the distances from it.
stddevF(I, val) ==
  LET n   == Cardinality(I)
      sum == SumFunctionOnSet(val, I)
  IN IF I = {} THEN 0
     ELSE Root(SumFunctionOnSet([i \in I |-> (n * val[i] - sum) * (n * val[i] - sum)], I)
                 \div (n * n * n))

\* The rows of the summary for the durations of I.
Statistics(I, dur) ==
  [row \in Rows |-> IF row = "Mean" THEN Mean(I, dur)
                    ELSE IF row = "Stddev" THEN Stddev(I, dur)
                    ELSE pctValue(Sorted(I, dur), row)]

Succeeded == {i \in Indices : results[i].err = "nil"}
Duration(metric) == [i \in Indices |-> results[i][metric]]
Metrics == {"createDur", "pendingDur", "readyDur"}

-----------------------------------------------------------------------------
(* bench, the goroutine of a sandbox.                                      *)

\* Return with an error, or with "nil".
Finish(i, r) ==
  /\ bench' = [bench EXCEPT ![i] = "done"]
  /\ results' = [results EXCEPT ![i] = r]

Rest == <<flags, allRuns, mpc, level, clean, deleted, interrupted>>

\* CreateSandbox answers: the sandbox is running, or it is not yet.
Create(i) ==
  /\ bench[i] = "create" /\ ~interrupted
  /\ created' = created \cup {i}
  /\ \E d \in Durations :
       LET r == [NoResult EXCEPT !.sandboxID = TRUE, !.createDur = d] IN
       \/ Finish(i, [r EXCEPT !.readyDur = d])
       \/ /\ bench' = [bench EXCEPT ![i] = "wait"]
          /\ results' = [results EXCEPT ![i] = r]
  /\ UNCHANGED Rest

\* CreateSandbox fails: the sandbox may exist all the same.  Nothing reads the
\* duration of a call that failed.
CreateFails(i) ==
  /\ bench[i] = "create"
  /\ Finish(i, [NoResult EXCEPT !.err = "create"])
  /\ created' \in {created, created \cup {i}}
  /\ UNCHANGED Rest

\* The deadline has passed.
Timeout(i) ==
  /\ bench[i] = "wait"
  /\ Finish(i, [results[i] EXCEPT !.err = "timeout"])
  /\ UNCHANGED <<created, Rest>>

\* The sleep is over, or the context is cancelled: select takes either when
\* both are.
Wake(i) ==
  /\ bench[i] = "wait"
  /\ \/ bench' = [bench EXCEPT ![i] = "get"] /\ UNCHANGED results
     \/ interrupted /\ Finish(i, [results[i] EXCEPT !.err = "ctx"])
  /\ UNCHANGED <<created, Rest>>

MutGetFails(i) ==
  /\ bench[i] = "get"
  /\ Finish(i, [NoResult EXCEPT !.err = "get"])
  /\ UNCHANGED <<created, Rest>>

MutGetFailsContinues(i) ==
  /\ bench[i] = "get"
  /\ bench' = [bench EXCEPT ![i] = "wait"]
  /\ UNCHANGED <<results, created, Rest>>

\* GetSandbox fails.
GetFails(i) ==
  /\ bench[i] = "get"
  /\ Finish(i, [results[i] EXCEPT !.err = "get"])
  /\ UNCHANGED <<created, Rest>>

\* GetSandbox answers, with any status the service likes.
Get(i) ==
  /\ bench[i] = "get" /\ ~interrupted
  /\ \/ \E d \in Durations :
          Finish(i, [results[i] EXCEPT !.pendingDur = d,
                                       !.readyDur = results[i].createDur + d])
     \/ Finish(i, [results[i] EXCEPT !.err = "terminated"])
     \/ bench' = [bench EXCEPT ![i] = "wait"] /\ UNCHANGED results
  /\ UNCHANGED <<created, Rest>>

Bench(i) == \/ Create(i) \/ CreateFails(i) \/ Timeout(i) \/ Wake(i)
            \/ Get(i) \/ GetFails(i)

-----------------------------------------------------------------------------
(* runLevel, and the loops of main around it.                              *)

MutLaunch ==
  /\ mpc = "next" /\ level <= Len(levels)
  /\ Len(allRuns[level]) <= repeat /\ ~interrupted
  /\ mpc' = "run"
  /\ bench'   = [i \in 1 .. levels[level] |-> "create"]
  /\ results' = [i \in 1 .. levels[level] |-> NoResult]
  /\ created' = {} /\ clean' = {} /\ deleted' = {}
  /\ UNCHANGED <<flags, allRuns, level, interrupted>>

\* The next run of this level.
Launch ==
  /\ mpc = "next" /\ level <= Len(levels)
  /\ Len(allRuns[level]) < repeat /\ ~interrupted
  /\ mpc' = "run"
  /\ bench'   = [i \in 1 .. levels[level] |-> "create"]
  /\ results' = [i \in 1 .. levels[level] |-> NoResult]
  /\ created' = {} /\ clean' = {} /\ deleted' = {}
  /\ UNCHANGED <<flags, allRuns, level, interrupted>>

\* Its repetitions are made, or there is a signal, which only leaves the inner
\* loop.
NextLevel ==
  /\ mpc = "next" /\ level <= Len(levels)
  /\ Len(allRuns[level]) = repeat \/ interrupted
  /\ level' = level + 1
  /\ UNCHANGED <<flags, allRuns, mpc, bench, results, clean, deleted, created, interrupted>>

\* wg.Wait() returns, and a goroutine is started for every sandbox with an id.
Wait ==
  /\ mpc = "run" /\ \A i \in Indices : bench[i] = "done"
  /\ mpc' = "clean"
  /\ clean' = {i \in Indices : results[i].sandboxID}
  /\ UNCHANGED <<flags, allRuns, level, bench, results, deleted, created, interrupted>>

\* DeleteSandbox, whose error is ignored: it is done, or fails in ten seconds.
Delete(i) ==
  /\ mpc = "clean" /\ i \in clean
  /\ clean' = clean \ {i} /\ deleted' = deleted \cup {i}
  /\ UNCHANGED <<flags, allRuns, mpc, level, bench, results, created, interrupted>>

\* cleanWg.Wait() returns: the statistics of the run.
Collect ==
  /\ mpc = "clean" /\ clean = {}
  /\ mpc' = "next"
  /\ allRuns' = [allRuns EXCEPT ![level] =
       Append(@, [pcts      |-> [m \in Metrics |-> Statistics(Succeeded, Duration(m))],
                  succeeded |-> Cardinality(Succeeded),
                  failed    |-> Cardinality(Indices \ Succeeded)])]
  /\ UNCHANGED <<flags, level, bench, results, clean, deleted, created, interrupted>>

-----------------------------------------------------------------------------
(* The summary: a header over the columns of each metric.                  *)

Measured(l) == allRuns[l] # <<>>

\* The levels with a run, in order.
Header == Arranged({l \in 1 .. Len(levels) : Measured(l)}, [l \in 1 .. Len(levels) |-> l])

\* Without repetitions the columns are those of the header; repeated runs have a
\* column for each level.
Columns == IF repeat = 1 THEN Header ELSE [l \in 1 .. Len(levels) |-> l]

\* What the runs of a level have for a row of a metric.
Values(l, m, row) == [r \in DOMAIN allRuns[l] |-> allRuns[l][r].pcts[m][row]]

MutCell(l, m, row) ==
  IF repeat = 1 THEN Values(l, m, row)[1]
  ELSE SumFunction(Values(l, m, row)) \div repeat

\* What is printed at a level for a row: the value, or the mean of the runs ...
Cell(l, m, row) ==
  IF repeat = 1 THEN Values(l, m, row)[1]
  ELSE Mean(DOMAIN allRuns[l], Values(l, m, row))

\* ... and, of repeated runs, their deviation behind a +-.
Spread(l, m, row) == stddevF(DOMAIN allRuns[l], Values(l, m, row))

\* The summary of repeated runs looks at the first level, if there is one.
PrintSummary ==
  /\ mpc = "next" /\ level > Len(levels)
  /\ mpc' = IF repeat # 1 /\ levels = <<>> THEN "panic" ELSE "over"
  /\ UNCHANGED <<flags, allRuns, level, bench, results, clean, deleted, created, interrupted>>

Main == Launch \/ NextLevel \/ Wait \/ Collect \/ PrintSummary

-----------------------------------------------------------------------------
Ended == mpc \in {"over", "panic", "exit"}

\* SIGINT or SIGTERM.
Interrupt ==
  /\ ~Ended /\ ~interrupted /\ interrupted' = TRUE
  /\ UNCHANGED <<flags, allRuns, mpc, level, bench, results, clean, deleted, created>>

Next == \/ \E i \in Indices : Bench(i) \/ Delete(i)
        \/ Main \/ Interrupt
        \/ Ended /\ UNCHANGED vars

Spec == Init /\ [][Next]_vars

Largest == Max({0} \cup UNION {Range(f.con) : f \in Flags})

\* Go runs main and its goroutines; their calls return, if only with an error
\* (see the property).  The service owes nothing.
FairSpec == /\ Spec /\ WF_vars(Main)
            /\ \A i \in 1 .. Largest :
                 /\ WF_vars(i \in Indices /\ Bench(i)) /\ WF_vars(i \in Indices /\ Delete(i))

-----------------------------------------------------------------------------
TypeOK ==
  /\ \E f \in Flags : levels = f.con /\ repeat = f.repeat
  /\ DOMAIN allRuns = 1 .. Len(levels)
  /\ \A l \in 1 .. Len(levels) : Len(allRuns[l]) \in 0 .. repeat
  /\ mpc \in {"next", "run", "clean", "over", "panic", "exit"}
  /\ level \in 1 .. Len(levels) + 1
  /\ \A i \in Indices : bench[i] \in {"create", "wait", "get", "done"}
  /\ DOMAIN results = Indices /\ created \subseteq Indices
  /\ clean \subseteq Indices /\ deleted \subseteq Indices \ clean
  /\ interrupted \in BOOLEAN

\* A sandbox is deleted only when no goroutine measures any more, and a run that
\* is over has asked for the deletion of each sandbox, whatever became of its
\* measurement, but for those whose creation failed for the client
\* (main.go:165-183).
SandboxesAreDeleted ==
  /\ deleted # {} => \A i \in Indices : bench[i] = "done"
  /\ mpc \in {"next", "over", "panic"} =>
       \A i \in created : i \in deleted \/ results[i].err = "create"

\* The inductive invariant of SandboxBenchmarkProofs: whoever has a sandbox has
\* its id or the error of CreateSandbox, and the clean-up forgets none.
BenchInv ==
  /\ DOMAIN results = Indices /\ created \subseteq Indices
  /\ \A i \in Indices :
       /\ bench[i] = "create" => i \notin created
       /\ bench[i] \in {"wait", "get"} => results[i].sandboxID
       /\ DOMAIN results[i] = DOMAIN NoResult
  /\ \A i \in created : results[i].sandboxID \/ results[i].err = "create"
  /\ mpc \in {"next", "run", "clean", "over", "panic", "exit"}
  /\ mpc = "run" => deleted = {}
  /\ mpc # "run" => \A i \in Indices : bench[i] = "done"
  /\ mpc = "clean" => \A i \in Indices : results[i].sandboxID => i \in clean \cup deleted
  /\ mpc \in {"next", "over", "panic"} =>
       \A i \in Indices : results[i].sandboxID => i \in deleted

\* What a run reports is true of its successes, and of them only: v is the
\* p-quantile by nearest rank if at least p of the values are not above it and
\* less than p of them below it (main.go:193-222, 388-415).
NearestRank(v, p, S, dur) ==
  IF S = {} THEN v = 0
  ELSE LET n == Cardinality(S) IN
       /\ v \in {dur[i] : i \in S}
       /\ 1000 * Cardinality({i \in S : dur[i] <= v}) >= p * n
       /\ p = 0 => \A i \in S : v <= dur[i]
       /\ p > 0 => 1000 * Cardinality({i \in S : dur[i] < v}) < p * n

\* s is the root of squares / n, cut to a whole number.
IsDeviation(s, squares, n) == n * (s * s) <= squares /\ squares < n * ((s + 1) * (s + 1))

\* The statistics of a run count every sandbox of its level once; the mean is the
\* largest whole number that is not above the real one, and the deviation is the
\* root, cut in the same way, of the mean square distance from that mean; both are 0
\* without successes (main.go:193-222, 417-439).
StatsDescribeRun ==
  mpc = "next" /\ level <= Len(levels) /\ allRuns[level] # <<>> =>
    LET run == Last(allRuns[level])
        n   == Cardinality(Succeeded)
    IN /\ run.succeeded = n /\ run.succeeded + run.failed = levels[level]
       /\ \A m \in Metrics :
            LET stats == run.pcts[m]
                dur   == Duration(m)
                far   == [i \in Succeeded |-> (dur[i] - stats.Mean) * (dur[i] - stats.Mean)]
            IN /\ \A name \in DOMAIN pctDefs :
                    NearestRank(stats[name], pctDefs[name], Succeeded, dur)
               /\ Succeeded = {} => stats.Mean = 0 /\ stats.Stddev = 0
               /\ Succeeded # {} =>
                    /\ n * stats.Mean <= SumFunctionOnSet(dur, Succeeded)
                    /\ n * (stats.Mean + 1) > SumFunctionOnSet(dur, Succeeded)
                    /\ IsDeviation(stats.Stddev, SumFunctionOnSet(far, Succeeded), n)

\* No header of the summary stands above the column of another level, and unless a
\* signal came or nothing was to be run, every level has all its repetitions, and
\* its column a header.  (After a signal, repeated runs leave columns without one.)
\* A column with a header shows the mean of the runs that were made and the deviation
\* of just these, both cut to whole numbers (main.go:136-150, 315-354, 441-463).
SummaryShowsTheRuns ==
  mpc = "over" =>
    /\ IsPrefix(Header, Columns)
    /\ repeat > 0 /\ ~interrupted =>
         /\ Columns = Header
         /\ \A l \in 1 .. Len(levels) : Len(allRuns[l]) = repeat
    /\ \A l \in Range(Header), m \in Metrics, row \in Rows :
         LET val  == Values(l, m, row)
             runs == DOMAIN val
             n    == Cardinality(runs)
             sum  == SumFunctionOnSet(val, runs)
             far  == [r \in runs |-> (n * val[r] - sum) * (n * val[r] - sum)]
         IN /\ n * Cell(l, m, row) <= sum /\ sum < n * (Cell(l, m, row) + 1)
            /\ IsDeviation(Spread(l, m, row), SumFunctionOnSet(far, runs), n * n * n)

\* A signal ends the program, after the clean-up.
EndsWhenInterrupted == interrupted ~> mpc \in {"over", "panic"}
=============================================================================

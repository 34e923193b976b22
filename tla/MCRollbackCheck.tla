-------------------------- MODULE MCRollbackCheck --------------------------
(***************************************************************************)
(* Set-ups of one to three ranks, programs of one rank for the two         *)
(* debugging schedulers, jobs that restart from a checkpoint, and runs     *)
(* with instrumentation.                                                   *)
(***************************************************************************)
EXTENDS RollbackCheck

MCM == <<31, 29>>
MCA == <<3, 2>>

Base == [nnodes |-> 1, nlp |-> <<>>, mapping |-> "linear", nkp |-> 1, nkp_per_pe |-> 2,
         nrng |-> 1, ncore |-> 1, seed |-> <<11, 22>>, core_seed |-> <<30, 40>>,
         synch |-> "optimistic", wrong |-> "none", events |-> 0, rollback_time |-> 0,
         analysis |-> FALSE, end |-> 6, io_events |-> 0, job |-> 1, load_at |-> "NONE", file |-> <<>>, work |-> 0,
         next |-> {}, types |-> {}, engine_vt |-> FALSE, ev_trace |-> "NO_TRACE", samples |-> 2,
         buffer_size |-> 0, buffer_dump |-> 0, num_gvt |-> 1, max_processed |-> 0]

\* All ranks have the same number of LPs, as map_round_robin assumes.
Layouts ==
  {[Base EXCEPT !.nnodes = n, !.nlp = [r \in 0 .. n - 1 |-> l], !.mapping = m, !.nkp = k,
                !.nkp_per_pe = p, !.nrng = g, !.seed = s] :
     n \in 1 .. 3, l \in 0 .. 3, m \in {"linear", "round_robin"}, k \in 1 .. 2, p \in 0 .. 3,
     g \in 1 .. 2, s \in {<<11, 22>>, <<40, 50>>}}

Programs ==
  {[Base EXCEPT !.nlp = [r \in {0} |-> 2], !.nkp_per_pe = p, !.synch = y, !.wrong = w,
                !.events = f, !.rollback_time = t, !.seed = s] :
     p \in 1 .. 2, y \in {"check", "debug"}, w \in {"none", "state", "rng", "hook", "commit"},
     f \in {1, 4, 30}, t \in {0, 3}, s \in {<<11, 22>>, <<7, 5>>, <<20, 13>>}}

\* A job with RIO: its ranks, LPs and KPs on each, and the file of each rank.
Job(n, l, k, file, c) ==
  [c EXCEPT !.nnodes = n, !.nlp = [r \in 0 .. n - 1 |-> l], !.nkp = k, !.nkp_per_pe = k,
            !.synch = "rio", !.file = file]

\* The second job has all KPs of the first on half the ranks, or the same, or
\* too few of them, or more ranks; it may store again for a third.
One == [r \in 0 .. 0 |-> 0]
Shared == [r \in 0 .. 1 |-> 0]
Own == [r \in 0 .. 1 |-> r]
Again(at) == [Base EXCEPT !.load_at = at, !.io_events = 2, !.job = 2]
Third == Job(1, 2, 2, One, [Again("INIT") EXCEPT !.job = 3])
Second ==
  {Job(1, 4, 4, One, Again(at)) : at \in {"PRE_INIT", "INIT", "POST_INIT"}} \cup
  {Job(1, 4, 4, One, [Again("INIT") EXCEPT !.io_events = 1]),
   Job(1, 4, 2, One, Again("INIT"))}
First1 == [Base EXCEPT !.io_events = 1, !.work = 1, !.next = Second]
Jobs ==
  {Job(2, 2, 2, Shared, First1), Job(2, 2, 2, Own, First1),
   Job(2, 1, 1, Shared, [Base EXCEPT !.io_events = 1, !.work = 2, !.next =
         {Job(2, 1, 1, Shared, [Again("INIT") EXCEPT !.work = 1, !.next = {Third}])}]),
   Job(1, 2, 2, One, [First1 EXCEPT !.io_events = 2, !.work = 2, !.next = {Job(2, 1, 1, Own, Again("INIT"))}]),
   [Job(2, 1, 1, Shared, [First1 EXCEPT !.next =
         {[Job(2, 1, 1, Shared, Again("INIT")) EXCEPT !.mapping = "round_robin"]}])
      EXCEPT !.mapping = "round_robin"]}

\* Runs with instrumentation: two ranks with buffers soon full, and one rank
\* whose analysis LP has more places for samples than it needs, or too few.
StatsBase ==
  [Base EXCEPT !.nnodes = 2, !.nlp = [r \in 0 .. 1 |-> 1], !.nkp_per_pe = 1, !.analysis = TRUE,
               !.synch = "stats", !.end = 3, !.samples = 3, !.buffer_size = 3, !.buffer_dump = 2,
               !.max_processed = 3]
Stats ==
  {[StatsBase EXCEPT !.types = {"ANALYSIS_LP", "RT_COL"}],
   [StatsBase EXCEPT !.types = {"ANALYSIS_LP", "GVT_COL"}, !.engine_vt = TRUE, !.num_gvt = 2,
                     !.end = 4, !.max_processed = 3],
   [StatsBase EXCEPT !.types = {"EV_TRACE"}, !.ev_trace = "FULL_TRACE"],
   [StatsBase EXCEPT !.types = {"EV_TRACE", "MODEL_COL"}, !.ev_trace = "COMMIT_TRACE", !.max_processed = 2],
   [StatsBase EXCEPT !.types = {"ANALYSIS_LP"}, !.nnodes = 1, !.nlp = [r \in {0} |-> 2],
                     !.end = 5, !.samples = 4, !.max_processed = 7, !.buffer_size = 7],
   [StatsBase EXCEPT !.types = {"ANALYSIS_LP"}, !.nnodes = 1, !.nlp = [r \in {0} |-> 1],
                     !.end = 5, !.samples = 2, !.max_processed = 6]}

\* Programs of the debugging schedulers in a build with RIO.
RioPrograms ==
  {[c EXCEPT !.io_events = 2] : c \in {d \in Programs : d.events = 30}}

\* Layouts with analysis LPs.
Sampled ==
  {[c EXCEPT !.analysis = TRUE] :
     c \in {d \in Layouts : d.nnodes < 3 /\ d.nlp[0] \in {1, 2} /\ d.nrng = 1 /\ d.seed = <<11, 22>>}}

MCConf == Layouts \cup Sampled \cup Programs \cup Jobs \cup Stats \cup {c \in RioPrograms : c.wrong = "state" /\ c.synch = "check"} \cup
  {[Base EXCEPT !.nnodes = 2, !.nlp = [r \in 0 .. 1 |-> 2], !.synch = "check", !.events = 4]}
=============================================================================

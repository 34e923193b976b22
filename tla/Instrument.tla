----------------------------- MODULE Instrument -----------------------------
(***************************************************************************)
(* The instrumentation of an optimistic run: the analysis LP of each rank  *)
(* samples the model LPs in virtual time, may be undone and commits; the   *)
(* engine is sampled at GVT, in real time and with the analysis LP; events *)
(* are traced.  What is collected goes to a buffer for each kind and from  *)
(* there, after a GVT, to a file that all ranks share.                     *)
(*                                                                         *)
(* A rank has one KP.  The events that are not samples only change what a  *)
(* sample sees, which differs in each execution.  A record is one long,    *)
(* and output is not disabled.  The buffers do not depend on one another,  *)
(* so a run follows those of the kinds in conf.types only.                 *)
(***************************************************************************)
EXTENDS Setup, FiniteSetsExt, SequencesExt

VARIABLES
  st,           \* the ranks: see StartStats
  st_file,      \* [collection types -> the file], by offset
  pushed        \* history: the records taken by a buffer, [types -> [rank -> Seq]]

statVars == <<st, st_file, pushed>>

ColType == {"GVT_COL", "RT_COL", "ANALYSIS_LP", "EV_TRACE", "MODEL_COL"}
NULL == 0
NoStats == <<>>

StatsInit ==
  /\ st = NoStats
  /\ st_file = [t \in ColType |-> <<>>]
  /\ pushed = [t \in ColType |-> <<>>]

-----------------------------------------------------------------------------
\* analysis_init: the places for samples, as a list.
Samples(n) ==
  [head |-> 1, current |-> 1, tail |-> n,
   next |-> [s \in 1 .. n |-> IF s = n THEN NULL ELSE s + 1],
   prev |-> [s \in 1 .. n |-> s - 1],
   ts |-> [s \in 1 .. n |-> 0], data |-> [s \in 1 .. n |-> 0]]

\* Mutant: the place is not taken out of the list before it is put at its end.
MoveToTailLinked(l, s) ==
  LET n == l.next[s]
      m == [l EXCEPT !.ts[s] = 0, !.head = IF @ = s THEN n ELSE @]
  IN  IF l.tail = s THEN m
      ELSE [m EXCEPT !.prev[s] = l.tail, !.next = [@ EXCEPT ![l.tail] = s, ![s] = NULL], !.tail = s]

\* A place is free again and goes to the end of the list.
MoveToTail(l, s) ==
  LET p == l.prev[s]
      n == l.next[s]
      m == [l EXCEPT !.ts[s] = 0,
                     !.next = [i \in DOMAIN @ |-> IF i = p THEN n ELSE @[i]],
                     !.prev = [i \in DOMAIN @ |-> IF i = n THEN p ELSE @[i]],
                     !.head = IF @ = s THEN n ELSE @]
  IN  IF l.tail = s THEN m
      ELSE [m EXCEPT !.prev[s] = l.tail, !.next = [@ EXCEPT ![l.tail] = s, ![s] = NULL], !.tail = s]

\* The places from s on, along next or prev.
Along(link, s) ==
  LET w[n \in 0 .. Cardinality(DOMAIN link)] ==
        IF n = 0 THEN <<>>
        ELSE LET v == w[n - 1]
                 i == IF v = <<>> THEN s ELSE link[Last(v)]
             IN  IF i = NULL \/ (v # <<>> /\ Last(v) = NULL) THEN v ELSE Append(v, i)
  IN  w[Cardinality(DOMAIN link)]

\* The first of them with time stamp t, or NULL.
Search(l, link, s, t) ==
  LET all == Along(link, s)
      hits == {i \in DOMAIN all : l.ts[all[i]] = t}
  IN  IF hits = {} THEN NULL ELSE all[Min(hits)]

-----------------------------------------------------------------------------
StartStats ==
  [phase |-> "run", gvt |-> 1, gvt_done |-> 0, final |-> FALSE,
   l |-> Samples(conf.samples),
   q |-> <<>>, committed |-> <<>>,        \* the samples executed and committed
   processed |-> 0, last |-> [t \in ColType |-> 0],
   buffer |-> [t \in ColType |-> <<>>], missed |-> [t \in ColType |-> <<>>],
   prev_offset |-> [t \in ColType |-> 0], sizes |-> <<>>]

\* A call of st_buffer_push for each of recs: a record that finds no space is
\* counted, not stored.
st_buffer_push(w, t, recs) ==
  LET room == conf.buffer_size - Len(w.buffer[t])
      k == IF Len(recs) < room THEN Len(recs) ELSE room
  IN  IF t \notin conf.types THEN w
      ELSE [w EXCEPT !.buffer[t] = @ \o SubSeq(recs, 1, k),
                     !.missed[t] = @ \o SubSeq(recs, k + 1, Len(recs))]

\* st_collect_engine_data: what was processed since the last sample of this
\* kind, stored or not.
st_collect_engine_data(w, r, t) ==
  IF t \notin conf.types THEN w
  ELSE LET rec == [rank |-> r, n |-> w.processed - w.last[t], at |-> w.processed]
       IN  [st_buffer_push(w, t, <<rec>>) EXCEPT !.last[t] = w.processed]

\* A record for each LP of the model.
st_collect_model_data(w, r) ==
  st_buffer_push(w, "MODEL_COL",
    [i \in 1 .. conf.nlp[r] |-> [rank |-> r, lp |-> i, at |-> w.processed]])

st_collect_event_data(w, r, e) ==
  st_buffer_push(w, "EV_TRACE", <<[rank |-> r, ts |-> e.ts, at |-> e.at]>>)

\* A step of rank r changes its state to w; pushed follows the buffers.
Becomes(r, w) ==
  /\ st' = [st EXCEPT ![r] = w]
  /\ pushed' = [t \in ColType |-> [pushed[t] EXCEPT ![r] =
                  @ \o SubSeq(w.buffer[t], Len(st[r].buffer[t]) + 1, Len(w.buffer[t]))]]
  /\ UNCHANGED <<setupVars, st_file>>

NextTs(w) == Len(w.committed) + Len(w.q) + 1

\* analysis_event in tw_sched_batch, with the full event trace and, if the
\* interval has passed, the samples in real time.  No place left is a fault.
analysis_event(r) ==
  LET w == st[r]
      e == [ts |-> NextTs(w), at |-> w.processed + 1]
      s == w.l.current
      w1 == [w EXCEPT !.l = [@ EXCEPT !.ts[s] = e.ts, !.data[s] = e.at, !.current = w.l.next[s]],
                      !.q = Append(@, e), !.processed = @ + 1]
      w2 == IF conf.engine_vt THEN st_collect_engine_data(w1, r, "ANALYSIS_LP") ELSE w1
      w3 == IF conf.ev_trace = "FULL_TRACE" THEN st_collect_event_data(w2, r, e) ELSE w2
  IN  /\ w.phase = "run" /\ e.ts < conf.end /\ w.processed < conf.max_processed
      /\ \/ /\ s = NULL
            /\ Becomes(r, [w EXCEPT !.phase = "fault"])
         \/ /\ s # NULL
            /\ Becomes(r, w3)
         \/ /\ s # NULL /\ conf.types \cap {"RT_COL", "MODEL_COL"} # {}
            /\ Becomes(r, st_collect_model_data(st_collect_engine_data(w3, r, "RT_COL"), r))

\* The newest sample is undone.  Behind the last place the search has no start.
analysis_event_rc(r) ==
  LET w == st[r]
      s == Search(w.l, w.l.prev, w.l.prev[w.l.current], Last(w.q).ts)
  IN  /\ w.phase = "run" /\ w.q # <<>>
      /\ Becomes(r, IF w.l.current = NULL THEN [w EXCEPT !.phase = "fault"]
                    ELSE [w EXCEPT !.q = Front(@), !.l = IF s = NULL THEN @ ELSE MoveToTail(@, s)])

\* analysis_commit: a record for each LP sampled.
analysis_commit(w, r, e) ==
  LET s == Search(w.l, w.l.next, w.l.head, e.ts)
      recs == [i \in 1 .. conf.nlp[r] |-> [rank |-> r, lp |-> i, ts |-> e.ts, at |-> w.l.data[s]]]
  IN  IF s = NULL THEN w ELSE [st_buffer_push(w, "ANALYSIS_LP", recs) EXCEPT !.l = MoveToTail(@, s)]

-----------------------------------------------------------------------------
\* A GVT that no rank will undo.
tw_gvt_begin ==
  /\ \A r \in Rank : st[r].phase = "run"
  /\ \E g \in st[0].gvt + 1 .. conf.end :
       /\ \A r \in Rank : g <= NextTs(st[r])
       /\ st' = [r \in Rank |-> [st[r] EXCEPT !.phase = "gvt", !.gvt = g]]
  /\ UNCHANGED <<setupVars, st_file, pushed>>

\* tw_gvt_step2 behind its Allreduce: fossil collection, oldest events first,
\* then the samples of engine and model; st_inst_dump begins.
tw_gvt_step2(r) ==
  LET w == st[r]
      n == Cardinality({i \in DOMAIN w.q : w.q[i].ts < w.gvt})
      v[i \in 0 .. n] ==
        IF i = 0 THEN w
        ELSE LET u == IF conf.ev_trace = "COMMIT_TRACE" THEN st_collect_event_data(v[i - 1], r, w.q[i])
                      ELSE v[i - 1]
             IN  analysis_commit(u, r, w.q[i])
      w1 == [v[n] EXCEPT !.q = SubSeq(@, n + 1, Len(@)), !.committed = @ \o SubSeq(w.q, 1, n)]
      w2 == st_collect_model_data(st_collect_engine_data(w1, r, "GVT_COL"), r)
  IN  /\ w.phase = "gvt"
      /\ Becomes(r, [IF w.gvt_done % conf.num_gvt = 0 THEN w2 ELSE w1 EXCEPT !.phase = "dump"])

\* st_inst_finalize: a last sample in real time, and all is written.
st_inst_finalize(r) ==
  /\ st[r].phase = "run" /\ st[r].gvt = conf.end
  /\ Becomes(r, [st_collect_engine_data(st[r], r, "RT_COL") EXCEPT !.phase = "dump", !.final = TRUE])

\* The Allgather of st_buffer_write.
AllgatherSizes ==
  /\ \A r \in Rank : st[r].phase = "dump"
  /\ st' = [r \in Rank |->
              [st[r] EXCEPT !.phase = "write",
                            !.sizes = [t \in ColType |-> [q \in Rank |-> Len(st[q].buffer[t])]]]]
  /\ UNCHANGED <<setupVars, st_file, pushed>>

\* Mutant: only a rank whose own buffer has filled writes.
WritesOwn(w, r, t) == w.final \/ w.sizes[t][r] >= conf.buffer_dump

\* Some rank's buffer has filled, or this is the end.
Writes(w, r, t) == w.final \/ \E q \in Rank : w.sizes[t][q] >= conf.buffer_dump

\* Each rank writes behind the ranks before it, in its own time.
st_buffer_write(r) ==
  LET w == st[r]
      out == {t \in conf.types : Writes(w, r, t)}
      sum(t, R) == MapThenSumSet(LAMBDA q : w.sizes[t][q], R)
      at(t) == w.prev_offset[t] + sum(t, 0 .. r - 1)
      part(t) == [x \in at(t) .. at(t) + Len(w.buffer[t]) - 1 |-> w.buffer[t][x - at(t) + 1]]
  IN  /\ w.phase = "write"
      /\ st_file' = [t \in ColType |->
            IF t \notin out THEN st_file[t]
            ELSE [x \in DOMAIN part(t) \cup DOMAIN st_file[t] |->
                    IF x \in DOMAIN part(t) THEN part(t)[x] ELSE st_file[t][x]]]
      /\ st' = [st EXCEPT ![r] =
            [w EXCEPT !.buffer = [t \in ColType |-> IF t \in out THEN <<>> ELSE @[t]],
                      !.prev_offset = [t \in ColType |-> IF t \in out THEN @[t] + sum(t, Rank) ELSE @[t]],
                      !.sizes = <<>>, !.gvt_done = IF w.final THEN @ ELSE @ + 1,
                      !.phase = IF w.final THEN "closed" ELSE "run"]]
      /\ UNCHANGED <<setupVars, pushed>>

\* tw_run of a job with instrumentation.
StatsRun ==
  /\ conf.synch = "stats" /\ st = NoStats /\ \A r \in Rank : stage[r] = "run"
  /\ st' = [r \in Rank |-> StartStats]
  /\ pushed' = [t \in ColType |-> [r \in Rank |-> <<>>]]
  /\ UNCHANGED <<setupVars, st_file>>

StatsEnded ==
  /\ st # NoStats
  /\ \/ \A r \in Rank : st[r].phase = "closed"
     \/ \E r \in Rank : st[r].phase = "fault"
     \/ \A r \in Rank : st[r].phase = "run" /\ st[r].processed = conf.max_processed

StatsNext ==
  \/ StatsRun
  \/ /\ st # NoStats /\ \A r \in Rank : st[r].phase # "fault"
     /\ \/ tw_gvt_begin \/ AllgatherSizes
        \/ \E r \in Rank : \/ analysis_event(r) \/ analysis_event_rc(r) \/ tw_gvt_step2(r)
                           \/ st_inst_finalize(r) \/ st_buffer_write(r)

-----------------------------------------------------------------------------
\* Until the places run out, the list of an analysis LP has all of them, in one
\* order both ways, and before the current one those of the samples that may
\* still be undone, oldest first, with what their last execution saw: undoing
\* and committing in any order lose none and mix up none.
SamplesKept ==
  st # NoStats => \A r \in Rank :
    LET l == st[r].l
        all == Along(l.next, l.head)
        used == {i \in DOMAIN all : i <= Len(st[r].q)}
    IN  /\ Len(all) = conf.samples /\ ToSet(all) = 1 .. conf.samples
        /\ l.tail = Last(all) /\ Along(l.prev, l.tail) = Reverse(all)
        /\ \A i \in used : [ts |-> l.ts[all[i]], at |-> l.data[all[i]]] = st[r].q[i]
        /\ l.current # NULL => l.current = all[Len(st[r].q) + 1]

\* When the files are closed each has, without a gap, what every rank's buffer
\* took, in the order it took it, whoever's buffer filled first; the samples
\* stored and those counted as missed are the samples committed; and the
\* numbers reported in real time add up to all events processed.
FilesWhole ==
  st # NoStats /\ (\A r \in Rank : st[r].phase = "closed") =>
    LET file(t) == [i \in 1 .. Cardinality(DOMAIN st_file[t]) |-> st_file[t][i - 1]]
        of(t, r) == SelectSeq(file(t), LAMBDA rec : rec.rank = r)
        sample(s) == SelectSeq(s, LAMBDA rec : "ts" \in DOMAIN rec)
    IN  /\ \A t \in ColType :
             /\ DOMAIN st_file[t] = 0 .. Cardinality(DOMAIN st_file[t]) - 1
             /\ \A r \in Rank : of(t, r) = pushed[t][r]
        /\ \A r \in Rank :
             /\ "ANALYSIS_LP" \in conf.types =>
                  ToSet(sample(of("ANALYSIS_LP", r))) \cup ToSet(sample(st[r].missed["ANALYSIS_LP"])) =
                    {[rank |-> r, lp |-> i, ts |-> e.ts, at |-> e.at] :
                       i \in 1 .. conf.nlp[r], e \in ToSet(st[r].committed)}
             /\ "RT_COL" \in conf.types =>
                  SumFunction([i \in DOMAIN of("RT_COL", r) |-> of("RT_COL", r)[i].n])
                    + SumFunction([i \in DOMAIN st[r].missed["RT_COL"] |-> st[r].missed["RT_COL"][i].n])
                    = st[r].processed
=============================================================================

-------------------------------- MODULE Rio --------------------------------
(***************************************************************************)
(* RIO: a job stores its LPs and the events sent past its end, and another *)
(* job, perhaps on another number of ranks, starts from the files.         *)
(*                                                                         *)
(* A job comes from Setup with the tables of its LPs.  Its simulation is   *)
(* left to other modules: here a rank works by changing the state of an LP *)
(* and sending an event past the end, or by a rollback that cancels one.   *)
(* The events before the end are all executed when the job stores.  A data *)
(* file is a function of the offset; an LP's header and an event are one   *)
(* long, what the model adds to an LP is as long as the model says.        *)
(***************************************************************************)
EXTENDS Setup, FiniteSetsExt, SequencesExt

VARIABLES
  io,           \* the ranks of the job: [phase, free, buffered, pq, lp, work]
  files,        \* the checkpoint: [md, sizes, data], by part, LP and file
  saved         \* history: what was stored, [lp: by number, ev]

rioVars == <<io, files, saved>>

Loads == conf.load_at # "NONE"
NoFiles == [md |-> <<>>, sizes |-> <<>>, data |-> <<>>]
NoIo == <<>>

RioInit == io = NoIo /\ files = NoFiles /\ saved = [lp |-> <<>>, ev |-> {}]

\* io_init: the Exscans over the ranks.
l_io_kp_offset(r) == MapThenSumSet(LAMBDA q : g_tw_nkp[q], 0 .. r - 1)
l_io_lp_offset(r) == MapThenSumSet(LAMBDA q : conf.nlp[q], 0 .. r - 1)

\* The bytes the model's serialize writes.
ModelSize(gid) == 1 + (gid % 2)

\* The queues g_io_free_events, a number, and g_io_buffered_events.  Without a
\* free buffer the event is lost with a warning.
io_event_grab(q, e) ==
  IF q.free = 0 THEN q ELSE [q EXCEPT !.free = @ - 1, !.buffered = Append(@, e)]

io_event_cancel(q, n) == [q EXCEPT !.free = @ + 1, !.buffered = RemoveAt(@, n)]

\* setup_pes and the allocation of the LPs.
StartRank(r) ==
  [phase |-> "init", free |-> conf.io_events, buffered |-> <<>>, pq |-> {}, work |-> conf.work,
   lp |-> [i \in DOMAIN g_tw_lp[r] |->
             [gid |-> g_tw_lp[r][i].gid, rng |-> g_tw_lp[r][i].rng[0], state |-> 0]]]

\* Every LP's init handler.
InitLps(q) ==
  [q EXCEPT !.lp = [i \in DOMAIN q.lp |->
     [q.lp[i] EXCEPT !.state = 1, !.rng = rng_gen_val(@)]]]

-----------------------------------------------------------------------------
\* The rows of the metadata that belong to the KPs of rank r.
MyPartitions(r) == [k \in 0 .. g_tw_nkp[r] - 1 |-> files.md[l_io_kp_offset(r) + k]]

\* The LPs of partition k by local number: they were written one KP after the
\* other, and are read in that order.
LpsOf(parts, k) ==
  LET first(j) == MapThenSumSet(LAMBDA p : parts[p].lp_count, 0 .. j - 1)
  IN  first(k) .. first(k + 1) - 1

\* Where an LP begins in the data of its partition, and the first event.
LpAt(parts, k, i, size) ==
  parts[k].offset + MapThenSumSet(LAMBDA j : 1 + size[j], {j \in LpsOf(parts, k) : j < i})
EventsAt(parts, k, size) ==
  parts[k].offset + MapThenSumSet(LAMBDA j : 1 + size[j], LpsOf(parts, k))

\* Mutant: only the first partition of a rank has events, as when it was stored.
EventsOfFirst(parts, k, size) ==
  [n \in 1 .. (IF k = 0 THEN parts[k].ev_count ELSE 0) |->
     files.data[parts[k].file][EventsAt(parts, k, size) + n - 1]]

\* The events of partition k: dest_lp stays a number, src_lp is looked up, and
\* the time stamp is relative to the end of the job that stored it.
EventsOf(parts, k, size) ==
  [n \in 1 .. parts[k].ev_count |-> files.data[parts[k].file][EventsAt(parts, k, size) + n - 1]]

\* What io_event_deserialize finds for src_lp: an error with the round robin
\* mapping, and beyond the table of LPs when the sender is on another rank.
SourceFound(r, e) ==
  conf.mapping = "linear" /\ e.src - r * conf.nlp[r] \in DOMAIN g_tw_lp[r]

\* Whether rank r can read the checkpoint, and what it then has.
CanRead(r, q) ==
  /\ \A k \in 0 .. g_tw_nkp[r] - 1 : l_io_kp_offset(r) + k \in DOMAIN files.md
  /\ LET parts == MyPartitions(r)
         size  == [i \in 0 .. conf.nlp[r] - 1 |-> files.sizes[l_io_lp_offset(r) + i]]
     IN  /\ MapThenSumSet(LAMBDA k : parts[k].lp_count, DOMAIN parts) = conf.nlp[r]
         /\ MapThenSumSet(LAMBDA k : parts[k].ev_count, DOMAIN parts) <= q.free
         /\ \A k \in DOMAIN parts : \A e \in ToSet(EventsOf(parts, k, size)) : SourceFound(r, e)

io_read_checkpoint(r, q) ==
  LET parts == MyPartitions(r)
      size  == [i \in 0 .. conf.nlp[r] - 1 |-> files.sizes[l_io_lp_offset(r) + i]]
      part(i) == CHOOSE k \in DOMAIN parts : i \in LpsOf(parts, k)
      data(i) == files.data[parts[part(i)].file][LpAt(parts, part(i), i, size)]
      events == FlattenSeq([k \in 1 .. g_tw_nkp[r] |-> EventsOf(parts, k - 1, size)])
  IN  [q EXCEPT !.lp = [i \in DOMAIN q.lp |-> data(i)],
                !.free = @ - Len(events),
                !.buffered = @ \o events]

\* tw_init_lps, with the checkpoint read before, instead of or after init.
RioInitLps(r) ==
  /\ io[r].phase = "init"
  /\ LET q == io[r]
     IN  \/ /\ ~Loads
            /\ io' = [io EXCEPT ![r] = [InitLps(q) EXCEPT !.phase = "lps"]]
            /\ UNCHANGED stage
         \/ /\ Loads /\ ~CanRead(r, q)
            /\ stage' = [stage EXCEPT ![r] = "error"]
            /\ UNCHANGED io
         \/ /\ Loads /\ CanRead(r, q)
            /\ io' = [io EXCEPT ![r] =
                        [CASE conf.load_at = "PRE_INIT"  -> InitLps(io_read_checkpoint(r, q))
                           [] conf.load_at = "INIT"      -> io_read_checkpoint(r, q)
                           [] conf.load_at = "POST_INIT" -> io_read_checkpoint(r, InitLps(q))
                         EXCEPT !.phase = "lps"]]
            /\ UNCHANGED stage
  /\ UNCHANGED <<conf, g_tw_total_lps, g_tw_nkp, g_tw_kp, g_tw_lp, files, saved>>

\* One pass of io_load_events: the event last in the buffer is sent anew, at its
\* offset from now, and its buffer is free; past the end of this job too it is
\* buffered again, where the next pass finds it.
Resend(w) ==
  LET e == Last(w.buffered)
      q == [w EXCEPT !.buffered = Front(@)]
  IN  IF e.ts < conf.end THEN [q EXCEPT !.sent = @ \cup {e}, !.free = @ + 1]
      ELSE [io_event_grab(q, e) EXCEPT !.free = @ + 1]

\* tw_sched_init after a barrier; the events go to the ranks of their LPs.
io_load_events(r) ==
  /\ \A s \in Rank : io[s].phase \in {"lps", "loaded"}
  /\ io[r].phase = "lps"
  /\ LET n == Len(io[r].buffered)
         w[i \in 0 .. n] ==
           IF i = 0 THEN [free |-> io[r].free, buffered |-> io[r].buffered, sent |-> {}]
           ELSE LET v == w[i - 1] IN Resend(v)
     IN  io' = [s \in Rank |->
                  [io[s] EXCEPT
                     !.phase = IF s = r THEN "loaded" ELSE @,
                     !.free = IF s = r THEN w[n].free ELSE @,
                     !.buffered = IF s = r THEN w[n].buffered ELSE @,
                     !.pq = @ \cup {e \in w[n].sent : lp_map(r, e.dest) = s}]]
  /\ UNCHANGED <<setupVars, files, saved>>

-----------------------------------------------------------------------------
\* An event is processed; it sends one past the end to any LP, and is done for
\* good, or it is undone.
Work(r) ==
  /\ \A s \in Rank : io[s].phase \notin {"init", "lps"}
  /\ io[r].phase = "loaded" /\ io[r].work > 0
  /\ \E i \in DOMAIN io[r].lp, dest \in 0 .. g_tw_total_lps - 1 :
       LET lp == io[r].lp[i]
           e == [dest |-> dest, src |-> lp.gid, ts |-> conf.end + (lp.gid % 2), msg |-> <<conf.job, r, io[r].work>>]
       IN  io' = [io EXCEPT ![r] =
                    [io_event_grab(io[r], e) EXCEPT
                       !.work = @ - 1,
                       !.lp[i].state = @ + 1, !.lp[i].rng = rng_gen_val(@)]]
  /\ UNCHANGED <<setupVars, files, saved>>

\* The rollback that undoes the n-th buffered event's sender.
Unwork(r) ==
  /\ io[r].phase = "loaded"
  /\ \E n \in DOMAIN io[r].buffered :
       LET src == io[r].buffered[n].src
           i == CHOOSE j \in DOMAIN io[r].lp : io[r].lp[j].gid = src
       IN  /\ io[r].buffered[n].msg = <<conf.job, r, io[r].work + 1>>
           /\ io' = [io EXCEPT ![r] =
                       [io_event_cancel(io[r], n) EXCEPT
                          !.lp[i].state = @ - 1, !.lp[i].rng = rng_gen_reverse_val(@)]]
  /\ UNCHANGED <<setupVars, files, saved>>

-----------------------------------------------------------------------------
\* The LPs of rank r on KP k, and the length of its partition: all events are
\* in that of KP 0.
OnKp(r, k) == {i \in DOMAIN g_tw_lp[r] : g_tw_lp[r][i].kp = k}
EvCount(r, k) == IF k = 0 THEN Len(io[r].buffered) ELSE 0
PartSize(r, k) ==
  MapThenSumSet(LAMBDA i : 1 + ModelSize(io[r].lp[i].gid), OnKp(r, k)) + EvCount(r, k)
Contribute(r) == MapThenSumSet(LAMBDA k : PartSize(r, k), 0 .. g_tw_nkp[r] - 1)

\* The Exscan over the ranks that share a data file.
FileOffset(r) == MapThenSumSet(LAMBDA q : Contribute(q), {q \in Rank : q < r /\ conf.file[q] = conf.file[r]})

\* The time stamp becomes relative to the end.
io_event_serialize(e) == [e EXCEPT !.ts = @ - conf.end]

\* One KP's part: LPs in the order of the table, then the events, which are
\* popped from the tail.
PartData(r, k, offset) ==
  LET at(i) == offset + MapThenSumSet(LAMBDA j : 1 + ModelSize(io[r].lp[j].gid), {j \in OnKp(r, k) : j < i})
      ev0 == offset + PartSize(r, k) - EvCount(r, k)
      n == Len(io[r].buffered)
  IN  [x \in {at(i) : i \in OnKp(r, k)} \cup {ev0 + m : m \in 0 .. EvCount(r, k) - 1} |->
         IF x >= ev0 THEN io_event_serialize(io[r].buffered[n - (x - ev0)])
         ELSE LET i == CHOOSE j \in OnKp(r, k) : at(j) = x IN io[r].lp[i]]

\* What a write puts over what is there.
Over(new, old) == [x \in DOMAIN new \cup DOMAIN old |-> IF x \in DOMAIN new THEN new[x] ELSE old[x]]

\* The job has come to its end: the ranks that share a file add up what they
\* will write.
StoreBegin ==
  /\ \A r \in Rank : io[r].phase = "loaded" /\ io[r].work = 0
  /\ io' = [r \in Rank |-> [io[r] EXCEPT !.phase = "store", !.pq = {}, !.work = FileOffset(r)]]
  /\ saved' = [lp |-> [gid \in 0 .. g_tw_total_lps - 1 |->
                         LET r == lp_map(0, gid) IN io[r].lp[tw_getlocal_lp(r, gid)]],
               ev |-> UNION {{io_event_serialize(e) : e \in ToSet(io[r].buffered)} : r \in Rank}]
  /\ UNCHANGED <<setupVars, files>>

\* io_store_checkpoint after the Exscan; work holds the rank's offset.  The
\* ranks write their parts of the files in any order.
io_store_checkpoint(r) ==
  /\ io[r].phase = "store"
  /\ LET nkp == g_tw_nkp[r]
         start[k \in 0 .. nkp] == IF k = 0 THEN io[r].work ELSE start[k - 1] + PartSize(r, k - 1)
         part(k) == [file |-> conf.file[r], offset |-> start[k],
                     lp_count |-> Cardinality(OnKp(r, k)), ev_count |-> EvCount(r, k)]
         f == conf.file[r]
         old == IF f \in DOMAIN files.data THEN files.data[f] ELSE <<>>
         mine[k \in 0 .. nkp] == IF k = 0 THEN old ELSE Over(PartData(r, k - 1, start[k - 1]), mine[k - 1])
         order == SetToSortSeq(DOMAIN g_tw_lp[r], LAMBDA i, j :
                     g_tw_lp[r][i].kp < g_tw_lp[r][j].kp \/ (g_tw_lp[r][i].kp = g_tw_lp[r][j].kp /\ i < j))
     IN  files' = [md |-> Over([p \in l_io_kp_offset(r) .. l_io_kp_offset(r) + nkp - 1 |->
                                   part(p - l_io_kp_offset(r))], files.md),
                   sizes |-> Over([p \in l_io_lp_offset(r) .. l_io_lp_offset(r) + conf.nlp[r] - 1 |->
                                   ModelSize(io[r].lp[order[p - l_io_lp_offset(r) + 1]].gid)], files.sizes),
                   data |-> Over([x \in {f} |-> mine[nkp]], files.data)]
  /\ io' = [io EXCEPT ![r].phase = "done", ![r].buffered = <<>>, ![r].free = @ + Len(io[r].buffered)]
  /\ UNCHANGED <<setupVars, saved>>

\* The next job starts from nothing but the files.
Restart ==
  /\ \A r \in Rank : io[r].phase = "done"
  /\ \E c \in conf.next :
       /\ conf' = c
       /\ stage' = [r \in 0 .. c.nnodes - 1 |-> "define"]
       /\ g_tw_nkp' = [r \in 0 .. c.nnodes - 1 |-> c.nkp]
       /\ g_tw_kp' = [r \in 0 .. c.nnodes - 1 |-> {}]
       /\ g_tw_lp' = [r \in 0 .. c.nnodes - 1 |-> <<>>]
       /\ g_tw_total_lps' = 0
  /\ io' = NoIo
  /\ UNCHANGED <<files, saved>>

\* tw_run of a job with RIO.
RioRun ==
  /\ conf.synch = "rio" /\ io = NoIo /\ \A r \in Rank : stage[r] = "run"
  /\ io' = [r \in Rank |-> StartRank(r)]
  /\ UNCHANGED <<setupVars, files, saved>>

RioNext ==
  \/ RioRun
  \/ /\ Up /\ io # NoIo
     /\ \/ \E r \in Rank : RioInitLps(r) \/ io_load_events(r) \/ Work(r) \/ Unwork(r) \/ io_store_checkpoint(r)
        \/ StoreBegin \/ Restart

RioEnded == io # NoIo /\ conf.next = {} /\ \A r \in Rank : io[r].phase = "done"

-----------------------------------------------------------------------------
\* "SEND THESE EVENTS", "buffer event to send after initialization" (io-mpi.c):
\* when all ranks of a restarted job have started, every event that was stored
\* is in pq on the rank of its LP, at its old distance from the end, and each
\* LP has its stored state and stream, whatever ranks, KPs and files the two
\* jobs had.  The init handler after PRE_INIT is free to change the LP.  A job
\* that ends before an event stored is due is left out: the pass that buffers
\* it again finds it again, not the next one.
Recovered ==
  io # NoIo /\ Loads /\ (\A r \in Rank : io[r].phase = "loaded" /\ io[r].work = conf.work)
    /\ (\A e \in saved.ev : e.ts < conf.end) =>
    /\ saved.ev = UNION {io[r].pq : r \in Rank}
    /\ \A r \in Rank : io[r].buffered = <<>> /\ \A e \in io[r].pq : lp_map(r, e.dest) = r
    /\ conf.load_at # "PRE_INIT" =>
         \A r \in Rank : \A i \in DOMAIN io[r].lp : io[r].lp[i] = saved.lp[g_tw_lp[r][i].gid]
=============================================================================

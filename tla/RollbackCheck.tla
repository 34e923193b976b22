--------------------------- MODULE RollbackCheck ---------------------------
(***************************************************************************)
(* A program with the two schedulers that test reverse handlers.           *)
(* tw_scheduler_sequential_rollback_check executes every event, undoes it, *)
(* executes it again and compares the LP each time.                        *)
(* tw_scheduler_optimistic_debug executes until few buffers are free and   *)
(* then undoes all.                                                        *)
(*                                                                         *)
(* The LPs draw from their streams as Setup started them, for the target   *)
(* and the time of what they send and for its tie-breaker.  A handler may  *)
(* be wrong in one way, conf.wrong.  Comparison and copies are those of    *)
(* memory (no crv_checkpointer); the critical path is left out.            *)
(***************************************************************************)
EXTENDS Rio, Instrument

CONSTANT Reserve       \* the buffers at which the debug scheduler stops, 1024

ASSUME ProgramAssumption == Reserve \in Nat

VARIABLES
  pc,
  sim,          \* the state of the PE
  pevent_q,     \* of the only KP, newest first, with caused_by_me and aborted_total
  cev,
  prev, cur,    \* the copies of the LP
  plain         \* history: see AgainPass and DebugForward

progVars == <<pc, sim, pevent_q, cev, prev, cur, plain>>
vars == <<setupVars, rioVars, statVars, progVars>>

None == "none"
End == conf.end       \* g_tw_ts_end
MaxSig == [ts |-> End, tie |-> 0]

Before(e, f) == e.ts < f.ts \/ (e.ts = f.ts /\ e.tie < f.tie)

\* tw_pq_dequeue
First(w) == CHOOSE e \in w.pq : \A f \in w.pq : ~Before(f, e)

-----------------------------------------------------------------------------
\* tw_event_new and tw_event_send.  The tie-breaker is drawn in any case; an
\* event past the end, or one that finds no buffer, is not sent but counted.
\* With RIO an event past the end that gets a RIO buffer is counted as well as
\* linked to its cause.  src and n tell the buffers apart.
Send(w, now, src, dest, offset) ==
  LET g  == rng_gen_val(w.lp[src].core_rng)
      e  == [ts |-> now + offset, tie |-> Unif(g), dest |-> dest, src |-> src,
               n |-> w.lp[src].core_rng.count + 1]
      w1 == [w EXCEPT !.lp[src].core_rng = g]
  IN  IF e.ts < End /\ w.free > 0
      THEN [w1 EXCEPT !.free = @ - 1, !.pq = @ \cup {e}, !.caused = @ \cup {e}]
      ELSE IF e.ts >= End /\ w.io_free > 0
      THEN [w1 EXCEPT !.aborted = @ + 1, !.io_free = @ - 1, !.caused = @ \cup {e}]
      ELSE [w1 EXCEPT !.aborted = @ + 1, !.cev_abort = @ \/ e.ts < End]

\* The hook is for the model to call; the debug scheduler has none.
tw_trigger_gvt_hook_now(w, e) ==
  IF conf.synch = "debug" THEN w
  ELSE [w EXCEPT !.sig_at = [ts |-> e.ts, tie |-> e.tie],
                 !.lp[e.dest].triggered_gvt_hook = @ + 1]

tw_trigger_gvt_hook_now_rev(w, e) ==
  [w EXCEPT !.sig_at = MaxSig, !.lp[e.dest].triggered_gvt_hook = @ - 1]

\* The handler of the model: one event for an LP it draws, every other time
\* one for itself too.
Event(w, e) ==
  LET l  == e.dest
      lp == w.lp[l]
      to == tw_rand_integer(lp.rng, 0, conf.nlp[0] - 1)
      in == tw_rand_integer(to.g, 1, 2)
      w0 == [w EXCEPT !.caused = {}, !.aborted = 0, !.lp[l] = [lp EXCEPT !.rng = in.g, !.state = lp.state + 1]]
      w1 == Send(w0, e.ts, l, to.val, in.val)
      w2 == IF lp.state % 2 = 0 THEN Send(w1, e.ts, l, l, 2) ELSE w1
  IN  IF e.ts % 2 = 1 THEN tw_trigger_gvt_hook_now(w2, e) ELSE w2

\* Its reverse handler, as the model's author wrote it.
Revent(w, e) ==
  LET lp == w.lp[e.dest]
      w1 == [w EXCEPT !.lp[e.dest] =
               [lp EXCEPT !.rng = TakenBack(lp.rng, IF conf.wrong = "rng" THEN 1 ELSE 2),
                          !.state = IF conf.wrong = "state" THEN lp.state ELSE lp.state - 1]]
  IN  IF e.ts % 2 = 1 /\ conf.wrong # "hook" THEN tw_trigger_gvt_hook_now_rev(w1, e) ELSE w1

Commit(w, e) == [w EXCEPT !.lp[e.dest].state = IF conf.wrong = "commit" THEN @ + 2 ELSE @]

\* Mutant: the draws for what was not sent stay.
UndrawnKept(w, e, caused, aborted) ==
  LET w1 == Revent(w, e)
  IN  [w1 EXCEPT !.lp[e.dest].core_rng = TakenBack(@, Cardinality(caused)),
                 !.pq = @ \ caused, !.free = @ + Cardinality(caused \cap w.pq),
                 !.io_free = @ + Cardinality({c \in caused : c.ts >= End}),
                 !.caused = {}, !.aborted = 0]

\* tw_event_rollback: the reverse handler, then what the event sent leaves pq
\* or its RIO buffer, and the tie-breakers are taken back, one for each event
\* linked and one for each counted as not sent.
tw_event_rollback(w, e, caused, aborted) ==
  LET w1 == Revent(w, e)
  IN  [w1 EXCEPT !.lp[e.dest].core_rng = TakenBack(@, Cardinality(caused) + aborted),
                 !.pq = @ \ caused, !.free = @ + Cardinality(caused \cap w.pq),
                 !.io_free = @ + Cardinality({c \in caused : c.ts >= End}),
                 !.caused = {}, !.aborted = 0]

\* tw_gvt_hook_step_seq
HookStep(w) ==
  IF w.sig_at # MaxSig /\ (w.pq # {} => Before(w.sig_at, First(w)))
  THEN [w EXCEPT !.sig_at = MaxSig, !.hooked = @ + 1] ELSE w

-----------------------------------------------------------------------------
\* The PE before its LPs start, with all buffers but abort_event free.
setup_pes ==
  [lp |-> [i \in 0 .. conf.nlp[0] - 1 |->
             [state |-> 0, triggered_gvt_hook |-> 0,
              rng |-> g_tw_lp[0][i].rng[0], core_rng |-> g_tw_lp[0][i].core_rng[0]]],
   pq |-> {}, free |-> conf.events, io_free |-> conf.io_events, sig_at |-> MaxSig, hooked |-> 0,
   caused |-> {}, aborted |-> 0, cev_abort |-> FALSE]

\* Each LP schedules its first event.
tw_init_lps ==
  LET w[i \in -1 .. conf.nlp[0] - 1] ==
        IF i < 0 THEN setup_pes
        ELSE LET in == tw_rand_integer(w[i - 1].lp[i].rng, 1, 2)
             IN  Send([w[i - 1] EXCEPT !.lp[i].rng = in.g], 0, i, i, in.val)
  IN  w[conf.nlp[0] - 1]

Init ==
  /\ SetupInit /\ RioInit /\ StatsInit
  /\ pc = "setup" /\ sim = None /\ plain = None
  /\ pevent_q = <<>> /\ cev = None /\ prev = None /\ cur = None

DefineLps ==
  /\ SetupNext
  /\ UNCHANGED <<progVars, rioVars, statVars>>

\* A job that stores or loads a checkpoint.
RioJob ==
  /\ RioNext
  /\ UNCHANGED <<progVars, statVars>>

\* A job with instrumentation.
StatsJob ==
  /\ StatsNext
  /\ UNCHANGED <<progVars, rioVars>>

\* tw_run, up to the loop of the scheduler.
tw_run ==
  /\ pc = "setup" /\ \A r \in Rank : stage[r] = "run"
  /\ conf.synch \in {"check", "debug"}
  /\ IF conf.nnodes > 1 \/ (conf.synch = "debug" /\ g_tw_nkp[0] > 1) \/ tw_init_lps.cev_abort
     THEN pc' = "error" /\ UNCHANGED <<sim, plain>>
     ELSE /\ pc' = IF conf.synch = "debug" THEN "debug" ELSE "loop"
          /\ sim' = tw_init_lps
          /\ plain' = sim'
  /\ UNCHANGED <<setupVars, rioVars, statVars, pevent_q, cev, prev, cur>>

crv_copy_lpstate(lp) ==
  [f \in {"state", "rng", "core_rng", "triggered_gvt_hook"} |-> lp[f]]

\* The loop of tw_scheduler_sequential_rollback_check: the hook, the next
\* event, a copy of its LP.
Dequeue ==
  /\ pc = "loop"
  /\ LET w == HookStep(sim)
     IN  IF w.pq = {}
         THEN pc' = "end" /\ sim' = w /\ UNCHANGED <<cev, prev>>
         ELSE /\ pc' = "forward"
              /\ cev' = First(w)
              /\ sim' = [w EXCEPT !.pq = @ \ {cev'}]
              /\ prev' = crv_copy_lpstate(w.lp[cev'.dest])
  /\ plain' = HookStep(plain)
  /\ UNCHANGED <<setupVars, rioVars, statVars, pevent_q, cur>>

ForwardPass ==
  /\ pc = "forward"
  /\ sim' = Event(sim, cev)
  /\ IF sim'.cev_abort THEN pc' = "error" /\ UNCHANGED cur
     ELSE pc' = "rollback" /\ cur' = crv_copy_lpstate(sim'.lp[cev.dest])
  /\ UNCHANGED <<setupVars, rioVars, statVars, pevent_q, cev, prev, plain>>

\* Mutant: the calls of the hook are not compared.
HookUnchecked(before, lp) ==
  before.state = lp.state /\ before.rng = lp.rng /\ before.core_rng = lp.core_rng

\* State, streams and calls of the hook.
crv_check_lpstates(before, lp) ==
  /\ before.state = lp.state
  /\ before.rng = lp.rng /\ before.core_rng = lp.core_rng
  /\ before.triggered_gvt_hook = lp.triggered_gvt_hook

RollbackPass ==
  /\ pc = "rollback"
  /\ sim' = tw_event_rollback(sim, cev, sim.caused, sim.aborted)
  /\ pc' = IF crv_check_lpstates(prev, sim'.lp[cev.dest]) THEN "again" ELSE "mismatch"
  /\ UNCHANGED <<setupVars, rioVars, statVars, pevent_q, cev, prev, cur, plain>>

\* The event once more, its commit, the comparison with the first time, and
\* the buffer returns to the pool.  plain has executed each event once.
AgainPass ==
  /\ pc = "again"
  /\ LET w == Commit(Event(sim, cev), cev)
         p == Event([plain EXCEPT !.pq = @ \ {cev}], cev)
     IN  /\ sim' = [w EXCEPT !.free = @ + 1]
         /\ plain' = [p EXCEPT !.free = @ + 1]
         /\ pc' = IF ~crv_check_lpstates(cur, w.lp[cev.dest]) THEN "mismatch"
                  ELSE IF w.cev_abort THEN "error" ELSE "loop"
  /\ UNCHANGED <<setupVars, rioVars, statVars, pevent_q, cev, prev, cur>>

-----------------------------------------------------------------------------
\* The loop of tw_scheduler_optimistic_debug; plain stays as it was before the
\* first event at or after g_tw_rollback_time.
DebugForward ==
  /\ pc = "debug"
  /\ IF sim.pq = {} THEN pc' = "undo" /\ UNCHANGED <<sim, plain, pevent_q>>
     ELSE LET e == First(sim)
              w == Event([sim EXCEPT !.pq = @ \ {e}], e)
          IN  /\ sim' = w
              /\ pevent_q' = <<[ev |-> e, caused |-> w.caused, aborted |-> w.aborted]>> \o pevent_q
              /\ plain' = IF e.ts < conf.rollback_time THEN w ELSE plain
              /\ pc' = IF w.free <= Reserve THEN "undo" ELSE pc
  /\ UNCHANGED <<setupVars, rioVars, statVars, cev, prev, cur>>

\* tw_kp_rollback_to_sig
DebugRollback ==
  /\ pc = "undo"
  /\ IF pevent_q = <<>> \/ Head(pevent_q).ev.ts < conf.rollback_time
     THEN pc' = "end" /\ UNCHANGED <<sim, pevent_q>>
     ELSE LET h == Head(pevent_q)
              w == tw_event_rollback(sim, h.ev, h.caused, h.aborted)
          IN  /\ sim' = [w EXCEPT !.pq = @ \cup {h.ev}]
              /\ pevent_q' = Tail(pevent_q)
              /\ UNCHANGED pc
  /\ UNCHANGED <<setupVars, rioVars, statVars, cev, prev, cur, plain>>

\* The program has ended, or goes on in a scheduler of another module.
Ended ==
  /\ \/ ~Up
     \/ pc \in {"end", "error", "mismatch"}
     \/ RioEnded \/ StatsEnded
     \/ conf.synch = "optimistic" /\ \A r \in Rank : stage[r] = "run"
  /\ UNCHANGED vars

Next ==
  \/ DefineLps \/ RioJob \/ StatsJob \/ tw_run
  \/ Dequeue \/ ForwardPass \/ RollbackPass \/ AgainPass
  \/ DebugForward \/ DebugRollback
  \/ Ended

Spec == Init /\ [][Next]_vars

-----------------------------------------------------------------------------
\* The scheduler reports no handler that is right: what the handler and the
\* core drew, sent and asked for is taken back to the last bit, with events
\* past the end among it.
NoFalseAlarm == pc = "mismatch" => conf.wrong # "none"

\* Executing, undoing and executing again adds up to executing once: between
\* two events the LPs, pq, the pool and the hook are what plain execution has,
\* since a handler that is wrong does not come so far.  The debug scheduler
\* ends where it was at g_tw_rollback_time if the handler is right (it does
\* not call commit); tw_trigger_gvt_hook_now_rev counts down there what
\* tw_trigger_gvt_hook_now did not count, so calls of the hook are left out.
Restored ==
  LET Same(a, b) == a.pq = b.pq /\ a.free = b.free /\ a.io_free = b.io_free /\ a.sig_at = b.sig_at /\ a.hooked = b.hooked
  IN  /\ conf.synch = "check" /\ pc \in {"loop", "end"} => Same(sim, plain) /\ sim.lp = plain.lp
      /\ conf.synch = "debug" /\ pc = "end" /\ conf.wrong \in {"none", "commit"} =>
           /\ Same(sim, plain)
           /\ \A l \in DOMAIN sim.lp :
                /\ sim.lp[l].state = plain.lp[l].state
                /\ sim.lp[l].rng = plain.lp[l].rng /\ sim.lp[l].core_rng = plain.lp[l].core_rng
=============================================================================

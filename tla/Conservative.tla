---------------------------- MODULE Conservative ----------------------------
(***************************************************************************)
(* tw_scheduler_conservative on several PEs.  A PE executes an event when  *)
(* its time stamp is below GVT + g_tw_lookahead, for good: there are no    *)
(* rollbacks, and tw_event_send refuses an event closer than the lookahead *)
(* to its sender.                                                          *)
(*                                                                         *)
(* The network is that of network-mpi.c: outq, at most SendBuffer posted   *)
(* sends, which MPI may report complete at any time.  The first Allreduce  *)
(* of tw_gvt_step2 ends with no message in MPI, as TimeWarpProofs shows.   *)
(* Buffers do not run out here.  A signature stands for a time stamp and   *)
(* its random tie-breaker: it orders events, the time stamps limit them.   *)
(***************************************************************************)
EXTENDS Naturals, Sequences, FiniteSets, FiniteSetsExt

CONSTANTS
  PE, KP, Event,
  Root,         \* the events scheduled before the loop
  Parent,       \* [Event -> Event], the event whose execution sends it
  Pe,           \* [KP -> PE]
  Kp,           \* [Event -> KP]
  Ts,           \* [Event -> Nat], recv_ts
  Sig,          \* [Event -> Nat], sig: an order of the events, by time first
  End,          \* g_tw_ts_end
  Lookahead,    \* g_tw_lookahead
  SendBuffer,   \* send_buffer
  MBlock,       \* g_tw_mblock
  GvtInterval,  \* g_tw_gvt_interval
  MaxLookahead  \* g_tw_max_opt_lookahead

ASSUME ConservativeAssumption ==
  /\ IsFiniteSet(PE) /\ PE # {} /\ IsFiniteSet(Event)
  /\ Root \subseteq Event /\ Parent \in [Event -> Event]
  /\ Pe \in [KP -> PE] /\ Kp \in [Event -> KP]
  /\ Ts \in [Event -> Nat] /\ Sig \in [Event -> Nat] /\ End \in Nat
  /\ \A e, f \in Event : /\ Sig[e] = Sig[f] => e = f
                         /\ Ts[e] < Ts[f] => Sig[e] < Sig[f]
  /\ {Lookahead, SendBuffer, MBlock, GvtInterval} \subseteq Nat \ {0}

\* The test of tw_event_send; an event past the end is never made.
ASSUME LookaheadAssumption ==
  /\ \A e \in Event \ Root : Ts[e] >= Ts[Parent[e]] + Lookahead
  /\ \A e \in Event : Ts[e] < End

ASSUME LimitAssumption == MaxLookahead \in Nat \ {0}

VARIABLES
  loc,          \* "none", "outq", "net", "event_q", "pq" or "done"
  outq,         \* [PE -> Seq(Event)], next to leave first
  posted,       \* the events in posted_sends of their sender
  last,         \* last_sig of each KP
  GVT,          \* of each PE
  gvt_sig,      \* the result of the second Allreduce
  pc, msg_i, gvt_cnt

netVars == <<outq, posted>>
gvtVars == <<GVT, gvt_sig, gvt_cnt>>
vars == <<loc, netVars, last, gvtVars, pc, msg_i>>

Dst(e) == Pe[Kp[e]]
Src(e) == Pe[Kp[Parent[e]]]
In(p, l) == {e \in Event : Dst(e) = p /\ loc[e] = l}
InPast(e) == last[Kp[e]] > Sig[e]
PostedBy(p) == {e \in posted : Src(e) = p}

\* g_tw_max_sig is the end here: no event is that late.
IsLeast(p, e) == e \in In(p, "pq") /\ \A f \in In(p, "pq") : Sig[e] <= Sig[f]
PqMin(p) == Min({End} \cup {Ts[e] : e \in In(p, "pq")})

Init ==
  /\ loc = [e \in Event |-> IF e \in Root THEN "pq" ELSE "none"]
  /\ outq = [p \in PE |-> <<>>] /\ posted = {}
  /\ last = [k \in KP |-> 0]
  /\ GVT = [p \in PE |-> 0] /\ gvt_sig = 0
  /\ pc = [p \in PE |-> "net_read"]
  /\ msg_i = [p \in PE |-> MBlock] /\ gvt_cnt = [p \in PE |-> 0]

\* service_queues and the loop of tw_net_send go on until nothing changes: no
\* event waits while a send could be posted.
Serviced(p) == outq[p] = <<>> \/ Cardinality(PostedBy(p)) = SendBuffer

SendBegin(p) ==
  /\ pc[p] \in {"net_read", "step2", "batch"} /\ ~Serviced(p)
  /\ LET e == Head(outq[p])
     IN  /\ outq' = [outq EXCEPT ![p] = Tail(@)]
         /\ posted' = posted \cup {e}
         /\ loc' = [loc EXCEPT ![e] = "net"]
  /\ UNCHANGED <<last, gvtVars, pc, msg_i>>

\* test_q reports a send complete, maybe long after its message arrived.
SendFinish(p) ==
  /\ pc[p] \in {"net_read", "step2", "batch"}
  /\ \E e \in PostedBy(p) : posted' = posted \ {e}
  /\ UNCHANGED <<loc, outq, last, gvtVars, pc, msg_i>>

\* Mutant: every event is queued, as a straggler would be.
ArrivesSlow(e) == "event_q"

\* recv_finish and tw_event_send: the fast case goes to pq at once.
Arrives(e) == IF InPast(e) THEN "event_q" ELSE "pq"

RecvFinish(p) ==
  /\ pc[p] \in {"net_read", "step2"}
  /\ \E e \in In(p, "net") : loc' = [loc EXCEPT ![e] = Arrives(e)]
  /\ UNCHANGED <<netVars, last, gvtVars, pc, msg_i>>

\* The least event is close to the GVT; TW_STIME_MAX of an empty pq is not.
NotPastLookahead(p) == \E e \in In(p, "pq") : Ts[e] < GVT[p] + MaxLookahead

\* tw_net_read is over, tw_gvt_step1 and tw_sched_event_q.  A straggler would
\* find nothing to roll back, and is enqueued.
Loop(p) ==
  /\ pc[p] = "net_read" /\ Serviced(p)
  /\ loc' = [e \in Event |-> IF e \in In(p, "event_q") THEN "pq" ELSE loc[e]]
  /\ IF gvt_cnt[p] + 1 < GvtInterval /\ NotPastLookahead(p)
     THEN /\ pc' = [pc EXCEPT ![p] = "batch"]
          /\ gvt_cnt' = [gvt_cnt EXCEPT ![p] = @ + 1]
     ELSE /\ pc' = [pc EXCEPT ![p] = "step2"]
          /\ UNCHANGED gvt_cnt
  /\ msg_i' = [msg_i EXCEPT ![p] = MBlock]
  /\ UNCHANGED <<netVars, last, GVT, gvt_sig>>

\* The first Allreduce of tw_gvt_step2 gives zero.
AllreduceWhite ==
  /\ \A p \in PE : pc[p] = "step2" /\ Serviced(p)
  /\ \A e \in Event : loc[e] # "net"
  /\ pc' = [p \in PE |-> "lvt"]
  /\ UNCHANGED <<loc, netVars, last, gvtVars, msg_i>>

\* The least of the PEs' local virtual times: pq, the events received since
\* step1 (trans_msg_sig), and tw_net_minimum_sig_ptr, outq and posted_sends.
GvtValue ==
  Min({End} \cup {Ts[e] : e \in posted}
            \cup {Ts[e] : e \in {f \in Event : loc[f] \in {"pq", "event_q", "outq"}}})

AllreduceMin ==
  /\ \A p \in PE : pc[p] = "lvt"
  /\ gvt_sig' = GvtValue
  /\ pc' = [p \in PE |-> "update"]
  /\ UNCHANGED <<loc, netVars, last, GVT, gvt_cnt, msg_i>>

UpdateGVT(p) ==
  /\ pc[p] = "update"
  /\ GVT' = [GVT EXCEPT ![p] = gvt_sig]
  /\ gvt_cnt' = [gvt_cnt EXCEPT ![p] = 0]
  /\ pc' = [pc EXCEPT ![p] = IF gvt_sig >= End THEN "end" ELSE "batch"]
  /\ UNCHANGED <<loc, netVars, last, gvt_sig, msg_i>>

\* Mutant: an event at the limit itself is executed.
MayProcessAtLimit(p) == msg_i[p] > 0 /\ PqMin(p) < End /\ PqMin(p) <= GVT[p] + Lookahead

\* Mutant: the lookahead is left out.
MayProcessNoLookahead(p) == msg_i[p] > 0 /\ PqMin(p) < End /\ PqMin(p) < GVT[p]

MayProcess(p) == msg_i[p] > 0 /\ PqMin(p) < End /\ PqMin(p) < GVT[p] + Lookahead

\* The body of the batch loop.  Its test for an event in the past of its KP,
\* which ends the run, is the property NoPastEvent.
Process(p) ==
  /\ pc[p] = "batch" /\ Serviced(p) /\ MayProcess(p)
  /\ \E e \in Event :
       LET sent == {c \in Event \ Root : Parent[c] = e}
           remote == {c \in sent : Dst(c) # p}
       IN  /\ IsLeast(p, e)
           /\ last' = [last EXCEPT ![Kp[e]] = Sig[e]]
           /\ loc' = [f \in Event |->
                        IF f = e THEN "done"
                        ELSE IF f \in remote THEN "outq"
                        ELSE IF f \in sent THEN Arrives(f) ELSE loc[f]]
           /\ \E s \in [1 .. Cardinality(remote) -> remote] :
                /\ \A i, j \in DOMAIN s : i # j => s[i] # s[j]
                /\ outq' = [outq EXCEPT ![p] = @ \o s]
  /\ msg_i' = [msg_i EXCEPT ![p] = @ - 1]
  /\ UNCHANGED <<posted, gvtVars, pc>>

BatchDone(p) ==
  /\ pc[p] = "batch" /\ Serviced(p) /\ ~MayProcess(p)
  /\ pc' = [pc EXCEPT ![p] = "net_read"]
  /\ UNCHANGED <<loc, netVars, last, gvtVars, msg_i>>

Ended == (\A p \in PE : pc[p] = "end") /\ UNCHANGED vars

Next ==
  \/ \E p \in PE : \/ SendBegin(p) \/ SendFinish(p) \/ RecvFinish(p) \/ Loop(p)
                   \/ UpdateGVT(p) \/ Process(p) \/ BatchDone(p)
  \/ AllreduceWhite \/ AllreduceMin \/ Ended

Spec == Init /\ [][Next]_vars

\* A PE goes on with its loop, and MPI delivers and completes what it has;
\* which of two messages, or of a message and a loop that goes on reading,
\* comes first is not promised, hence strong fairness.
Fairness ==
  /\ \A p \in PE : /\ WF_vars(Loop(p) \/ UpdateGVT(p) \/ Process(p) \/ BatchDone(p))
                   /\ WF_vars(SendBegin(p))
                   /\ SF_vars(SendFinish(p)) /\ SF_vars(RecvFinish(p))
  /\ WF_vars(AllreduceWhite) /\ WF_vars(AllreduceMin)

FairSpec == Spec /\ Fairness
-----------------------------------------------------------------------------
\* The error "Found KP last time > current event time" is never reached: the
\* event the batch takes next is not in the past of its KP.
NoPastEvent ==
  \A p \in PE : pc[p] = "batch" /\ MayProcess(p)
                  => \A e \in Event : IsLeast(p, e) => ~InPast(e)

\* No event is ever late: one that is not yet executed, sent or not, does not
\* precede what its KP has executed.
NeverLate == \A e \in Event : loc[e] # "done" => ~InPast(e)

S == INSTANCE Simulation WITH done <- {e \in Event : loc[e] = "done"}

\* Every KP executes its events in signature order, as a sequential run does.
IsSimulation == S!Spec

\* All PEs leave their loops, and then every event has been executed.
Completes == <>(\A p \in PE : pc[p] = "end" /\ \A e \in Event : loc[e] = "done")
=============================================================================

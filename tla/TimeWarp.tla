------------------------------ MODULE TimeWarp ------------------------------
(***************************************************************************)
(* The optimistic scheduler of ROSS on several PEs: the loop of            *)
(* tw_scheduler_optimistic with the event and cancel queues, rollback,     *)
(* the network layer and the GVT computation with its fossil collection.   *)
(*                                                                         *)
(* The signature of an event is a natural number (tw_event_sig_compare_ptr *)
(* is a total order).  An event is sent by the processing of its Parent;   *)
(* processing an event sends any subset of the events it may send, so that *)
(* executing it again after a rollback may send others.                    *)
(* A PE's pq, event_q and cancel_q are sets; the pevent_q of a KP is the   *)
(* list it is, newest first.  The pool of buffers, and the abort of an     *)
(* event for want of one, are not part of this module.                     *)
(***************************************************************************)
EXTENDS NetworkMPI, Sequences

CONSTANTS
  KP,             \* kernel processes: the units of rollback
  Root,           \* the events scheduled before tw_run enters its loop
  Parent,         \* [Event -> Event], the event whose processing sends it
  Kp,             \* [Event -> KP], the KP of dest_lp
  Sig,            \* [Event -> Nat], the signature
  NoEvent,        \* the null event pointer
  MBlock,         \* g_tw_mblock
  MaxSig,         \* g_tw_max_sig, past the end of the simulation
  GvtInterval,    \* g_tw_gvt_interval
  MaxLookahead    \* g_tw_max_opt_lookahead

ASSUME TimeWarpAssumption ==
  /\ IsFiniteSet(PE) /\ PE # {}
  /\ NoEvent \notin Event
  /\ Root \subseteq Event
  /\ Parent \in [Event -> Event]
  /\ Kp \in [Event -> KP]
  /\ Sig \in [Event -> Nat]
  /\ MaxSig \in Nat
  /\ MBlock \in Nat \ {0}
  /\ GvtInterval \in Nat \ {0}
  /\ MaxLookahead \in Nat \ {0}

\* Signatures are below the end; an event is sent by the PE that processed
\* its parent, to a later signature; a KP lives on one PE.  An initial event
\* is local.
ASSUME EventAssumption ==
  /\ \A e \in Event : Sig[e] < MaxSig
  /\ \A e, f \in Event : Kp[e] = Kp[f] => Dst[e] = Dst[f]
  /\ \A e \in Root : Src[e] = Dst[e]
  /\ \A e \in Event \ Root : Src[e] = Dst[Parent[e]] /\ Sig[Parent[e]] < Sig[e]

VARIABLES
  loc,           \* state.owner of the buffer of the event at its destination
  pevent_q,      \* the processed events of a KP, newest first
  hash,          \* the events in the hash_t of their destination
  caused,        \* the events linked in caused_by_me of their parent
  cancelled,     \* the events on the cancel_q list of their destination, and
  popped,        \* those of them that tw_sched_cancel_q has taken off it
  hand,          \* the event that tw_sched_event_q or _cancel_q works on
  rb,            \* the event that tw_event_rollback works on
  pc,            \* where the PE is in the loop
  svc,           \* "all" in service_queues, "send" in tw_net_send's loop
  msg_i,         \* how many events the batch may still process
  gvt_status,    \* TRUE for TW_GVT_COMPUTE
  gvt_cnt,
  trans_msg_sig,
  lvt,           \* lvt_sig, and then gvt_sig, in tw_gvt_step2
  GVT_sig

kernelVars == <<loc, pevent_q, hash, caused, cancelled, popped, hand, rb, msg_i>>
gvtVars == <<gvt_status, gvt_cnt, trans_msg_sig, lvt, GVT_sig>>
vars == <<netVars, kernelVars, pc, svc, gvtVars>>

Loc == {"none", "pq", "event_q", "pevent_q", "undo", "anti", "free", "committed"}
PC == {"net_read", "event_q", "cancel_q", "step2", "white", "lvt", "min",
       "update", "batch", "done"}

TypeOK ==
  /\ NetTypeOK
  /\ loc \in [Event -> Loc]
  /\ pevent_q \in [KP -> Seq(Event)]
  /\ hash \subseteq Event
  /\ caused \subseteq Event
  /\ cancelled \subseteq Event
  /\ popped \subseteq Event
  /\ hand \in [PE -> Event \cup {NoEvent}]
  /\ rb \in [PE -> Event \cup {NoEvent}]
  /\ pc \in [PE -> PC]
  /\ svc \in [PE -> {"off", "all", "send"}]
  /\ msg_i \in [PE -> Nat]
  /\ gvt_status \in [PE -> BOOLEAN]
  /\ gvt_cnt \in [PE -> Nat]
  /\ trans_msg_sig \in [PE -> Nat]
  /\ lvt \in [PE -> Nat]
  /\ GVT_sig \in [PE -> Nat]

-----------------------------------------------------------------------------
In(p, l) == {e \in Event : Dst[e] = p /\ loc[e] = l}

CancelQ(p) == {e \in cancelled \ popped : Dst[e] = p}

Popped(p) == {e \in popped : Dst[e] = p}

Children(f) == {c \in caused : Parent[c] = f}

IsMin(m, S) == m \in S /\ \A x \in S : m <= x

\* Mutant: only a rollback in progress is compared with.
AheadOfUndoOnly(k, s) == \E f \in Event : Kp[f] = k /\ loc[f] = "undo" /\ Sig[f] > s

\* kp->last_sig exceeds s.  last_sig is the signature of the event under
\* rollback, else of the head of pevent_q, else one that no event precedes.
Ahead(k, s) ==
  \/ \E f \in Event : Kp[f] = k /\ loc[f] = "undo" /\ Sig[f] > s
  \/ pevent_q[k] # <<>> /\ Sig[Head(pevent_q[k])] > s

\* Mutant: transient messages are not recorded.
TransientLost(p, s) == UNCHANGED trans_msg_sig

\* The update of trans_msg_sig that accompanies every send, cancel and
\* receive while the computation of the GVT is in progress.
Transient(p, s) ==
  trans_msg_sig' = IF gvt_status[p] /\ s <= trans_msg_sig[p]
                     THEN [trans_msg_sig EXCEPT ![p] = s] ELSE trans_msg_sig

Init ==
  /\ NetInit
  /\ loc = [e \in Event |-> IF e \in Root THEN "pq" ELSE "none"]
  /\ pevent_q = [k \in KP |-> <<>>]
  /\ hash = {}
  /\ caused = {}
  /\ cancelled = {}
  /\ popped = {}
  /\ hand = [p \in PE |-> NoEvent]
  /\ rb = [p \in PE |-> NoEvent]
  /\ pc = [p \in PE |-> "net_read"]
  /\ svc = [p \in PE |-> "all"]
  /\ msg_i = [p \in PE |-> MBlock]
  /\ gvt_status = [p \in PE |-> FALSE]
  /\ gvt_cnt = [p \in PE |-> 0]
  /\ trans_msg_sig = [p \in PE |-> MaxSig]
  /\ lvt = [p \in PE |-> MaxSig]
  /\ GVT_sig = [p \in PE |-> 0]

-----------------------------------------------------------------------------
(***************************************************************************)
(* service_queues, and the part of it that tw_net_send runs.               *)
(***************************************************************************)

SendBegin(p) ==
  /\ svc[p] \in {"all", "send"}
  /\ \E e \in Event : Src[e] = p /\ send_begin(e)
  /\ UNCHANGED <<kernelVars, pc, svc, gvtVars>>

SendFinish(p) ==
  /\ svc[p] \in {"all", "send"}
  /\ \E e \in Event : Src[e] = p /\ send_finish(e)
  /\ UNCHANGED <<kernelVars, pc, svc, gvtVars>>

\* recv_finish of an event: the fast case enters pq, unless an anti-message
\* waits in cancel_q.
RecvEvent(p, e) ==
  /\ svc[p] = "all"
  /\ Dst[e] = p
  /\ NetReceive(<<e, "event">>)
  /\ Transient(p, Sig[e])
  /\ hash' = hash \cup {e}
  /\ loc' = [loc EXCEPT ![e] = IF ~Ahead(Kp[e], Sig[e]) /\ CancelQ(p) = {}
                                 THEN "pq" ELSE "event_q"]
  /\ UNCHANGED <<pevent_q, caused, cancelled, popped, hand, rb, msg_i, pc, svc, gvt_status, gvt_cnt, lvt, GVT_sig>>

\* recv_finish of an anti-message: the event it names is taken from the hash
\* table and put on cancel_q, wherever it is.
RecvAnti(p, e) ==
  /\ svc[p] = "all"
  /\ Dst[e] = p
  /\ NetReceive(<<e, "anti">>)
  /\ Transient(p, Sig[e])
  /\ hash' = hash \ {e}
  /\ cancelled' = cancelled \cup {e}
  /\ UNCHANGED <<loc, pevent_q, caused, popped, hand, rb, msg_i, pc, svc, gvt_status, gvt_cnt, lvt, GVT_sig>>

ServiceDone(p) ==
  /\ svc[p] # "off"
  /\ Serviced(p)
  /\ svc' = [svc EXCEPT ![p] = "off"]
  /\ UNCHANGED <<netVars, kernelVars, pc, gvtVars>>

-----------------------------------------------------------------------------
(***************************************************************************)
(* tw_gvt_step1, tw_sched_event_q and tw_sched_cancel_q.                   *)
(***************************************************************************)

\* The least event is close to the GVT; TW_STIME_MAX of an empty pq is not.
NotPastLookahead(p) == \E e \in In(p, "pq") : Sig[e] < GVT_sig[p] + MaxLookahead

tw_gvt_step1(p) ==
  /\ pc[p] = "net_read" /\ svc[p] = "off"
  /\ gvt_cnt' = [gvt_cnt EXCEPT ![p] = @ + 1]
  /\ gvt_status' = [gvt_status EXCEPT ![p] = ~(gvt_cnt'[p] < GvtInterval /\ NotPastLookahead(p))]
  /\ pc' = [pc EXCEPT ![p] = "event_q"]
  /\ UNCHANGED <<netVars, kernelVars, svc, trans_msg_sig, lvt, GVT_sig>>

\* The next event of the popped event_q.  One cancelled meanwhile is left to
\* tw_sched_cancel_q, a straggler is taken in hand for the rollback it causes.
SchedEvent(p, e) ==
  /\ pc[p] = "event_q" /\ svc[p] = "off" /\ hand[p] = NoEvent
  /\ e \in In(p, "event_q")
  /\ \/ /\ e \in cancelled
        /\ loc' = [loc EXCEPT ![e] = "anti"]
        /\ UNCHANGED hand
     \/ /\ e \notin cancelled /\ ~Ahead(Kp[e], Sig[e])
        /\ loc' = [loc EXCEPT ![e] = "pq"]
        /\ UNCHANGED hand
     \/ /\ e \notin cancelled /\ Ahead(Kp[e], Sig[e])
        /\ hand' = [hand EXCEPT ![p] = e]
        /\ UNCHANGED loc
  /\ UNCHANGED <<netVars, pevent_q, hash, caused, cancelled, popped, rb, msg_i, pc, svc, gvtVars>>

\* tw_kp_rollback_to_sig still has an event to undo for the straggler e.
MustUndo(e) ==
  pevent_q[Kp[e]] # <<>> /\ Sig[Head(pevent_q[Kp[e]])] >= Sig[e]

\* tw_kp_rollback_to_sig, and for a cancelled event tw_kp_rollback_event,
\* shift the head of pevent_q and start tw_event_rollback of it.
RollbackNext(p) ==
  /\ hand[p] # NoEvent /\ rb[p] = NoEvent /\ svc[p] = "off"
  /\ pc[p] = "event_q" => MustUndo(hand[p])
  /\ LET k == Kp[hand[p]]
         f == Head(pevent_q[k])
     IN  /\ pevent_q[k] # <<>>
         /\ rb' = [rb EXCEPT ![p] = f]
         /\ loc' = [loc EXCEPT ![f] = "undo"]
         /\ pevent_q' = [pevent_q EXCEPT ![k] = Tail(@)]
  /\ UNCHANGED <<netVars, hash, caused, cancelled, popped, hand, msg_i, pc, svc, gvtVars>>

\* event_cancel of one event that the event under rollback has sent to
\* another PE; tw_net_cancel returns early when it never left outq.  Else
\* event->sig is read after service_queues, which may have sent the anti-
\* message, freed the buffer and received another event into it, one that
\* trans_msg_sig already covers: then the signature of c is not added.
CancelRemote(p, c) ==
  /\ rb[p] # NoEvent /\ svc[p] = "off"
  /\ c \in Children(rb[p]) \cap Remote
  /\ tw_net_cancel(c)
  /\ \/ Transient(p, Sig[c])
     \/ owner[c] # "outq" /\ UNCHANGED trans_msg_sig
  /\ caused' = caused \ {c}
  /\ svc' = [svc EXCEPT ![p] = IF owner[c] = "outq" THEN @ ELSE "all"]
  /\ UNCHANGED <<loc, pevent_q, hash, cancelled, popped, hand, rb, msg_i, pc, gvt_status, gvt_cnt, lvt, GVT_sig>>

\* Mutant: a processed event is not cancelled with the event that sent it.
CancelLocalForgotten(p, c) ==
  /\ rb[p] # NoEvent /\ svc[p] = "off"
  /\ c \in Children(rb[p]) \ Remote
  /\ loc' = IF loc[c] = "pq" THEN [loc EXCEPT ![c] = "free"] ELSE loc
  /\ caused' = caused \ {c}
  /\ UNCHANGED <<netVars, cancelled, pevent_q, hash, popped, hand, rb, msg_i, pc, svc, gvtVars>>

\* event_cancel of a local one: freed if in pq, else put on cancel_q.
CancelLocal(p, c) ==
  /\ rb[p] # NoEvent /\ svc[p] = "off"
  /\ c \in Children(rb[p]) \ Remote
  /\ \/ /\ loc[c] = "pq"
        /\ loc' = [loc EXCEPT ![c] = "free"]
        /\ UNCHANGED <<cancelled, trans_msg_sig>>
     \/ /\ loc[c] \in {"event_q", "pevent_q"}
        /\ cancelled' = cancelled \cup {c}
        /\ Transient(p, Sig[c])
        /\ UNCHANGED loc
  /\ caused' = caused \ {c}
  /\ UNCHANGED <<netVars, pevent_q, hash, popped, hand, rb, msg_i, pc, svc, gvt_status, gvt_cnt, lvt, GVT_sig>>

\* The event rolled back returns to pq; the one that is itself cancelled is
\* freed instead, and the cancel is done.
RollbackDone(p) ==
  /\ rb[p] # NoEvent /\ svc[p] = "off"
  /\ Children(rb[p]) = {}
  /\ LET mine == pc[p] = "cancel_q" /\ rb[p] = hand[p]
     IN  /\ loc' = [loc EXCEPT ![rb[p]] = IF mine THEN "free" ELSE "pq"]
         /\ hand' = IF mine THEN [hand EXCEPT ![p] = NoEvent] ELSE hand
  /\ rb' = [rb EXCEPT ![p] = NoEvent]
  /\ UNCHANGED <<netVars, pevent_q, hash, caused, cancelled, popped, msg_i, pc, svc, gvtVars>>

\* The straggler in hand enters pq once nothing later is left processed.
EnqueueHand(p) ==
  /\ pc[p] = "event_q" /\ svc[p] = "off"
  /\ hand[p] # NoEvent /\ rb[p] = NoEvent
  /\ ~MustUndo(hand[p])
  /\ loc' = [loc EXCEPT ![hand[p]] = "pq"]
  /\ hand' = [hand EXCEPT ![p] = NoEvent]
  /\ UNCHANGED <<netVars, pevent_q, hash, caused, cancelled, popped, rb, msg_i, pc, svc, gvtVars>>

EventQDone(p) ==
  /\ pc[p] = "event_q" /\ svc[p] = "off" /\ hand[p] = NoEvent
  /\ In(p, "event_q") = {}
  /\ pc' = [pc EXCEPT ![p] = "cancel_q"]
  /\ UNCHANGED <<netVars, kernelVars, svc, gvtVars>>

\* The outer loop of tw_sched_cancel_q takes the whole list: from here on an
\* arriving event finds cancel_q empty although cancels are still pending.
PopCancelQ(p) ==
  /\ pc[p] = "cancel_q" /\ svc[p] = "off" /\ hand[p] = NoEvent
  /\ Popped(p) = {} /\ CancelQ(p) # {}
  /\ popped' = popped \cup CancelQ(p)
  /\ UNCHANGED <<netVars, loc, pevent_q, hash, caused, cancelled, hand, rb, msg_i, pc, svc, gvtVars>>

\* The next event of that list: freed where it is, or taken in hand for the
\* secondary rollback if it has been processed.
SchedCancel(p, e) ==
  /\ pc[p] = "cancel_q" /\ svc[p] = "off" /\ hand[p] = NoEvent
  /\ e \in Popped(p)
  /\ cancelled' = cancelled \ {e}
  /\ popped' = popped \ {e}
  /\ \/ /\ loc[e] \in {"event_q", "anti", "pq"}
        /\ loc' = [loc EXCEPT ![e] = "free"]
        /\ UNCHANGED hand
     \/ /\ loc[e] = "pevent_q"
        /\ hand' = [hand EXCEPT ![p] = e]
        /\ UNCHANGED loc
  /\ UNCHANGED <<netVars, pevent_q, hash, caused, rb, msg_i, pc, svc, gvtVars>>

\* After the queues tw_gvt_step2 returns at once or starts its network read.
CancelQDone(p) ==
  /\ pc[p] = "cancel_q" /\ svc[p] = "off" /\ hand[p] = NoEvent
  /\ Popped(p) = {} /\ CancelQ(p) = {}
  /\ IF gvt_status[p]
       THEN /\ pc' = [pc EXCEPT ![p] = "step2"]
            /\ svc' = [svc EXCEPT ![p] = "all"]
       ELSE /\ pc' = [pc EXCEPT ![p] = "batch"]
            /\ UNCHANGED svc
  /\ UNCHANGED <<netVars, kernelVars, gvtVars>>

-----------------------------------------------------------------------------
(***************************************************************************)
(* tw_gvt_step2.  An Allreduce is one action, enabled when every PE is in  *)
(* it; the PEs leave it one by one.                                        *)
(***************************************************************************)

EnterWhite(p) ==
  /\ pc[p] = "step2" /\ svc[p] = "off"
  /\ pc' = [pc EXCEPT ![p] = "white"]
  /\ UNCHANGED <<netVars, kernelVars, svc, gvtVars>>

\* Mutant: one round of counting, whatever its sum.
AllreduceWhiteOnce ==
  /\ \A p \in PE : pc[p] = "white"
  /\ pc' = [p \in PE |-> "lvt"]
  /\ UNCHANGED <<netVars, kernelVars, svc, gvtVars>>

\* The sum of s_nwhite_sent - s_nwhite_recv over the PEs is zero, or they
\* all read the network again.
AllreduceWhite ==
  /\ \A p \in PE : pc[p] = "white"
  /\ IF Cardinality(s_nwhite_sent) = Cardinality(s_nwhite_recv)
       THEN /\ pc' = [p \in PE |-> "lvt"]
            /\ UNCHANGED svc
       ELSE /\ pc' = [p \in PE |-> "step2"]
            /\ svc' = [p \in PE |-> "all"]
  /\ UNCHANGED <<netVars, kernelVars, gvtVars>>

\* Mutant: it answers an empty outq with -1 in place of g_tw_max_sig.
LvtBoundsNegative(p) ==
  {IF OutqOf(p) \cup PostedBy(p) = {} THEN 0 - 1 ELSE MaxSig, trans_msg_sig[p]}
    \cup {Sig[e] : e \in In(p, "pq") \cup OutqOf(p) \cup PostedBy(p)}

\* What bounds the local virtual time of p: the transient messages, pq, and
\* by tw_net_minimum_sig_ptr what is in outq and posted_sends.
LvtBounds(p) ==
  {MaxSig, trans_msg_sig[p]} \cup {Sig[e] : e \in In(p, "pq")}
    \cup {Sig[e] : e \in OutqOf(p) \cup PostedBy(p)}

ComputeLvt(p) ==
  /\ pc[p] = "lvt"
  /\ \E m \in LvtBounds(p) :
        IsMin(m, LvtBounds(p)) /\ lvt' = [lvt EXCEPT ![p] = m]
  /\ pc' = [pc EXCEPT ![p] = "min"]
  /\ UNCHANGED <<netVars, kernelVars, svc, gvt_status, gvt_cnt, trans_msg_sig, GVT_sig>>

AllreduceMin ==
  /\ \A p \in PE : pc[p] = "min"
  /\ \E q \in PE : /\ \A p \in PE : lvt[q] <= lvt[p]
                   /\ lvt' = [p \in PE |-> lvt[q]]
  /\ pc' = [p \in PE |-> "update"]
  /\ UNCHANGED <<netVars, kernelVars, svc, gvt_status, gvt_cnt, trans_msg_sig, GVT_sig>>

\* tw_eventq_fossil_collect cuts the list from its tail up to the last event
\* that is not below g: how many events stay.
Kept(s, g) ==
  CHOOSE n \in 0 .. Len(s) : /\ n > 0 => Sig[s[n]] >= g
                             /\ \A i \in n + 1 .. Len(s) : Sig[s[i]] < g

\* What the new GVT commits on p.
Fossils(p, g) ==
  {f \in In(p, "pevent_q") :
     \E i \in Kept(pevent_q[Kp[f]], g) + 1 .. Len(pevent_q[Kp[f]]) :
        f = pevent_q[Kp[f]][i]}

\* The new GVT is adopted, the round is reset, and tw_pe_fossil_collect
\* commits; the scheduler leaves its loop when GVT is past the end.
UpdateGVT(p) ==
  LET F == Fossils(p, lvt[p])
      C == {c \in caused : Parent[c] \in F}
  IN  /\ pc[p] = "update"
      /\ s_nwhite_sent' = {m \in s_nwhite_sent : Src[m[1]] # p}
      /\ s_nwhite_recv' = {m \in s_nwhite_recv : Dst[m[1]] # p}
      /\ trans_msg_sig' = [trans_msg_sig EXCEPT ![p] = MaxSig]
      /\ GVT_sig' = [GVT_sig EXCEPT ![p] = lvt[p]]
      /\ gvt_status' = [gvt_status EXCEPT ![p] = FALSE]
      /\ gvt_cnt' = [gvt_cnt EXCEPT ![p] = 0]
      /\ loc' = [e \in Event |-> IF e \in F THEN "committed" ELSE loc[e]]
      /\ pevent_q' = [k \in KP |->
            IF \E f \in F : Kp[f] = k
              THEN SubSeq(pevent_q[k], 1, Kept(pevent_q[k], lvt[p]))
              ELSE pevent_q[k]]
      /\ hash' = hash \ F
      /\ caused' = caused \ C
      /\ FreeSent(C)
      /\ pc' = [pc EXCEPT ![p] = IF lvt[p] >= MaxSig THEN "done" ELSE "batch"]
      /\ UNCHANGED <<cancel_q, cancel_asend, outq, posted_sends, net,
                     cancelled, popped, hand, rb, msg_i, svc, lvt>>

-----------------------------------------------------------------------------
(***************************************************************************)
(* tw_sched_batch.                                                         *)
(***************************************************************************)

\* The earliest event of pq is processed and sends the events K: remote ones
\* by tw_net_send, local ones into pq or, if their KP is ahead, into event_q.
Process(p, e) ==
  /\ pc[p] = "batch" /\ svc[p] = "off" /\ msg_i[p] > 0
  /\ e \in In(p, "pq")
  /\ \A f \in In(p, "pq") : Sig[e] <= Sig[f]
  /\ \E K \in SUBSET {c \in Event \ Root : Parent[c] = e /\ loc[c] = "none"
                                             /\ owner[c] = "none"} :
        /\ tw_net_send(K \cap Remote)
        /\ loc' = [c \in Event |->
              IF c = e THEN "pevent_q"
              ELSE IF c \in K \ Remote
                     THEN IF Ahead(Kp[c], Sig[c]) THEN "event_q" ELSE "pq"
              ELSE loc[c]]
        /\ caused' = caused \cup K
  /\ pevent_q' = [pevent_q EXCEPT ![Kp[e]] = <<e>> \o @]
  /\ msg_i' = [msg_i EXCEPT ![p] = @ - 1]
  /\ svc' = [svc EXCEPT ![p] = "send"]
  /\ UNCHANGED <<hash, cancelled, popped, hand, rb, pc, gvtVars>>

\* The batch ends after g_tw_mblock events or with an empty pq.
BatchDone(p) ==
  /\ pc[p] = "batch" /\ svc[p] = "off"
  /\ msg_i[p] = 0 \/ In(p, "pq") = {}
  /\ msg_i' = [msg_i EXCEPT ![p] = MBlock]
  /\ pc' = [pc EXCEPT ![p] = "net_read"]
  /\ svc' = [svc EXCEPT ![p] = "all"]
  /\ UNCHANGED <<netVars, loc, pevent_q, hash, caused, cancelled, popped, hand, rb, gvtVars>>

Terminated ==
  /\ \A p \in PE : pc[p] = "done"
  /\ UNCHANGED vars

Service(p) ==
  \/ SendBegin(p) \/ SendFinish(p) \/ ServiceDone(p)
  \/ \E e \in Event : RecvEvent(p, e) \/ RecvAnti(p, e)

Schedule(p) ==
  \/ tw_gvt_step1(p) \/ RollbackNext(p) \/ RollbackDone(p) \/ EnqueueHand(p)
  \/ EventQDone(p) \/ PopCancelQ(p) \/ CancelQDone(p)
  \/ \E e \in Event : \/ SchedEvent(p, e) \/ CancelRemote(p, e)
                      \/ CancelLocal(p, e) \/ SchedCancel(p, e)

Batch(p) == (\E e \in Event : Process(p, e)) \/ BatchDone(p)

Gvt(p) == EnterWhite(p) \/ ComputeLvt(p) \/ UpdateGVT(p)

Next ==
  \/ \E p \in PE : Service(p) \/ Schedule(p) \/ Batch(p) \/ Gvt(p)
  \/ AllreduceWhite
  \/ AllreduceMin
  \/ Terminated

Spec == Init /\ [][Next]_vars

\* A PE never blocks outside the Allreduces, MPI completes every send, and a
\* PE that polls again and again receives what was sent to it; a single poll
\* promises nothing, hence strong fairness.
Fairness ==
  /\ \A p \in PE :
        /\ WF_vars(Schedule(p) \/ Batch(p) \/ Gvt(p))
        /\ WF_vars(SendBegin(p))
        /\ WF_vars(ServiceDone(p))
        /\ SF_vars(SendFinish(p))
        /\ SF_vars(\E e \in Event : RecvEvent(p, e) \/ RecvAnti(p, e))
  /\ WF_vars(AllreduceWhite)
  /\ WF_vars(AllreduceMin)

FairSpec == Spec /\ Fairness

-----------------------------------------------------------------------------
\* A message is owed for e: its event or its anti-message has still to leave
\* its sender, or is on its way.
Pending(e) ==
  \/ e \in outq
  \/ e \in cancel_asend
  \/ <<e, "event">> \in net
  \/ <<e, "anti">> \in net

\* GVT is a lower bound of all that can still happen: no event that is
\* unprocessed, cancelled but not yet undone, or on its way as an event or an
\* anti-message, precedes the GVT of any PE.  It makes the error "Received
\* straggler" of recv_finish unreachable and fossil collection final.
GvtIsLowerBound ==
  \A e \in Event :
    Pending(e) \/ loc[e] \in {"pq", "event_q", "undo"} \/ e \in cancelled
      => \A p \in PE : GVT_sig[p] <= Sig[e]

\* Whenever a PE computes its local virtual time, between the Allreduce of the
\* white counters and that of the minimum, no message is in the network.
QuietNetwork ==
  \A p \in PE : pc[p] \in {"lvt", "min"} => net = {}

\* tw_gvt_step2 never reports "GVT decreased".
GvtMonotone == [][\A p \in PE : GVT_sig[p] <= GVT_sig'[p]]_GVT_sig

\* recv_finish finds the event that an anti-message names: it has arrived, and
\* has been neither freed nor committed.
AntiFindsEvent ==
  \A e \in Event :
    <<e, "anti">> \in net /\ <<e, "event">> \notin net
      => e \in hash /\ loc[e] \in {"pq", "event_q", "pevent_q", "undo"}

\* Each KP has processed its events in signature order: pevent_q descends
\* from its head, as tw_eventq_fossil_collect assumes, and pq holds no event
\* that precedes a processed one.
Causality ==
  \A k \in KP :
    LET q == pevent_q[k]
    IN  /\ \A i, j \in DOMAIN q : i < j => Sig[q[i]] >= Sig[q[j]]
        /\ q # <<>> => \A e \in Event : loc[e] = "pq" /\ Kp[e] = k => Sig[e] >= Sig[q[1]]

\* No buffer is back in the free pool while MPI, outq or a queue of the
\* kernel refers to it, and event_cancel always knows the owner of what it
\* is told to cancel.
BuffersSafe ==
  /\ \A e \in outq \cup posted_sends : owner[e] \notin {"none", "free"}
  /\ \A e \in cancelled : loc[e] \notin {"none", "free", "committed"}
  /\ \A c \in caused :
        IF c \in Remote
          THEN owner[c] \in {"outq", "asend", "sevent"} /\ c \notin cancel_q \cup cancel_asend
          ELSE loc[c] \in {"pq", "event_q", "pevent_q", "undo", "committed"} /\ c \notin cancelled

\* An event is being undone at its destination: its cancel is owed, on its way,
\* queued there or in hand.
BeingCancelled(e) ==
  \/ e \in cancel_asend \cup (cancel_q \cap outq) \cup cancelled
  \/ <<e, "anti">> \in net
  \/ hand[Dst[e]] = e /\ pc[Dst[e]] = "cancel_q"

\* What exists was really caused: an event is linked from the execution of its
\* parent that stands, or that execution is committed, or the event is being
\* undone.  And none is committed unless its parent is, or is about to be by a
\* PE that has not yet collected its fossils.
CommitsCaused ==
  \A e \in Event \ Root :
    LET f == Parent[e] IN
      /\ loc[e] \in {"pq", "event_q", "pevent_q", "undo"}
           => e \in caused \/ loc[f] = "committed" \/ BeingCancelled(e)
      /\ loc[e] = "committed"
           => \/ loc[f] = "committed"
              \/ loc[f] = "pevent_q" /\ e \in caused /\ \E p \in PE : Sig[f] < GVT_sig[p]

\* Every PE leaves its scheduler loop: each computation of the GVT ends, because
\* all PEs join it and the transient messages drain, and the GVT passes the end
\* of the simulation, whatever stragglers and cancels there are on the way.
Termination == <>(\A p \in PE : pc[p] = "done")

SIM == INSTANCE Simulation WITH done <- {e \in Event : loc[e] = "committed"}

\* Fossil collection commits the events of a KP in signature order, across all
\* the stragglers, anti-messages and repeated sends that come between: the
\* optimistic scheduler implements the simulation.
IsSimulation == SIM!Spec
=============================================================================

----------------------------- MODULE SchedBatch -----------------------------
(***************************************************************************)
(* The scheduler of one PE with what TimeWarp leaves out: the pool of      *)
(* event buffers, the abort of an event that finds it empty, last_sig, by  *)
(* which a KP tells stragglers, as the variable it is, and LPs that        *)
(* suspend themselves when an event comes that the model does not expect.  *)
(*                                                                         *)
(* The other PEs are an environment that sends the events Arrival, each    *)
(* at some time; the events sent by this PE stay on it.  Between two reads *)
(* of the network nothing arrives, so undoing one event is one step.       *)
(***************************************************************************)
EXTENDS Integers, FiniteSets, Sequences, FiniteSetsExt

CONSTANTS
  KP, LP,
  Event,
  Root,         \* the events scheduled before the loop
  Arrival,      \* the events that other PEs send
  Parent,       \* [Event -> Event], the event whose processing sends it
  Kp,           \* [Event -> KP]
  Lp,           \* [Event -> LP]
  Models,       \* the functions [Event -> Event]: the event that the handler of
                \* an event misses, and calls tw_lp_suspend; itself if it never does
  OrigRc,       \* the events whose handler does so with do_orig_event_rc
  Sig,          \* [Event -> Nat]
  NoEvent,
  Pools,        \* the numbers of buffers to start with
  ReadBuffer,   \* read_buffer, and so g_tw_gvt_threshold
  MBlock,       \* g_tw_mblock
  GvtInterval,  \* g_tw_gvt_interval
  MaxLookahead, \* g_tw_max_opt_lookahead
  MaxFail,      \* max_alloc_fail_count
  MaxSig        \* g_tw_max_sig

ASSUME BatchAssumption ==
  /\ IsFiniteSet(Event) /\ ReadBuffer \in Nat \ {0} /\ MaxSig \in Nat
  /\ Root \subseteq Event /\ Arrival \subseteq Event \ Root
  /\ Parent \in [Event -> Event] /\ Kp \in [Event -> KP]
  /\ \A e \in Event : Sig[e] \in 1 .. MaxSig - 1
  /\ \A e \in Event \ (Root \cup Arrival) : Sig[Parent[e]] < Sig[e]
  /\ Lp \in [Event -> LP] /\ \A e, f \in Event : Lp[e] = Lp[f] => Kp[e] = Kp[f]
  /\ Models \subseteq [Event -> Event] /\ OrigRc \subseteq Event
  /\ NoEvent \notin Event
  /\ \A n \in Pools : n \in Nat /\ n >= Cardinality(Root) + ReadBuffer

ASSUME LimitAssumption == MaxLookahead \in Nat \ {0}

VARIABLES
  num_buffers,  \* the buffers of tw_eventq_alloc
  misses,       \* the handlers, a member of Models
  aborted,      \* history: some event was aborted
  loc,          \* state.owner of the event's buffer; "net" before it arrives
  pevent_q,     \* [KP -> Seq(Event)], newest first
  last_sig,     \* [KP -> Nat]
  caused,       \* the events linked in caused_by_me of their parent
  cancel_q,     \* the events with state.cancel_q, on the list cancel_q
  free,         \* free_q.size
  posted,       \* posted_recvs.cur
  suspend_event, \* [LP -> Event], NoEvent without suspend_flag
  applied,      \* history: how often the handler ran less the reverse handler
  hand,         \* the straggler or cancelled event being worked on
  pc, msg_i,
  gvt_cnt, gvt_status,
  no_free_event_buffers,
  GVT_sig

queueVars == <<loc, pevent_q, last_sig, caused, cancel_q, hand>>
poolVars == <<free, posted>>
extra == <<num_buffers, misses, aborted>>
lpVars == <<suspend_event, applied>>
loopVars == <<pc, msg_i, gvt_cnt, gvt_status, no_free_event_buffers, GVT_sig>>
vars == <<queueVars, poolVars, lpVars, loopVars, extra>>

-----------------------------------------------------------------------------
In(l) == {e \in Event : loc[e] = l}

Sends(e) == {c \in Event \ (Root \cup Arrival) : Parent[c] = e}

\* Mutant: the KP looks at GVT in place of last_sig.
StragglerByGvt(e) == GVT_sig > Sig[e]

\* An event precedes what its KP is known to have executed.
Straggler(e) == last_sig[Kp[e]] > Sig[e]

\* The receives that tw_net_start means to post find no buffers yet, so the
\* first ones are posted by the loop.
Init ==
  /\ loc = [e \in Event |-> IF e \in Root THEN "pq"
                            ELSE IF e \in Arrival THEN "net" ELSE "none"]
  /\ pevent_q = [k \in KP |-> <<>>]
  /\ last_sig = [k \in KP |-> 0]
  /\ caused = {} /\ cancel_q = {}
  /\ posted = 0
  /\ num_buffers \in Pools /\ misses \in Models /\ aborted = FALSE
  /\ suspend_event = [l \in LP |-> NoEvent] /\ applied = [e \in Event |-> 0]
  /\ free = num_buffers - Cardinality(Root)
  /\ hand = NoEvent
  /\ pc = "net_read" /\ msg_i = MBlock
  /\ gvt_cnt = 0 /\ gvt_status = FALSE
  /\ no_free_event_buffers = 0
  /\ GVT_sig = 0

-----------------------------------------------------------------------------
\* recv_finish: the posted buffer becomes the event's.
recv_finish(e) ==
  /\ pc \in {"net_read", "step2"} /\ posted > 0
  /\ loc[e] = "net"
  /\ posted' = posted - 1
  /\ loc' = [loc EXCEPT ![e] = IF ~Straggler(e) /\ cancel_q = {} THEN "pq" ELSE "event_q"]
  /\ UNCHANGED <<pevent_q, last_sig, caused, cancel_q, hand, free, loopVars, lpVars, extra>>

\* recv_begin posts receives until the pool is empty, which is an error while
\* the GVT is computed.
recv_begin ==
  /\ pc \in {"net_read", "step2"} /\ posted < ReadBuffer
  /\ \/ /\ free > 0
        /\ free' = free - 1 /\ posted' = posted + 1
        /\ UNCHANGED pc
     \/ /\ free = 0 /\ gvt_status
        /\ pc' = "error"
        /\ UNCHANGED <<free, posted>>
  /\ UNCHANGED <<queueVars, msg_i, gvt_cnt, gvt_status, no_free_event_buffers, GVT_sig, lpVars, extra>>

\* The least event is close to the GVT; TW_STIME_MAX of an empty pq is not.
NotPastLookahead == \E e \in In("pq") : Sig[e] < GVT_sig + MaxLookahead

\* The end of tw_net_read, and tw_gvt_step1.
tw_gvt_step1 ==
  /\ pc = "net_read"
  /\ posted = ReadBuffer \/ (free = 0 /\ ~gvt_status)
  /\ gvt_cnt' = Min({gvt_cnt + 1, GvtInterval})
  /\ gvt_status' = ~(gvt_cnt' < GvtInterval /\ NotPastLookahead)
  /\ pc' = "event_q"
  /\ UNCHANGED <<queueVars, poolVars, msg_i, no_free_event_buffers, GVT_sig, lpVars, extra>>

SchedEvent(e) ==
  /\ pc = "event_q" /\ hand = NoEvent
  /\ loc[e] = "event_q"
  /\ \/ /\ e \in cancel_q
        /\ loc' = [loc EXCEPT ![e] = "anti"] /\ UNCHANGED hand
     \/ /\ e \notin cancel_q /\ ~Straggler(e)
        /\ loc' = [loc EXCEPT ![e] = "pq"] /\ UNCHANGED hand
     \/ /\ e \notin cancel_q /\ Straggler(e)
        /\ hand' = e /\ UNCHANGED loc
  /\ UNCHANGED <<pevent_q, last_sig, caused, cancel_q, poolVars, loopVars, lpVars, extra>>

MustUndo(e) == pevent_q[Kp[e]] # <<>> /\ Sig[Head(pevent_q[Kp[e]])] >= Sig[e]

\* Mutant: the reverse handler runs whether the LP is suspended or not.
ReversesAll(f) == suspend_event[Lp[f]] = f => f \in OrigRc

\* The reverse handler runs for an event of an LP that is not suspended, and
\* for the one that suspended it if the call said so.
Reverses(f) ==
  \/ suspend_event[Lp[f]] = NoEvent
  \/ suspend_event[Lp[f]] = f /\ f \in OrigRc

\* tw_event_rollback of the head of the KP's list, for a straggler or for a
\* cancelled event in hand: what it sent is freed or put on cancel_q, last_sig
\* becomes that of the new head, and the event returns to pq or is freed.  An
\* LP that it had suspended goes on.
Undo ==
  /\ hand # NoEvent
  /\ pc = "event_q" => MustUndo(hand)
  /\ LET k == Kp[hand]
         f == Head(pevent_q[k])
         q == Tail(pevent_q[k])
         C == {c \in caused : Parent[c] = f}
         D == {c \in C : loc[c] = "pq"}
         last == pc = "cancel_q" /\ f = hand
     IN  /\ pevent_q[k] # <<>>
         /\ pevent_q' = [pevent_q EXCEPT ![k] = q]
         /\ last_sig' = [last_sig EXCEPT ![k] = IF q = <<>> THEN GVT_sig ELSE Sig[Head(q)]]
         /\ caused' = caused \ C
         /\ cancel_q' = cancel_q \cup (C \ D)
         /\ loc' = [e \in Event |-> IF e = f THEN IF last THEN "none" ELSE "pq"
                                    ELSE IF e \in D THEN "none" ELSE loc[e]]
         /\ free' = free + Cardinality(D) + (IF last THEN 1 ELSE 0)
         /\ hand' = IF last THEN NoEvent ELSE hand
         /\ applied' = [applied EXCEPT ![f] = IF Reverses(f) THEN @ - 1 ELSE @]
         /\ suspend_event' = [suspend_event EXCEPT ![Lp[f]] = IF @ = f THEN NoEvent ELSE @]
  /\ UNCHANGED <<posted, loopVars, extra>>

EnqueueHand ==
  /\ pc = "event_q" /\ hand # NoEvent /\ ~MustUndo(hand)
  /\ loc' = [loc EXCEPT ![hand] = "pq"]
  /\ hand' = NoEvent
  /\ UNCHANGED <<pevent_q, last_sig, caused, cancel_q, poolVars, loopVars, lpVars, extra>>

EventQDone ==
  /\ pc = "event_q" /\ hand = NoEvent /\ In("event_q") = {}
  /\ pc' = "cancel_q"
  /\ UNCHANGED <<queueVars, poolVars, msg_i, gvt_cnt, gvt_status, no_free_event_buffers, GVT_sig, lpVars, extra>>

\* tw_sched_cancel_q: a processed event is taken in hand, others are freed.
SchedCancel(e) ==
  /\ pc = "cancel_q" /\ hand = NoEvent
  /\ e \in cancel_q
  /\ cancel_q' = cancel_q \ {e}
  /\ \/ /\ loc[e] \in {"event_q", "anti", "pq"}
        /\ loc' = [loc EXCEPT ![e] = "none"]
        /\ free' = free + 1
        /\ UNCHANGED hand
     \/ /\ loc[e] = "pevent_q"
        /\ hand' = e
        /\ UNCHANGED <<loc, free>>
  /\ UNCHANGED <<pevent_q, last_sig, caused, posted, loopVars, lpVars, extra>>

CancelQDone ==
  /\ pc = "cancel_q" /\ hand = NoEvent /\ cancel_q = {}
  /\ pc' = IF gvt_status THEN "step2" ELSE "batch"
  /\ UNCHANGED <<queueVars, poolVars, msg_i, gvt_cnt, gvt_status, no_free_event_buffers, GVT_sig, lpVars, extra>>

-----------------------------------------------------------------------------
\* How many events of list s stay when tw_eventq_fossil_collect runs with g:
\* all if its tail is not below g, none if its head is, else it is cut after
\* the last one that is not.
Kept(s, g) ==
  IF s = <<>> \/ Sig[s[Len(s)]] >= g THEN Len(s)
  ELSE IF Sig[s[1]] < g THEN 0
  ELSE Max({i \in 1 .. Len(s) : Sig[s[i]] >= g})

\* Mutant: events received since the queues were drained are left out.
NewGvtNoTransient == Min({MaxSig} \cup {Sig[e] : e \in In("pq") \cup In("net")})

\* The minimum over pq, the transient messages and, external, what the other
\* PEs have still to send.
NewGvt == Min({MaxSig} \cup {Sig[e] : e \in In("pq") \cup In("event_q") \cup In("net")})

\* tw_gvt_step2: the new GVT, and the fossil collection that returns buffers.
tw_gvt_step2 ==
  LET g == NewGvt
      F == {f \in In("pevent_q") :
              \E i \in Kept(pevent_q[Kp[f]], g) + 1 .. Len(pevent_q[Kp[f]]) :
                 f = pevent_q[Kp[f]][i]}
  IN  /\ pc = "step2" /\ posted = ReadBuffer
      /\ GVT_sig' = g
      /\ gvt_cnt' = 0 /\ gvt_status' = FALSE
      /\ loc' = [e \in Event |-> IF e \in F THEN "committed" ELSE loc[e]]
      /\ pevent_q' = [k \in KP |-> SubSeq(pevent_q[k], 1, Kept(pevent_q[k], g))]
      /\ caused' = {c \in caused : Parent[c] \notin F}
      /\ free' = free + Cardinality(F)
      /\ pc' = IF g >= MaxSig THEN "done" ELSE "batch"
      /\ UNCHANGED <<last_sig, cancel_q, hand, posted, msg_i, no_free_event_buffers, lpVars, extra>>

-----------------------------------------------------------------------------
\* Mutant: the forced update restarts the interval in place of ending it.
ForceUpdateLost ==
  /\ gvt_cnt' = 0
  /\ pc' = "net_read"
  /\ msg_i' = MBlock

\* tw_gvt_force_update, and the end of the batch.
ForceUpdate ==
  /\ gvt_cnt' = GvtInterval
  /\ pc' = "net_read"
  /\ msg_i' = MBlock

\* The pool is down to what the network needs: fossil collection is forced,
\* and the program stops when that did not help several times running.
LowBuffers ==
  /\ pc = "batch" /\ msg_i > 0 /\ free <= ReadBuffer
  /\ no_free_event_buffers' = no_free_event_buffers + 1
  /\ IF no_free_event_buffers' >= MaxFail
       THEN pc' = "error" /\ UNCHANGED <<gvt_cnt, msg_i>>
       ELSE ForceUpdate
  /\ UNCHANGED <<queueVars, poolVars, gvt_status, GVT_sig, lpVars, extra>>

MayProcess(e) ==
  /\ pc = "batch" /\ msg_i > 0 /\ free > ReadBuffer
  /\ loc[e] = "pq" /\ \A f \in In("pq") : Sig[e] <= Sig[f]

\* The event sent is late for its KP, whose last_sig is now that of e if it is
\* e's own.
Late(e, c) == Kp[c] # Kp[e] /\ Straggler(c)

\* The event goes to the list of its KP.
Executed(e) ==
  /\ last_sig' = [last_sig EXCEPT ![Kp[e]] = Sig[e]]
  /\ pevent_q' = [pevent_q EXCEPT ![Kp[e]] = <<e>> \o @]
  /\ msg_i' = msg_i - 1
  /\ no_free_event_buffers' = 0
  /\ UNCHANGED <<cancel_q, hand, posted, pc, gvt_cnt, gvt_status, GVT_sig, extra>>

Suspended(e) == suspend_event[Lp[e]] # NoEvent
Expected(e) == misses[e] = e \/ applied[misses[e]] = 1

Process(e) ==
  /\ MayProcess(e) /\ ~Suspended(e) /\ Expected(e)
  /\ Cardinality(Sends(e)) <= free
  /\ free' = free - Cardinality(Sends(e))
  /\ loc' = [c \in Event |-> IF c = e THEN "pevent_q"
                             ELSE IF c \in Sends(e) THEN IF Late(e, c) THEN "event_q" ELSE "pq"
                             ELSE loc[c]]
  /\ caused' = caused \cup Sends(e)
  /\ applied' = [applied EXCEPT ![e] = @ + 1]
  /\ UNCHANGED suspend_event
  /\ Executed(e)

\* The handler finds that e is not for the state of the LP and calls
\* tw_lp_suspend; it has changed something only if it asks for the reverse.
Suspend(e) ==
  /\ MayProcess(e) /\ ~Suspended(e) /\ ~Expected(e)
  /\ suspend_event' = [suspend_event EXCEPT ![Lp[e]] = e]
  /\ applied' = [applied EXCEPT ![e] = IF e \in OrigRc THEN @ + 1 ELSE @]
  /\ loc' = [loc EXCEPT ![e] = "pevent_q"]
  /\ UNCHANGED <<free, caused>>
  /\ Executed(e)

\* An event for a suspended LP counts as processed.
Skip(e) ==
  /\ MayProcess(e) /\ Suspended(e)
  /\ loc' = [loc EXCEPT ![e] = "pevent_q"]
  /\ UNCHANGED <<free, caused, lpVars>>
  /\ Executed(e)

\* Mutant: the abort cancels nothing of what the event had sent.
AbortUncancelled(e) ==
  /\ MayProcess(e) /\ ~Suspended(e) /\ Expected(e)
  /\ Cardinality(Sends(e)) > free
  /\ loc' = [c \in Event |-> IF c \in Sends(e) /\ Late(e, c) THEN "event_q" ELSE loc[c]]
  /\ free' = 0
  /\ ForceUpdate
  /\ no_free_event_buffers' = 0
  /\ UNCHANGED <<last_sig, pevent_q, caused, cancel_q, hand, posted, gvt_status, GVT_sig, lpVars, num_buffers, misses>>
  /\ aborted' = TRUE

\* The pool ran out while e was sending: what had been sent, S, is cancelled, e
\* returns to pq, and last_sig is taken from tw_eventq_peek of the list, which
\* is its tail.
Abort(e) ==
  /\ MayProcess(e) /\ ~Suspended(e) /\ Expected(e)
  /\ Cardinality(Sends(e)) > free
  /\ \E S \in kSubset(free, Sends(e)) :
        LET L == {c \in S : Late(e, c)}
        IN  /\ loc' = [c \in Event |-> IF c \in L THEN "event_q" ELSE loc[c]]
            /\ cancel_q' = cancel_q \cup L
            /\ free' = free - Cardinality(L)
  /\ LET q == pevent_q[Kp[e]]
     IN  last_sig' = [last_sig EXCEPT ![Kp[e]] =
                        IF q = <<>> THEN GVT_sig ELSE Sig[q[Len(q)]]]
  /\ ForceUpdate
  /\ no_free_event_buffers' = 0
  /\ UNCHANGED <<pevent_q, caused, hand, posted, gvt_status, GVT_sig, lpVars, num_buffers, misses>>
  /\ aborted' = TRUE

\* The batch is through, or pq is empty, which counts as buffers enough.
BatchDone ==
  /\ pc = "batch"
  /\ \/ msg_i = 0 /\ UNCHANGED no_free_event_buffers
     \/ msg_i > 0 /\ In("pq") = {} /\ free > ReadBuffer /\ no_free_event_buffers' = 0
  /\ pc' = "net_read" /\ msg_i' = MBlock
  /\ UNCHANGED <<queueVars, poolVars, gvt_cnt, gvt_status, GVT_sig, lpVars, extra>>

Stopped ==
  /\ pc \in {"done", "error"}
  /\ UNCHANGED vars

Loop ==
  \/ recv_begin \/ tw_gvt_step1 \/ Undo \/ EnqueueHand \/ EventQDone
  \/ CancelQDone \/ tw_gvt_step2 \/ LowBuffers \/ BatchDone
  \/ \E e \in Event : SchedEvent(e) \/ SchedCancel(e)
                     \/ Process(e) \/ Suspend(e) \/ Skip(e) \/ Abort(e)

Next ==
  \/ \E e \in Event : recv_finish(e)
  \/ Loop
  \/ Stopped

\* The loop goes on, and what other PEs send is received by some later read.
Spec ==
  /\ Init /\ [][Next]_vars
  /\ WF_vars(Loop)
  /\ \A e \in Arrival : SF_vars(recv_finish(e))

-----------------------------------------------------------------------------
\* The head of a KP's list of processed events has the largest signature in it,
\* so that fossil collection may stop at the first event from the tail that is
\* not below GVT.
HeadIsMax ==
  \A k \in KP : \A i \in DOMAIN pevent_q[k] : Sig[pevent_q[k][1]] >= Sig[pevent_q[k][i]]

\* Until an event is aborted last_sig tells every straggler: the lists of
\* processed events stay in order and pq holds none that its KP has passed.
InOrder ==
  ~aborted =>
    /\ HeadIsMax
    /\ \A e \in In("pq") : pevent_q[Kp[e]] # <<>> => Sig[e] >= Sig[pevent_q[Kp[e]][1]]

\* Every buffer is in the pool, posted to MPI, or holds an event that is on a
\* queue: neither abort, rollback, cancel nor fossil collection loses one or
\* frees one twice.
PoolConserved ==
  free + posted + Cardinality(Event \ (In("none") \cup In("net") \cup In("committed")))
    = num_buffers

\* An event that is linked to no execution that stands and is not about to be
\* cancelled does not exist: what an aborted or undone event sent is gone.
SentIsCaused ==
  \A e \in Event \ (Root \cup Arrival) :
    loc[e] \in {"pq", "event_q", "pevent_q"}
      => e \in caused \/ e \in cancel_q \/ hand = e \/ loc[Parent[e]] = "committed"

\* The loop ends, or the program stops for want of buffers: an aborted event
\* is executed once fossil collection has returned enough of them.
Stops == <>(pc \in {"done", "error"})

\* With buffers enough the loop ends with everything committed, whatever
\* arrives late, and nothing of it was skipped by a suspended LP.
Completes ==
  <>(\/ pc = "done" /\ \A e \in Event : loc[e] = "committed" /\ applied[e] = 1
     \/ aborted \/ pc = "error")

\* "all subsequent events (both forward and reverse) that arrive at the
\* suspended LP shall be processed as if they were no-ops" (tw-lp.c): whatever
\* is undone, cancelled and executed anew, the reverse handler has run for
\* just those executions whose handler ran.
HandlersPaired ==
  LET skipped(e) ==
        LET q == pevent_q[Kp[e]]
        IN  \E i, j \in DOMAIN q :
              /\ q[i] = e /\ q[j] = suspend_event[Lp[e]]
              /\ i < j \/ (i = j /\ e \notin OrigRc)
  IN  \A e \in Event :
        loc[e] # "committed" =>
          applied[e] = IF loc[e] = "pevent_q" /\ ~skipped(e) THEN 1 ELSE 0

\* "Upon GVT, if an LP is in self-suspend mode and the event that caused the
\* suspend has a timestamp less than that of GVT, then the simulator shall
\* report ... and exit" (tw-lp.c).
SuspendReported ==
  \A l \in LP :
    (suspend_event[l] # NoEvent /\ Sig[suspend_event[l]] < GVT_sig) ~> pc = "error"
=============================================================================

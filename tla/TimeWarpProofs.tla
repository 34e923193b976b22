--------------------------- MODULE TimeWarpProofs ---------------------------
(***************************************************************************)
(* Proofs about TimeWarp, for every value of its constants, in three       *)
(* parts, each resting on the ones before.                                 *)
(*                                                                         *)
(* First, the type invariant, where a PE is in its loop (PhaseInv), the    *)
(* life of a sender's buffer (BufferInv), the count of white messages      *)
(* (WhiteInv), and the lists of the KPs.                                   *)
(*                                                                         *)
(* Then, that GVT is a lower bound of all that can still happen and never  *)
(* decreases, and that the abstract simulation is implemented.  A number   *)
(* that precedes everything that is active precedes everything that will   *)
(* ever be (FloorStep).  The minimum of the local virtual times is such a  *)
(* number when it is computed: then no message is in the network, and      *)
(* what a PE holds is in pq, outq or posted_sends or is covered by         *)
(* trans_msg_sig.                                                          *)
(*                                                                         *)
(* Last, that the cancelling of events is sound: an anti-message finds its *)
(* event, no buffer is freed while it is in use, and what exists was       *)
(* caused.  While an event may still be cancelled it is on its way or in   *)
(* the hash table and not freed; once its cancel has reached it, no link   *)
(* from its parent and no message is left that could cancel it again       *)
(* (LifeOK).  That it is not committed under its cancel is what the lower  *)
(* bound of GVT gives.                                                     *)
(***************************************************************************)
EXTENDS TimeWarp, FiniteSetTheorems, SequenceTheorems, WellFoundedInduction, TLAPS

\* The barriers: lvt and min are between two Allreduces, so every PE is there.
PhaseInv ==
  \A p \in PE :
    /\ pc[p] \in {"white", "lvt", "min", "update", "done"} => svc[p] = "off"
    /\ pc[p] \in {"step2", "white", "lvt", "min", "update"} => gvt_status[p]
    /\ pc[p] \notin {"event_q", "cancel_q"} => hand[p] = NoEvent
    /\ hand[p] = NoEvent => rb[p] = NoEvent
    /\ pc[p] \in {"lvt", "min"} => \A q \in PE : pc[q] \in {"lvt", "min"}

\* Where a sender's buffer can be, by its owner, and which of its two
\* messages can have been sent.
BufferOK(e) ==
  /\ e \in outq => /\ e \notin posted_sends
                   /\ IF e \in cancel_q THEN owner[e] \in {"asend", "sevent"}
                                        ELSE owner[e] = "outq"
  /\ e \in posted_sends => owner[e] \in {"asend", "acancel"}
  /\ e \in cancel_asend => e \in posted_sends /\ owner[e] = "asend"
  /\ e \in cancel_q => owner[e] \notin {"none", "outq"}
  /\ owner[e] = "asend" => e \in posted_sends \/ (e \in outq /\ e \in cancel_q)
  /\ e \in caused => e \notin Root /\ e \notin cancel_q /\ e \notin cancel_asend
  /\ <<e, "event">> \in net \cup s_nwhite_sent \cup s_nwhite_recv
       => owner[e] \notin {"none", "outq"}
  /\ <<e, "anti">> \in net \cup s_nwhite_sent \cup s_nwhite_recv
       => owner[e] \in {"acancel", "free"}

BufferInv == \A e \in Event : BufferOK(e)

\* The sets of counted messages agree up to what is in the network, leaving
\* out the PEs that have still to reset their counters.
WhiteOK(m) ==
  /\ m \in net => m \in s_nwhite_sent /\ pc[Src[m[1]]] # "update"
  /\ m \in s_nwhite_sent /\ pc[Src[m[1]]] # "update" /\ m \notin net
       => m \in s_nwhite_recv /\ pc[Dst[m[1]]] # "update"
  /\ m \in s_nwhite_recv /\ pc[Dst[m[1]]] # "update"
       => m \in s_nwhite_sent /\ pc[Src[m[1]]] # "update" /\ m \notin net

WhiteInv ==
  /\ IsFiniteSet(s_nwhite_sent)
  /\ \A m \in Msg : WhiteOK(m)
  /\ \A p \in PE : pc[p] \in {"lvt", "min"} => net = {}

-----------------------------------------------------------------------------
\* Some number of kept events satisfies what Kept chooses.
LEMMA KeptProperties ==
  ASSUME NEW s \in Seq(Event), NEW g \in Nat
  PROVE  /\ Kept(s, g) \in 0 .. Len(s)
         /\ Kept(s, g) > 0 => Sig[s[Kept(s, g)]] >= g
         /\ \A i \in Kept(s, g) + 1 .. Len(s) : Sig[s[i]] < g
<1> DEFINE R == OpToRel(<, Nat)
           T == {n \in 0 .. Len(s) : \A i \in n + 1 .. Len(s) : Sig[s[i]] < g}
<1>1. T \subseteq Nat /\ Len(s) \in T
  BY LenProperties
<1>2. PICK n \in T : \A y \in T : <<y, n>> \notin R
  <2> HIDE DEF T, R
  <2> QED BY <1>1, WFMin, NatLessThanWellFounded DEF R
<1>3. \A y \in T : ~(y < n)
  BY <1>1, <1>2 DEF OpToRel
<1>4. n > 0 => Sig[s[n]] >= g
  <2> SUFFICES ASSUME n > 0, ~(Sig[s[n]] >= g) PROVE FALSE
    OBVIOUS
  <2>1. n \in 1 .. Len(s) /\ Sig[s[n]] \in Nat
    BY TimeWarpAssumption, ElementOfSeq
  <2>2. n - 1 \in T
    BY <2>1, LenProperties
  <2> QED BY <2>1, <2>2, <1>3
<1> QED BY <1>4 DEF Kept

-----------------------------------------------------------------------------
(***************************************************************************)
(* Types.                                                                  *)
(***************************************************************************)

LEMMA TypeInit == Init => TypeOK
  BY TimeWarpAssumption, NetworkAssumption, EmptySeq
  DEF Init, TypeOK, NetInit, NetTypeOK, Owner, Loc, PC

LEMMA TransientType ==
  ASSUME trans_msg_sig \in [PE -> Nat], NEW p \in PE, NEW s \in Nat, Transient(p, s)
  PROVE  trans_msg_sig' \in [PE -> Nat]
<1>1. trans_msg_sig' = trans_msg_sig \/ trans_msg_sig' = [trans_msg_sig EXCEPT ![p] = s]
  BY DEF Transient
<1> QED BY <1>1

LEMMA TypeService ==
  ASSUME TypeOK, NEW p \in PE, Service(p)
  PROVE  TypeOK'
<1> USE TimeWarpAssumption, NetworkAssumption
<1>1. CASE SendBegin(p)
  <2>1. PICK e \in Event : send_begin(e)
    BY <1>1 DEF SendBegin
  <2>2. MsgOf(e) \in Msg
    BY DEF MsgOf, Msg
  <2>3. NetTypeOK'
    BY <2>1, <2>2 DEF send_begin, TypeOK, NetTypeOK, Owner
  <2> QED BY <1>1, <2>3 DEF SendBegin, TypeOK, kernelVars, gvtVars
<1>2. CASE SendFinish(p)
  <2>1. PICK e \in Event : send_finish(e)
    BY <1>2 DEF SendFinish
  <2>2. owner' \in [Event -> Owner]
    <3>1. \/ owner' = owner
          \/ owner' = [owner EXCEPT ![e] = "sevent"]
          \/ owner' = [owner EXCEPT ![e] = "free"]
      BY <2>1 DEF send_finish
    <3> QED BY <3>1 DEF TypeOK, NetTypeOK, Owner
  <2>3. cancel_q' \subseteq Event /\ cancel_asend' \subseteq Event /\ outq' \subseteq Event
    BY <2>1 DEF send_finish, TypeOK, NetTypeOK
  <2>4. NetTypeOK'
    BY <2>1, <2>2, <2>3 DEF send_finish, TypeOK, NetTypeOK
  <2> QED BY <1>2, <2>4 DEF SendFinish, TypeOK, kernelVars, gvtVars
<1>3. CASE ServiceDone(p)
  BY <1>3 DEF ServiceDone, TypeOK, NetTypeOK, netVars, kernelVars, gvtVars
<1>4. ASSUME NEW e \in Event, RecvEvent(p, e) PROVE TypeOK'
  BY <1>4 DEF RecvEvent, NetReceive, Transient, TypeOK, NetTypeOK, Loc, Msg
<1>5. ASSUME NEW e \in Event, RecvAnti(p, e) PROVE TypeOK'
  BY <1>5 DEF RecvAnti, NetReceive, Transient, TypeOK, NetTypeOK, Loc, Msg
<1> QED BY <1>1, <1>2, <1>3, <1>4, <1>5 DEF Service

LEMMA TypeSchedule ==
  ASSUME TypeOK, NEW p \in PE, Schedule(p)
  PROVE  TypeOK'
<1> USE TimeWarpAssumption, NetworkAssumption
<1>1. CASE tw_gvt_step1(p)
  <2>1. gvt_cnt' \in [PE -> Nat]
    <3>1. gvt_cnt' = [gvt_cnt EXCEPT ![p] = @ + 1]
      BY <1>1 DEF tw_gvt_step1
    <3> QED BY <3>1 DEF TypeOK
  <2>2. gvt_status' \in [PE -> BOOLEAN]
    BY <1>1 DEF tw_gvt_step1, TypeOK
  <2> QED BY <1>1, <2>1, <2>2 DEF tw_gvt_step1, TypeOK, NetTypeOK, netVars, kernelVars, PC
<1>2. CASE RollbackNext(p)
  <2> DEFINE k == Kp[hand[p]]
  <2>1. k \in KP /\ pevent_q[k] \in Seq(Event) /\ pevent_q[k] # <<>>
    BY <1>2 DEF RollbackNext, TypeOK
  <2>2. Head(pevent_q[k]) \in Event /\ Tail(pevent_q[k]) \in Seq(Event)
    BY <2>1, HeadTailProperties
  <2>3. /\ rb' \in [PE -> Event \cup {NoEvent}]
        /\ loc' \in [Event -> Loc]
        /\ pevent_q' \in [KP -> Seq(Event)]
    BY <1>2, <2>1, <2>2 DEF RollbackNext, TypeOK, Loc
  <2> QED BY <1>2, <2>3 DEF RollbackNext, TypeOK, NetTypeOK, netVars, gvtVars
<1>3. CASE RollbackDone(p)
  BY <1>3 DEF RollbackDone, TypeOK, NetTypeOK, netVars, gvtVars, Loc
<1>4. CASE EnqueueHand(p)
  BY <1>4 DEF EnqueueHand, TypeOK, NetTypeOK, netVars, gvtVars, Loc
<1>5. CASE EventQDone(p)
  BY <1>5 DEF EventQDone, TypeOK, NetTypeOK, netVars, kernelVars, gvtVars, PC
<1>6. CASE PopCancelQ(p)
  BY <1>6 DEF PopCancelQ, TypeOK, NetTypeOK, netVars, gvtVars, CancelQ
<1>7. CASE CancelQDone(p)
  <2>1. pc' \in [PE -> PC] /\ svc' \in [PE -> {"off", "all", "send"}]
    <3>1. \/ pc' = [pc EXCEPT ![p] = "step2"] /\ svc' = [svc EXCEPT ![p] = "all"]
          \/ pc' = [pc EXCEPT ![p] = "batch"] /\ svc' = svc
      BY <1>7 DEF CancelQDone
    <3>2. pc' \in [PE -> PC]
      BY <3>1 DEF TypeOK, PC
    <3>3. svc' \in [PE -> {"off", "all", "send"}]
      BY <3>1 DEF TypeOK
    <3> QED BY <3>2, <3>3
  <2> QED BY <1>7, <2>1 DEF CancelQDone, TypeOK, NetTypeOK, netVars, kernelVars, gvtVars
<1>8. ASSUME NEW e \in Event, SchedEvent(p, e) PROVE TypeOK'
  <2>1. loc' \in [Event -> Loc]
    BY <1>8 DEF SchedEvent, TypeOK, Loc
  <2>2. hand' \in [PE -> Event \cup {NoEvent}]
    <3>1. hand' = hand \/ hand' = [hand EXCEPT ![p] = e]
      BY <1>8 DEF SchedEvent
    <3> QED BY <3>1 DEF TypeOK
  <2> QED BY <1>8, <2>1, <2>2 DEF SchedEvent, TypeOK, NetTypeOK, netVars, gvtVars
<1>9. ASSUME NEW e \in Event, CancelRemote(p, e) PROVE TypeOK'
  <2>1. trans_msg_sig' \in [PE -> Nat]
    BY <1>9, TransientType DEF CancelRemote, TypeOK
  <2>2. owner' \in [Event -> Owner]
    <3>1. owner' = owner \/ owner' = [owner EXCEPT ![e] = "free"]
      BY <1>9 DEF CancelRemote, tw_net_cancel
    <3> QED BY <3>1 DEF TypeOK, NetTypeOK, Owner
  <2>3. cancel_q' \subseteq Event /\ cancel_asend' \subseteq Event /\ outq' \subseteq Event
    BY <1>9 DEF CancelRemote, tw_net_cancel, TypeOK, NetTypeOK
  <2>4. NetTypeOK'
    BY <1>9, <2>2, <2>3 DEF CancelRemote, tw_net_cancel, TypeOK, NetTypeOK
  <2>5. svc' \in [PE -> {"off", "all", "send"}]
    BY <1>9 DEF CancelRemote, TypeOK
  <2> QED BY <1>9, <2>1, <2>4, <2>5 DEF CancelRemote, TypeOK
<1>10. ASSUME NEW e \in Event, CancelLocal(p, e) PROVE TypeOK'
  <2>1. trans_msg_sig' \in [PE -> Nat]
    BY <1>10, TransientType DEF CancelLocal, TypeOK
  <2>2. loc' \in [Event -> Loc] /\ cancelled' \subseteq Event
    BY <1>10 DEF CancelLocal, TypeOK, Loc
  <2> QED BY <1>10, <2>1, <2>2 DEF CancelLocal, TypeOK, NetTypeOK, netVars
<1>11. ASSUME NEW e \in Event, SchedCancel(p, e) PROVE TypeOK'
  <2>1. loc' \in [Event -> Loc]
    <3>1. loc' = loc \/ loc' = [loc EXCEPT ![e] = "free"]
      BY <1>11 DEF SchedCancel
    <3> QED BY <3>1 DEF TypeOK, Loc
  <2>2. hand' \in [PE -> Event \cup {NoEvent}]
    <3>1. hand' = hand \/ hand' = [hand EXCEPT ![p] = e]
      BY <1>11 DEF SchedCancel
    <3> QED BY <3>1 DEF TypeOK
  <2> QED BY <1>11, <2>1, <2>2 DEF SchedCancel, TypeOK, NetTypeOK, netVars, gvtVars
<1> QED BY <1>1, <1>2, <1>3, <1>4, <1>5, <1>6, <1>7, <1>8, <1>9, <1>10, <1>11 DEF Schedule

LEMMA TypeBatch ==
  ASSUME TypeOK, NEW p \in PE, Batch(p)
  PROVE  TypeOK'
<1> USE TimeWarpAssumption, NetworkAssumption
<1>1. ASSUME NEW e \in Event, Process(p, e) PROVE TypeOK'
  <2>1. <<e>> \o pevent_q[Kp[e]] \in Seq(Event)
    BY ConcatProperties DEF TypeOK
  <2>2. pevent_q' \in [KP -> Seq(Event)]
    BY <1>1, <2>1 DEF Process, TypeOK
  <2>3. msg_i' \in [PE -> Nat]
    <3>1. msg_i[p] > 0 /\ msg_i' = [msg_i EXCEPT ![p] = @ - 1]
      BY <1>1 DEF Process
    <3>2. msg_i \in [PE -> Nat]
      BY DEF TypeOK
    <3> QED BY <3>1, <3>2
  <2>4. PICK K \in SUBSET Event :
          /\ tw_net_send(K \cap Remote)
          /\ loc' = [c \in Event |->
                IF c = e THEN "pevent_q"
                ELSE IF c \in K \ Remote
                       THEN IF Ahead(Kp[c], Sig[c]) THEN "event_q" ELSE "pq"
                ELSE loc[c]]
          /\ caused' = caused \cup K
    BY <1>1 DEF Process
  <2>5. loc' \in [Event -> Loc] /\ caused' \subseteq Event
    BY <2>4 DEF TypeOK, Loc
  <2>6. NetTypeOK'
    BY <2>4 DEF tw_net_send, TypeOK, NetTypeOK, Owner
  <2> QED BY <1>1, <2>2, <2>3, <2>5, <2>6 DEF Process, TypeOK, gvtVars
<1>2. CASE BatchDone(p)
  BY <1>2 DEF BatchDone, TypeOK, NetTypeOK, netVars, gvtVars, PC
<1> QED BY <1>1, <1>2 DEF Batch

LEMMA TypeGvt ==
  ASSUME TypeOK, NEW p \in PE, Gvt(p)
  PROVE  TypeOK'
<1> USE TimeWarpAssumption, NetworkAssumption
<1>1. CASE EnterWhite(p)
  BY <1>1 DEF EnterWhite, TypeOK, NetTypeOK, netVars, kernelVars, gvtVars, PC
<1>2. CASE ComputeLvt(p)
  <2>1. LvtBounds(p) \subseteq Nat
    BY DEF LvtBounds, TypeOK, In, OutqOf, PostedBy, NetTypeOK
  <2>2. lvt' \in [PE -> Nat] /\ trans_msg_sig' \in [PE -> Nat] /\ pc' \in [PE -> PC]
    BY <1>2, <2>1 DEF ComputeLvt, TypeOK, PC
  <2> QED BY <1>2, <2>2 DEF ComputeLvt, TypeOK, NetTypeOK, netVars, kernelVars
<1>3. CASE UpdateGVT(p)
  <2>1. pevent_q' \in [KP -> Seq(Event)]
    <3>1. ASSUME NEW k \in KP
          PROVE  SubSeq(pevent_q[k], 1, Kept(pevent_q[k], lvt[p])) \in Seq(Event)
      <4>1. pevent_q[k] \in Seq(Event) /\ lvt[p] \in Nat
        BY DEF TypeOK
      <4>2. Kept(pevent_q[k], lvt[p]) \in 0 .. Len(pevent_q[k])
        BY <4>1, KeptProperties
      <4>3. Len(pevent_q[k]) \in Nat /\ 1 \in Int
        BY <4>1, LenProperties
      <4>4. \A i \in 1 .. Kept(pevent_q[k], lvt[p]) : i \in 1 .. Len(pevent_q[k])
        BY <4>2, <4>3
      <4> QED BY <4>1, <4>2, <4>3, <4>4, SubSeqProperties
    <3> QED BY <1>3, <3>1 DEF UpdateGVT, TypeOK
  <2>2. NetTypeOK'
    BY <1>3 DEF UpdateGVT, FreeSent, TypeOK, NetTypeOK, Owner
  <2>3. loc' \in [Event -> Loc] /\ hash' \subseteq Event /\ caused' \subseteq Event
    BY <1>3 DEF UpdateGVT, TypeOK, Loc
  <2> QED BY <1>3, <2>1, <2>2, <2>3 DEF UpdateGVT, TypeOK, PC
<1> QED BY <1>1, <1>2, <1>3 DEF Gvt

LEMMA TypeNext == TypeOK /\ [Next]_vars => TypeOK'
<1> SUFFICES ASSUME TypeOK, [Next]_vars PROVE TypeOK'
  OBVIOUS
<1> USE TimeWarpAssumption
<1>1. CASE AllreduceWhite
  <2>1. pc' \in [PE -> PC] /\ svc' \in [PE -> {"off", "all", "send"}]
    BY <1>1 DEF AllreduceWhite, TypeOK, PC
  <2> QED BY <1>1, <2>1 DEF AllreduceWhite, TypeOK, NetTypeOK, netVars, kernelVars, gvtVars
<1>2. CASE AllreduceMin
  <2>1. pc' \in [PE -> PC] /\ lvt' \in [PE -> Nat]
    BY <1>2 DEF AllreduceMin, TypeOK, PC
  <2> QED BY <1>2, <2>1 DEF AllreduceMin, TypeOK, NetTypeOK, netVars, kernelVars
<1>3. CASE UNCHANGED vars
  BY <1>3 DEF vars, TypeOK, NetTypeOK, netVars, kernelVars, gvtVars
<1> QED BY <1>1, <1>2, <1>3, TypeService, TypeSchedule, TypeBatch, TypeGvt
    DEF Next, Terminated

\* Every variable keeps its type: among others the white counters never leave
\* the messages, and trans_msg_sig and the GVT never leave the signatures.
THEOREM TypeCorrect == Spec => []TypeOK
  BY TypeInit, TypeNext, PTL DEF Spec

-----------------------------------------------------------------------------
(***************************************************************************)
(* Phases.                                                                 *)
(***************************************************************************)

LEMMA PhaseInit == Init => PhaseInv
  BY DEF Init, PhaseInv

LEMMA PhaseService ==
  ASSUME TypeOK, PhaseInv, NEW p \in PE, Service(p)
  PROVE  PhaseInv'
<1>1. UNCHANGED <<pc, hand, rb, gvt_status>>
  BY DEF Service, SendBegin, SendFinish, ServiceDone, RecvEvent, RecvAnti, kernelVars, gvtVars
<1>2. svc' = svc \/ svc' = [svc EXCEPT ![p] = "off"]
  BY DEF Service, SendBegin, SendFinish, ServiceDone, RecvEvent, RecvAnti
<1> QED BY <1>1, <1>2 DEF TypeOK, PhaseInv

LEMMA PhaseSchedule ==
  ASSUME TypeOK, PhaseInv, NEW p \in PE, Schedule(p)
  PROVE  PhaseInv'
<1> USE TimeWarpAssumption
<1>1. CASE tw_gvt_step1(p)
  <2>1. /\ pc[p] = "net_read" /\ pc'[p] = "event_q"
        /\ \A q \in PE \ {p} : pc'[q] = pc[q] /\ gvt_status'[q] = gvt_status[q]
        /\ UNCHANGED <<svc, hand, rb>>
    BY <1>1 DEF tw_gvt_step1, TypeOK, kernelVars
  <2> QED BY <2>1 DEF PhaseInv
<1>2. CASE RollbackNext(p)
  BY <1>2 DEF RollbackNext, TypeOK, PhaseInv, gvtVars
<1>3. CASE RollbackDone(p)
  <2>1. /\ pc[p] \in {"event_q", "cancel_q"}
        /\ \A q \in PE \ {p} : hand'[q] = hand[q] /\ rb'[q] = rb[q]
        /\ rb'[p] = NoEvent /\ UNCHANGED <<pc, svc, gvt_status>>
    BY <1>3 DEF RollbackDone, TypeOK, PhaseInv, gvtVars
  <2> QED BY <2>1 DEF PhaseInv
<1>4. CASE EnqueueHand(p)
  BY <1>4 DEF EnqueueHand, TypeOK, PhaseInv, gvtVars
<1>5. CASE EventQDone(p)
  BY <1>5 DEF EventQDone, TypeOK, PhaseInv, kernelVars, gvtVars
<1>6. CASE PopCancelQ(p)
  BY <1>6 DEF PopCancelQ, TypeOK, PhaseInv, gvtVars
<1>7. CASE CancelQDone(p)
  <2>1. UNCHANGED <<hand, rb, gvt_status>> /\ pc[p] = "cancel_q" /\ hand[p] = NoEvent
    BY <1>7 DEF CancelQDone, kernelVars, gvtVars
  <2>2. CASE gvt_status[p]
    <3>1. pc' = [pc EXCEPT ![p] = "step2"] /\ svc' = [svc EXCEPT ![p] = "all"]
      BY <1>7, <2>2 DEF CancelQDone
    <3> QED BY <2>1, <2>2, <3>1 DEF TypeOK, PhaseInv
  <2>3. CASE ~gvt_status[p]
    <3>1. pc' = [pc EXCEPT ![p] = "batch"] /\ svc' = svc
      BY <1>7, <2>3 DEF CancelQDone
    <3> QED BY <2>1, <3>1 DEF TypeOK, PhaseInv
  <2> QED BY <2>2, <2>3
<1>8. ASSUME NEW e \in Event, SchedEvent(p, e) PROVE PhaseInv'
  <2>1. /\ pc[p] = "event_q" /\ hand[p] = NoEvent
        /\ \A q \in PE \ {p} : hand'[q] = hand[q]
        /\ UNCHANGED <<pc, svc, rb, gvt_status>>
    BY <1>8 DEF SchedEvent, TypeOK, gvtVars
  <2> QED BY <2>1 DEF PhaseInv
<1>9. ASSUME NEW e \in Event, CancelRemote(p, e) PROVE PhaseInv'
  BY <1>9 DEF CancelRemote, TypeOK, PhaseInv
<1>10. ASSUME NEW e \in Event, CancelLocal(p, e) PROVE PhaseInv'
  BY <1>10 DEF CancelLocal, TypeOK, PhaseInv
<1>11. ASSUME NEW e \in Event, SchedCancel(p, e) PROVE PhaseInv'
  <2>1. /\ pc[p] = "cancel_q" /\ hand[p] = NoEvent
        /\ \A q \in PE \ {p} : hand'[q] = hand[q]
        /\ UNCHANGED <<pc, svc, rb, gvt_status>>
    BY <1>11 DEF SchedCancel, TypeOK, gvtVars
  <2> QED BY <2>1 DEF PhaseInv
<1> QED BY <1>1, <1>2, <1>3, <1>4, <1>5, <1>6, <1>7, <1>8, <1>9, <1>10, <1>11 DEF Schedule

LEMMA PhaseNext == TypeOK /\ PhaseInv /\ [Next]_vars => PhaseInv'
<1> SUFFICES ASSUME TypeOK, PhaseInv, [Next]_vars PROVE PhaseInv'
  OBVIOUS
<1>1. ASSUME NEW p \in PE, Batch(p) PROVE PhaseInv'
  <2>1. ASSUME NEW e \in Event, Process(p, e) PROVE PhaseInv'
    BY <2>1 DEF Process, TypeOK, PhaseInv, gvtVars
  <2>2. CASE BatchDone(p)
    BY <2>2 DEF BatchDone, TypeOK, PhaseInv, gvtVars
  <2> QED BY <1>1, <2>1, <2>2 DEF Batch
<1>2. ASSUME NEW p \in PE, Gvt(p) PROVE PhaseInv'
  <2>1. CASE EnterWhite(p)
    BY <2>1 DEF EnterWhite, TypeOK, PhaseInv, kernelVars, gvtVars
  <2>2. CASE ComputeLvt(p)
    BY <2>2 DEF ComputeLvt, TypeOK, PhaseInv, kernelVars
  <2>3. CASE UpdateGVT(p)
    BY <2>3 DEF UpdateGVT, TypeOK, PhaseInv
  <2> QED BY <1>2, <2>1, <2>2, <2>3 DEF Gvt
<1>3. CASE AllreduceWhite
  <2>1. UNCHANGED <<hand, rb, gvt_status>> /\ \A p \in PE : pc[p] = "white"
    BY <1>3 DEF AllreduceWhite, kernelVars, gvtVars
  <2>2. \/ pc' = [p \in PE |-> "lvt"] /\ svc' = svc
        \/ pc' = [p \in PE |-> "step2"]
    BY <1>3 DEF AllreduceWhite
  <2> QED BY <2>1, <2>2 DEF TypeOK, PhaseInv
<1>4. CASE AllreduceMin
  BY <1>4 DEF AllreduceMin, TypeOK, PhaseInv, kernelVars
<1>5. CASE UNCHANGED vars
  BY <1>5 DEF vars, PhaseInv, kernelVars, gvtVars
<1> QED BY <1>1, <1>2, <1>3, <1>4, <1>5, PhaseService, PhaseSchedule
    DEF Next, Terminated

-----------------------------------------------------------------------------
(***************************************************************************)
(* Buffers.                                                                *)
(***************************************************************************)

LEMMA BufferInit == Init => BufferInv
  BY DEF Init, NetInit, BufferInv, BufferOK

LEMMA BufferService ==
  ASSUME TypeOK, BufferInv, NEW p \in PE, Service(p)
  PROVE  BufferInv'
<1> SUFFICES ASSUME NEW f \in Event PROVE BufferOK(f)'
  BY DEF BufferInv
<1>f. BufferOK(f)
  BY DEF BufferInv
<1>1. CASE SendBegin(p)
  <2>1. PICK e \in Event : send_begin(e)
    BY <1>1 DEF SendBegin
  <2>2. caused' = caused
    BY <1>1 DEF SendBegin, kernelVars
  <2>3. CASE e = f
    BY <1>f, <2>1, <2>2, <2>3 DEF send_begin, MsgOf, BufferOK, TypeOK, NetTypeOK
  <2>4. CASE e # f
    BY <1>f, <2>1, <2>2, <2>4 DEF send_begin, MsgOf, BufferOK, TypeOK, NetTypeOK
  <2> QED BY <2>3, <2>4
<1>2. CASE SendFinish(p)
  <2>1. PICK e \in Event : send_finish(e)
    BY <1>2 DEF SendFinish
  <2>2. caused' = caused
    BY <1>2 DEF SendFinish, kernelVars
  <2>3. CASE e = f
    BY <1>f, <2>1, <2>2, <2>3 DEF send_finish, BufferOK, TypeOK, NetTypeOK
  <2>4. CASE e # f
    BY <1>f, <2>1, <2>2, <2>4 DEF send_finish, BufferOK, TypeOK, NetTypeOK
  <2> QED BY <2>3, <2>4
<1>3. CASE ServiceDone(p)
  BY <1>f, <1>3 DEF ServiceDone, netVars, kernelVars, BufferOK
<1>4. ASSUME NEW e \in Event, RecvEvent(p, e) \/ RecvAnti(p, e) PROVE BufferOK(f)'
  <2>1. /\ net' \cup s_nwhite_sent' \cup s_nwhite_recv' \subseteq net \cup s_nwhite_sent \cup s_nwhite_recv
        /\ UNCHANGED <<owner, cancel_q, cancel_asend, outq, posted_sends, caused>>
    BY <1>4 DEF RecvEvent, RecvAnti, NetReceive
  <2> QED BY <1>f, <2>1 DEF BufferOK
<1> QED BY <1>1, <1>2, <1>3, <1>4 DEF Service

LEMMA BufferNext == TypeOK /\ BufferInv /\ [Next]_vars => BufferInv'
<1> SUFFICES ASSUME TypeOK, BufferInv, [Next]_vars, NEW f \in Event PROVE BufferOK(f)'
  BY DEF BufferInv
<1>f. BufferOK(f)
  BY DEF BufferInv
<1>1. ASSUME NEW p \in PE, NEW e \in Event, CancelRemote(p, e) PROVE BufferOK(f)'
  <2>1. tw_net_cancel(e) /\ e \in caused /\ caused' = caused \ {e}
    BY <1>1 DEF CancelRemote, Children
  <2>2. CASE e = f
    BY <1>f, <2>1, <2>2 DEF tw_net_cancel, BufferOK, TypeOK, NetTypeOK
  <2>3. CASE e # f
    BY <1>f, <2>1, <2>3 DEF tw_net_cancel, BufferOK, TypeOK, NetTypeOK
  <2> QED BY <2>2, <2>3
<1>2. ASSUME NEW p \in PE, NEW e \in Event, CancelLocal(p, e) PROVE BufferOK(f)'
  BY <1>f, <1>2 DEF CancelLocal, netVars, BufferOK
<1>3. ASSUME NEW p \in PE, NEW e \in Event, Process(p, e) PROVE BufferOK(f)'
  <2>1. PICK K \in SUBSET {c \in Event \ Root : owner[c] = "none"} :
          tw_net_send(K \cap Remote) /\ caused' = caused \cup K
    BY <1>3 DEF Process
  <2> QED BY <1>f, <2>1 DEF tw_net_send, BufferOK, TypeOK, NetTypeOK
<1>4. ASSUME NEW p \in PE, UpdateGVT(p) PROVE BufferOK(f)'
  <2>1. PICK C \in SUBSET caused : FreeSent(C) /\ caused' = caused \ C
    BY <1>4 DEF UpdateGVT
  <2>2. /\ net' \cup s_nwhite_sent' \cup s_nwhite_recv' \subseteq net \cup s_nwhite_sent \cup s_nwhite_recv
        /\ UNCHANGED <<cancel_q, cancel_asend, outq, posted_sends>>
    BY <1>4 DEF UpdateGVT
  <2> QED BY <1>f, <2>1, <2>2 DEF FreeSent, BufferOK, TypeOK, NetTypeOK
<1>5. CASE UNCHANGED <<netVars, caused>>
  BY <1>f, <1>5 DEF netVars, BufferOK
<1>6. ASSUME NEW p \in PE, Schedule(p) PROVE BufferOK(f)'
  <2>1. \/ UNCHANGED <<netVars, caused>>
        \/ \E e \in Event : CancelRemote(p, e) \/ CancelLocal(p, e)
    BY <1>6 DEF Schedule, tw_gvt_step1, RollbackNext, RollbackDone, EnqueueHand, EventQDone,
         PopCancelQ, CancelQDone, SchedEvent, SchedCancel, kernelVars
  <2> QED BY <1>1, <1>2, <1>5, <2>1
<1>7. ASSUME NEW p \in PE, Batch(p) PROVE BufferOK(f)'
  BY <1>3, <1>5, <1>7 DEF Batch, BatchDone
<1>8. ASSUME NEW p \in PE, Gvt(p) PROVE BufferOK(f)'
  BY <1>4, <1>5, <1>8 DEF Gvt, EnterWhite, ComputeLvt, kernelVars
<1>9. CASE AllreduceWhite \/ AllreduceMin \/ UNCHANGED vars
  BY <1>5, <1>9 DEF AllreduceWhite, AllreduceMin, vars, kernelVars
<1> QED BY <1>6, <1>7, <1>8, <1>9, BufferService DEF Next, Terminated, BufferInv

-----------------------------------------------------------------------------
(***************************************************************************)
(* White messages.                                                         *)
(***************************************************************************)

LEMMA WhiteInit == Init => WhiteInv
  BY FS_EmptySet DEF Init, NetInit, WhiteInv, WhiteOK

PhaseStep(p) ==
  \/ pc'[p] = pc[p]
  \/ /\ pc[p] # "update" /\ pc'[p] # "update"
     /\ pc'[p] \in {"lvt", "min"} => pc[p] \in {"lvt", "min"}

\* Steps that move no message and leave the update phase to its PEs.
LEMMA WhiteFrame ==
  ASSUME TypeOK, PhaseInv, WhiteInv, UNCHANGED <<net, s_nwhite_sent, s_nwhite_recv>>,
         \A p \in PE : PhaseStep(p)
  PROVE  WhiteInv'
<1>1. \A m \in Msg : Src[m[1]] \in PE /\ Dst[m[1]] \in PE
  BY NetworkAssumption DEF Msg
<1>2. \A m \in Msg : WhiteOK(m)'
  BY <1>1 DEF WhiteInv, WhiteOK, PhaseStep
<1> QED BY <1>2 DEF WhiteInv, PhaseStep

LEMMA WhiteService ==
  ASSUME TypeOK, PhaseInv, BufferInv, WhiteInv, NEW p \in PE, Service(p)
  PROVE  WhiteInv'
<1> USE NetworkAssumption
<1>1. CASE SendBegin(p)
  <2>1. PICK e \in Event : Src[e] = p /\ send_begin(e)
    BY <1>1 DEF SendBegin
  <2>2. pc' = pc /\ svc[p] # "off"
    BY <1>1 DEF SendBegin, TypeOK
  <2> DEFINE x == MsgOf(e)
  <2>3. /\ x \in Msg /\ x[1] = e
        /\ x \notin net /\ x \notin s_nwhite_sent /\ x \notin s_nwhite_recv
        /\ net' = net \cup {x} /\ s_nwhite_sent' = s_nwhite_sent \cup {x}
        /\ s_nwhite_recv' = s_nwhite_recv
    BY <2>1 DEF send_begin, MsgOf, Msg, BufferInv, BufferOK
  <2> HIDE DEF x
  <2>4. pc[p] \notin {"lvt", "min", "update"}
    BY <2>2 DEF PhaseInv
  <2>5. \A m \in Msg : WhiteOK(m)'
    BY <2>1, <2>2, <2>3, <2>4 DEF WhiteInv, WhiteOK
  <2>6. \A q \in PE : pc[q] \notin {"lvt", "min"}
    BY <2>4 DEF PhaseInv
  <2>7. IsFiniteSet(s_nwhite_sent')
    BY <2>3, FS_AddElement DEF WhiteInv
  <2> QED BY <2>2, <2>5, <2>6, <2>7 DEF WhiteInv
<1>2. CASE SendFinish(p) \/ ServiceDone(p)
  <2>1. UNCHANGED <<net, s_nwhite_sent, s_nwhite_recv, pc>>
    BY <1>2 DEF SendFinish, send_finish, ServiceDone, netVars
  <2> QED BY <2>1, WhiteFrame DEF PhaseStep
<1>3. ASSUME NEW m \in Msg, Dst[m[1]] = p, svc[p] = "all", NetReceive(m), pc' = pc
      PROVE  WhiteInv'
  <2>1. pc[p] \notin {"lvt", "min", "update"}
    BY <1>3 DEF PhaseInv
  <2>2. \A x \in Msg : WhiteOK(x)'
    BY <1>3, <2>1 DEF NetReceive, WhiteInv, WhiteOK
  <2> QED BY <1>3, <2>2 DEF NetReceive, WhiteInv
<1>4. ASSUME NEW e \in Event, RecvEvent(p, e) \/ RecvAnti(p, e) PROVE WhiteInv'
  <2>1. <<e, "event">> \in Msg /\ <<e, "anti">> \in Msg
    BY DEF Msg
  <2> QED BY <1>3, <1>4, <2>1 DEF RecvEvent, RecvAnti
<1> QED BY <1>1, <1>2, <1>4 DEF Service

\* The core of the white count: the sums agree only if nothing is in the
\* network.
LEMMA WhiteZero ==
  ASSUME TypeOK, WhiteInv, \A p \in PE : pc[p] = "white",
         Cardinality(s_nwhite_sent) = Cardinality(s_nwhite_recv)
  PROVE  net = {}
<1>1. \A m \in Msg : Src[m[1]] \in PE /\ Dst[m[1]] \in PE
  BY NetworkAssumption DEF Msg
<1>2. s_nwhite_recv \subseteq s_nwhite_sent
  BY <1>1 DEF TypeOK, NetTypeOK, WhiteInv, WhiteOK
<1>3. s_nwhite_recv = s_nwhite_sent
  BY <1>2, FS_Subset DEF WhiteInv
<1> QED BY <1>1, <1>3 DEF TypeOK, NetTypeOK, WhiteInv, WhiteOK

LEMMA WhiteNext ==
  TypeOK /\ PhaseInv /\ BufferInv /\ WhiteInv /\ [Next]_vars => WhiteInv'
<1> SUFFICES ASSUME TypeOK, PhaseInv, BufferInv, WhiteInv, [Next]_vars PROVE WhiteInv'
  OBVIOUS
<1> USE NetworkAssumption
<1>1. ASSUME NEW p \in PE, Schedule(p) PROVE WhiteInv'
  <2>1. UNCHANGED <<net, s_nwhite_sent, s_nwhite_recv>>
    BY <1>1 DEF Schedule, tw_gvt_step1, RollbackNext, RollbackDone, EnqueueHand, EventQDone,
         PopCancelQ, CancelQDone, SchedEvent, SchedCancel, CancelRemote, CancelLocal,
         tw_net_cancel, netVars
  <2>2. \/ pc' = pc
        \/ /\ pc[p] # "update"
           /\ \E c \in {"event_q", "cancel_q", "step2", "batch"} : pc' = [pc EXCEPT ![p] = c]
    BY <1>1 DEF Schedule, tw_gvt_step1, RollbackNext, RollbackDone, EnqueueHand, EventQDone,
         PopCancelQ, CancelQDone, SchedEvent, SchedCancel, CancelRemote, CancelLocal
  <2>3. \A q \in PE : PhaseStep(q)
    BY <2>2 DEF TypeOK, PhaseStep
  <2> QED BY <2>1, <2>3, WhiteFrame
<1>2. ASSUME NEW p \in PE, Batch(p) PROVE WhiteInv'
  <2>1. UNCHANGED <<net, s_nwhite_sent, s_nwhite_recv>>
    BY <1>2 DEF Batch, Process, BatchDone, tw_net_send, netVars
  <2>2. pc' = pc \/ (pc[p] = "batch" /\ pc' = [pc EXCEPT ![p] = "net_read"])
    BY <1>2 DEF Batch, Process, BatchDone
  <2>3. \A q \in PE : PhaseStep(q)
    BY <2>2 DEF TypeOK, PhaseStep
  <2> QED BY <2>1, <2>3, WhiteFrame
<1>3. ASSUME NEW p \in PE, EnterWhite(p) \/ ComputeLvt(p) PROVE WhiteInv'
  <2>1. UNCHANGED <<net, s_nwhite_sent, s_nwhite_recv>>
    BY <1>3 DEF EnterWhite, ComputeLvt, netVars
  <2>2. \/ pc[p] = "step2" /\ pc' = [pc EXCEPT ![p] = "white"]
        \/ pc[p] = "lvt" /\ pc' = [pc EXCEPT ![p] = "min"]
    BY <1>3 DEF EnterWhite, ComputeLvt
  <2>3. \A q \in PE : PhaseStep(q)
    BY <2>2 DEF TypeOK, PhaseStep
  <2> QED BY <2>1, <2>3, WhiteFrame
<1>4. ASSUME NEW p \in PE, UpdateGVT(p) PROVE WhiteInv'
  <2>1. /\ net' = net /\ pc[p] = "update"
        /\ s_nwhite_sent' = {m \in s_nwhite_sent : Src[m[1]] # p}
        /\ s_nwhite_recv' = {m \in s_nwhite_recv : Dst[m[1]] # p}
        /\ pc'[p] # "update"
        /\ \A q \in PE \ {p} : pc'[q] = pc[q]
        /\ pc'[p] \notin {"lvt", "min"}
    BY <1>4 DEF UpdateGVT, TypeOK
  <2>2. \A m \in Msg : Src[m[1]] \in PE /\ Dst[m[1]] \in PE
    BY DEF Msg
  <2>3. \A m \in Msg : WhiteOK(m)'
    BY <2>1, <2>2 DEF WhiteInv, WhiteOK
  <2>4. IsFiniteSet(s_nwhite_sent')
    BY <2>1, FS_Subset DEF WhiteInv
  <2> QED BY <2>1, <2>3, <2>4 DEF WhiteInv
<1>5. CASE AllreduceWhite
  <2>1. UNCHANGED <<net, s_nwhite_sent, s_nwhite_recv>> /\ \A p \in PE : pc[p] = "white"
    BY <1>5 DEF AllreduceWhite, netVars
  <2>2. \A m \in Msg : Src[m[1]] \in PE /\ Dst[m[1]] \in PE
    BY DEF Msg
  <2>3. \A p \in PE : pc'[p] # "update"
    BY <1>5 DEF AllreduceWhite
  <2>4. \A m \in Msg : WhiteOK(m)'
    BY <2>1, <2>2, <2>3 DEF WhiteInv, WhiteOK
  <2>5. \A p \in PE : pc'[p] \in {"lvt", "min"} => net = {}
    BY <1>5, <2>1, WhiteZero DEF AllreduceWhite
  <2> QED BY <2>1, <2>4, <2>5 DEF WhiteInv
<1>6. CASE AllreduceMin
  <2>1. UNCHANGED <<net, s_nwhite_sent, s_nwhite_recv>> /\ \A p \in PE : pc'[p] = "update"
    BY <1>6 DEF AllreduceMin, netVars
  <2>2. net = {}
    BY <1>6, TimeWarpAssumption DEF AllreduceMin, WhiteInv
  <2>3. \A m \in Msg : Src[m[1]] \in PE /\ Dst[m[1]] \in PE
    BY DEF Msg
  <2>4. \A m \in Msg : WhiteOK(m)'
    BY <2>1, <2>2, <2>3 DEF WhiteOK
  <2> QED BY <2>1, <2>2, <2>4 DEF WhiteInv
<1>7. CASE UNCHANGED vars
  <2>1. UNCHANGED <<net, s_nwhite_sent, s_nwhite_recv, pc>>
    BY <1>7 DEF vars, netVars
  <2> QED BY <2>1, WhiteFrame DEF PhaseStep
<1> QED BY <1>1, <1>2, <1>3, <1>4, <1>5, <1>6, <1>7, WhiteService
    DEF Next, Gvt, Terminated

\* The invariant of this module.
NetworkInv == TypeOK /\ PhaseInv /\ BufferInv /\ WhiteInv

LEMMA NetworkInvariant == Spec => []NetworkInv
<1>1. Init => NetworkInv
  BY TypeInit, PhaseInit, BufferInit, WhiteInit DEF NetworkInv
<1>2. NetworkInv /\ [Next]_vars => NetworkInv'
  BY TypeNext, PhaseNext, BufferNext, WhiteNext DEF NetworkInv
<1> QED BY <1>1, <1>2, PTL DEF Spec

\* The white counting of tw_gvt_step2 does what it is for.
THEOREM WhiteCountCorrect == Spec => []QuietNetwork
<1>1. NetworkInv => QuietNetwork
  BY DEF NetworkInv, WhiteInv, QuietNetwork
<1> QED BY <1>1, NetworkInvariant, PTL

-----------------------------------------------------------------------------
(***************************************************************************)
(* Proof that TimeWarp keeps Causality: each KP processes its events in    *)
(* signature order, whatever arrives and is undone in between.             *)
(***************************************************************************)
Sorted(q) == \A i, j \in 1 .. Len(q) : i < j => Sig[q[i]] >= Sig[q[j]]

Distinct(q) == \A i, j \in 1 .. Len(q) : i # j => q[i] # q[j]

\* The list of a KP holds processed events of the KP, once, in order.
QueueOK(k) ==
  /\ Sorted(pevent_q[k])
  /\ Distinct(pevent_q[k])
  /\ \A i \in 1 .. Len(pevent_q[k]) :
       loc[pevent_q[k][i]] = "pevent_q" /\ Kp[pevent_q[k][i]] = k

\* The processed events are listed, those to be processed do not precede
\* them, and an event that has not arrived is nowhere at its destination.
EventOK(e) ==
  /\ loc[e] = "pevent_q" => \E i \in 1 .. Len(pevent_q[Kp[e]]) : pevent_q[Kp[e]][i] = e
  /\ loc[e] \in {"pq", "undo"} /\ pevent_q[Kp[e]] # <<>> => Sig[e] >= Sig[pevent_q[Kp[e]][1]]
  /\ loc[e] = "undo" => rb[Dst[e]] = e
  /\ owner[e] = "outq" \/ <<e, "event">> \in net => loc[e] = "none"

\* What is in hand or under rollback is where the phase says.
HandOK(p) ==
  /\ rb[p] # NoEvent => loc[rb[p]] = "undo" /\ Dst[rb[p]] = p
  /\ hand[p] # NoEvent => Dst[hand[p]] = p
  /\ hand[p] # NoEvent /\ pc[p] = "event_q" => loc[hand[p]] = "event_q"
  /\ hand[p] # NoEvent /\ pc[p] = "cancel_q" => loc[hand[p]] = "pevent_q" \/ rb[p] = hand[p]

KernelInv ==
  /\ \A k \in KP : QueueOK(k)
  /\ \A e \in Event : EventOK(e)
  /\ \A p \in PE : HandOK(p)

-----------------------------------------------------------------------------
LEMMA KernelInit == Init => KernelInv
<1> SUFFICES ASSUME Init PROVE KernelInv
  OBVIOUS
<1> USE DEF Init, NetInit
<1>1. \A k \in KP : pevent_q[k] = <<>> /\ Len(pevent_q[k]) = 0
  BY EmptySeq
<1>2. \A k \in KP : QueueOK(k)
  BY <1>1 DEF QueueOK, Sorted, Distinct
<1>3. \A e \in Event : EventOK(e)
  BY <1>1, TimeWarpAssumption DEF EventOK
<1> QED BY <1>2, <1>3 DEF KernelInv, HandOK

\* Steps that leave the queues and what is in hand alone.
LEMMA KernelStill ==
  ASSUME TypeOK, KernelInv, UNCHANGED <<loc, pevent_q, hand, rb>>,
         \A p \in PE : pc'[p] = pc[p] \/ hand[p] = NoEvent,
         \A e \in Event : owner'[e] = "outq" \/ <<e, "event">> \in net' => loc[e] = "none"
  PROVE  KernelInv'
<1>1. \A k \in KP : QueueOK(k)'
  BY DEF KernelInv, QueueOK, Sorted, Distinct
<1>2. \A e \in Event : EventOK(e)'
  BY DEF KernelInv, EventOK
<1>3. \A p \in PE : HandOK(p)'
  BY DEF KernelInv, HandOK
<1> QED BY <1>1, <1>2, <1>3 DEF KernelInv

\* Steps that move an event x that is not processed from queue to queue.
LEMMA KernelMove ==
  ASSUME TypeOK, KernelInv, pevent_q' = pevent_q,
         NEW x \in Event, NEW l \in {"pq", "event_q", "anti", "free"},
         loc' = [loc EXCEPT ![x] = l], loc[x] # "pevent_q",
         l = "pq" /\ pevent_q[Kp[x]] # <<>> => Sig[x] >= Sig[pevent_q[Kp[x]][1]],
         owner' = owner, owner[x] # "outq", net' \subseteq net, <<x, "event">> \notin net',
         \A e \in Event \ {x} : rb[Dst[e]] = e => rb'[Dst[e]] = e,
         \A p \in PE : HandOK(p)'
  PROVE  KernelInv'
<1>1. /\ loc'[x] = l
      /\ \A e \in Event \ {x} : loc'[e] = loc[e]
  BY DEF TypeOK
<1>2. ASSUME NEW k \in KP PROVE QueueOK(k)'
  <2>1. QueueOK(k) /\ pevent_q[k] \in Seq(Event)
    BY DEF KernelInv, TypeOK
  <2>2. \A i \in 1 .. Len(pevent_q[k]) : pevent_q[k][i] \in Event \ {x}
    BY <2>1, ElementOfSeq DEF QueueOK
  <2> QED BY <1>1, <2>1, <2>2 DEF QueueOK, Sorted, Distinct
<1>3. ASSUME NEW e \in Event PROVE EventOK(e)'
  <2>1. EventOK(e)
    BY DEF KernelInv
  <2>2. CASE e = x
    BY <1>1, <2>2 DEF EventOK
  <2>3. CASE e # x
    BY <1>1, <2>1, <2>3 DEF EventOK
  <2> QED BY <2>2, <2>3
<1> QED BY <1>2, <1>3 DEF KernelInv

\* The head of a nonempty list of processed events.
LEMMA HeadEvent ==
  ASSUME TypeOK, NEW k \in KP, pevent_q[k] # <<>>
  PROVE  /\ Head(pevent_q[k]) = pevent_q[k][1]
         /\ pevent_q[k][1] \in Event /\ Sig[pevent_q[k][1]] \in Nat
         /\ Len(pevent_q[k]) \in Nat /\ Len(pevent_q[k]) >= 1
<1>1. pevent_q[k] \in Seq(Event)
  BY DEF TypeOK
<1>2. Len(pevent_q[k]) \in Nat /\ Len(pevent_q[k]) # 0
  BY <1>1, EmptySeq, LenProperties
<1>3. pevent_q[k][1] \in Event
  BY <1>1, <1>2, ElementOfSeq
<1> QED BY <1>1, <1>2, <1>3, HeadTailProperties, TimeWarpAssumption

LEMMA NotAhead ==
  ASSUME TypeOK, NEW e \in Event, ~Ahead(Kp[e], Sig[e]), pevent_q[Kp[e]] # <<>>
  PROVE  Sig[e] >= Sig[pevent_q[Kp[e]][1]]
<1>1. Kp[e] \in KP /\ Sig[e] \in Nat
  BY TimeWarpAssumption
<1> QED BY <1>1, HeadEvent DEF Ahead

LEMMA KernelService ==
  ASSUME TypeOK, PhaseInv, BufferInv, KernelInv, NEW p \in PE, Service(p)
  PROVE  KernelInv'
<1>1. CASE SendBegin(p)
  <2>1. PICK e \in Event : send_begin(e)
    BY <1>1 DEF SendBegin
  <2>2. UNCHANGED <<loc, pevent_q, hand, rb, pc>>
    BY <1>1 DEF SendBegin, kernelVars
  <2>3. ASSUME NEW f \in Event, owner'[f] = "outq" \/ <<f, "event">> \in net'
        PROVE  loc[f] = "none"
    <3>1. CASE f = e
      <4>1. owner'[e] # "outq"
        BY <2>1 DEF send_begin, TypeOK, NetTypeOK
      <4>2. <<e, "event">> \in net => loc[e] = "none"
        BY DEF KernelInv, EventOK
      <4>3. MsgOf(e) = <<e, "event">> => owner[e] = "outq"
        BY <2>1 DEF MsgOf, send_begin, BufferInv, BufferOK
      <4> QED BY <2>1, <2>3, <3>1, <4>1, <4>2, <4>3 DEF send_begin, KernelInv, EventOK
    <3>2. CASE f # e
      BY <2>1, <2>3, <3>2 DEF send_begin, MsgOf, TypeOK, NetTypeOK, KernelInv, EventOK
    <3> QED BY <3>1, <3>2
  <2> QED BY <2>2, <2>3, KernelStill
<1>2. CASE SendFinish(p)
  <2>1. PICK e \in Event : send_finish(e)
    BY <1>2 DEF SendFinish
  <2>2. UNCHANGED <<loc, pevent_q, hand, rb, pc>>
    BY <1>2 DEF SendFinish, kernelVars
  <2>3. \A f \in Event : owner'[f] = "outq" \/ <<f, "event">> \in net' => loc[f] = "none"
    BY <2>1 DEF send_finish, TypeOK, NetTypeOK, KernelInv, EventOK
  <2> QED BY <2>2, <2>3, KernelStill
<1>3. CASE ServiceDone(p)
  <2>1. UNCHANGED <<loc, pevent_q, hand, rb, pc, owner, net>>
    BY <1>3 DEF ServiceDone, kernelVars, netVars
  <2>2. \A f \in Event : owner'[f] = "outq" \/ <<f, "event">> \in net' => loc[f] = "none"
    BY <2>1 DEF KernelInv, EventOK
  <2> QED BY <2>1, <2>2, KernelStill
<1>4. ASSUME NEW e \in Event, RecvEvent(p, e) PROVE KernelInv'
  <2>1. /\ UNCHANGED <<pevent_q, hand, rb, pc, owner>>
        /\ <<e, "event">> \in net /\ net' = net \ {<<e, "event">>}
    BY <1>4 DEF RecvEvent, NetReceive
  <2>2. loc[e] = "none" /\ owner[e] # "outq"
    BY <2>1 DEF KernelInv, EventOK, BufferInv, BufferOK
  <2>3. PICK l \in {"pq", "event_q"} :
           /\ loc' = [loc EXCEPT ![e] = l]
           /\ l = "pq" => ~Ahead(Kp[e], Sig[e])
    BY <1>4 DEF RecvEvent
  <2>4. l = "pq" /\ pevent_q[Kp[e]] # <<>> => Sig[e] >= Sig[pevent_q[Kp[e]][1]]
    BY <2>3, NotAhead
  <2>5. \A q \in PE : HandOK(q)'
    BY <2>1, <2>2, <2>3 DEF HandOK, KernelInv, TypeOK
  <2>6. l \in {"pq", "event_q", "anti", "free"} /\ net' \subseteq net
    BY <2>1
  <2> QED BY <2>1, <2>2, <2>3, <2>4, <2>5, <2>6, KernelMove
<1>5. ASSUME NEW e \in Event, RecvAnti(p, e) PROVE KernelInv'
  <2>1. UNCHANGED <<loc, pevent_q, hand, rb, pc, owner>> /\ net' \subseteq net
    BY <1>5 DEF RecvAnti, NetReceive
  <2>2. \A f \in Event : owner'[f] = "outq" \/ <<f, "event">> \in net' => loc[f] = "none"
    BY <2>1 DEF KernelInv, EventOK
  <2> QED BY <2>1, <2>2, KernelStill
<1> QED BY <1>1, <1>2, <1>3, <1>4, <1>5 DEF Service

\* The three ways the list of processed events changes: its head is undone,
\* an event is processed, and its end is committed.
LEMMA SortedTail ==
  ASSUME NEW q \in Seq(Event), q # <<>>, Sorted(q), Distinct(q)
  PROVE  /\ Tail(q) \in Seq(Event)
         /\ Sorted(Tail(q)) /\ Distinct(Tail(q))
         /\ \A i \in 1 .. Len(Tail(q)) : \E j \in 2 .. Len(q) : Tail(q)[i] = q[j]
         /\ \A j \in 2 .. Len(q) : \E i \in 1 .. Len(Tail(q)) : Tail(q)[i] = q[j]
         /\ Tail(q) # <<>> => Len(q) >= 2 /\ Tail(q)[1] = q[2]
<1> DEFINE t == Tail(q)
<1>1. /\ t \in Seq(Event)
      /\ Len(q) \in Nat
      /\ Len(t) = Len(q) - 1
      /\ \A i \in 1 .. Len(q) - 1 : t[i] = q[i + 1]
  BY HeadTailProperties, LenProperties
<1>2. t # <<>> => Len(t) # 0
  BY <1>1, EmptySeq
<1> HIDE DEF t
<1>3. \A i \in 1 .. Len(t) : i + 1 \in 2 .. Len(q) /\ t[i] = q[i + 1]
  BY <1>1
<1>4. Sorted(t)
  <2> SUFFICES ASSUME NEW i \in 1 .. Len(t), NEW j \in 1 .. Len(t), i < j
               PROVE  Sig[t[i]] >= Sig[t[j]]
    BY DEF Sorted
  <2>1. i + 1 \in 1 .. Len(q) /\ j + 1 \in 1 .. Len(q) /\ i + 1 < j + 1
    BY <1>1, <1>3
  <2>2. Sig[q[i + 1]] >= Sig[q[j + 1]]
    BY <2>1 DEF Sorted
  <2> QED BY <1>3, <2>2
<1>5. Distinct(t)
  <2> SUFFICES ASSUME NEW i \in 1 .. Len(t), NEW j \in 1 .. Len(t), i # j
               PROVE  t[i] # t[j]
    BY DEF Distinct
  <2>1. i + 1 \in 1 .. Len(q) /\ j + 1 \in 1 .. Len(q) /\ i + 1 # j + 1
    BY <1>1, <1>3
  <2>2. q[i + 1] # q[j + 1]
    BY <2>1 DEF Distinct
  <2> QED BY <1>3, <2>2
<1>6. \A j \in 2 .. Len(q) : \E i \in 1 .. Len(t) : t[i] = q[j]
  <2> SUFFICES ASSUME NEW j \in 2 .. Len(q) PROVE \E i \in 1 .. Len(t) : t[i] = q[j]
    OBVIOUS
  <2>1. j - 1 \in 1 .. Len(t) /\ (j - 1) + 1 = j
    BY <1>1
  <2> QED BY <1>3, <2>1
<1>7. t # <<>> => Len(q) >= 2 /\ t[1] = q[2]
  <2> SUFFICES ASSUME t # <<>> PROVE Len(q) >= 2 /\ t[1] = q[2]
    OBVIOUS
  <2>1. 1 \in 1 .. Len(t)
    BY <1>1, <1>2
  <2> QED BY <1>1, <1>3, <2>1
<1>8. \A i \in 1 .. Len(t) : \E j \in 2 .. Len(q) : t[i] = q[j]
  BY <1>3
<1> QED BY <1>1, <1>4, <1>5, <1>6, <1>7, <1>8 DEF t

LEMMA KernelRollbackNext ==
  ASSUME TypeOK, PhaseInv, KernelInv, NEW p \in PE, RollbackNext(p)
  PROVE  KernelInv'
<1> USE TimeWarpAssumption, NetworkAssumption
<1> DEFINE k == Kp[hand[p]]
           q == pevent_q[k]
           f == q[1]
           t == Tail(q)
<1>1. /\ hand[p] \in Event /\ rb[p] = NoEvent /\ q # <<>>
      /\ k \in KP /\ q \in Seq(Event)
      /\ UNCHANGED <<owner, net, hand, pc>>
  BY DEF RollbackNext, TypeOK, netVars
<1>2. f \in Event /\ Head(q) = f /\ Len(q) \in Nat /\ Len(q) >= 1
  BY <1>1, HeadEvent
<1>3. /\ rb' = [rb EXCEPT ![p] = f]
      /\ loc' = [loc EXCEPT ![f] = "undo"]
      /\ pevent_q' = [pevent_q EXCEPT ![k] = t]
  BY <1>2 DEF RollbackNext
<1>4. /\ Sorted(q) /\ Distinct(q)
      /\ \A i \in 1 .. Len(q) : loc[q[i]] = "pevent_q" /\ Kp[q[i]] = k
      /\ loc[f] = "pevent_q" /\ Kp[f] = k
  <2> HIDE DEF k
  <2>1. QueueOK(k)
    BY <1>1 DEF KernelInv
  <2>2. /\ Sorted(q) /\ Distinct(q)
        /\ \A i \in 1 .. Len(q) : loc[q[i]] = "pevent_q" /\ Kp[q[i]] = k
    BY <2>1 DEF QueueOK
  <2>3. 1 \in 1 .. Len(q)
    BY <1>2
  <2> QED BY <2>2, <2>3
<1>5. /\ Sorted(t) /\ Distinct(t)
      /\ \A i \in 1 .. Len(t) : \E j \in 2 .. Len(q) : t[i] = q[j]
      /\ \A j \in 2 .. Len(q) : \E i \in 1 .. Len(t) : t[i] = q[j]
      /\ t # <<>> => Len(q) >= 2 /\ t[1] = q[2]
  BY <1>1, <1>4, SortedTail
<1>6. Dst[f] = p
  <2>1. Dst[hand[p]] = p
    BY <1>1 DEF KernelInv, HandOK
  <2>2. Kp[hand[p]] = Kp[f]
    BY <1>4
  <2> HIDE DEF f
  <2> QED BY <1>1, <1>2, <2>1, <2>2, EventAssumption
<1>7. \A i \in 1 .. Len(q) : q[i] \in Event
  BY <1>1, ElementOfSeq
<1>8. pevent_q'[k] = t /\ \A j \in KP \ {k} : pevent_q'[j] = pevent_q[j]
  BY <1>1, <1>3 DEF TypeOK
<1>9. loc'[f] = "undo" /\ \A e \in Event \ {f} : loc'[e] = loc[e]
  BY <1>2, <1>3 DEF TypeOK
<1>10. rb'[p] = f /\ \A r \in PE \ {p} : rb'[r] = rb[r]
  BY <1>3 DEF TypeOK
<1> HIDE DEF f, q, k, t
<1>11. ASSUME NEW j \in KP PROVE QueueOK(j)'
  <2>1. CASE j = k
    <3>1. \A i \in 2 .. Len(q) : q[i] \in Event \ {f}
      BY <1>2, <1>4, <1>7 DEF Distinct, f
    <3>2. \A i \in 1 .. Len(t) :
            t[i] \in Event \ {f} /\ loc[t[i]] = "pevent_q" /\ Kp[t[i]] = k
      <4> SUFFICES ASSUME NEW i \in 1 .. Len(t)
                   PROVE  t[i] \in Event \ {f} /\ loc[t[i]] = "pevent_q" /\ Kp[t[i]] = k
        OBVIOUS
      <4>1. PICK m \in 2 .. Len(q) : t[i] = q[m]
        BY <1>5
      <4>2. m \in 1 .. Len(q)
        BY <1>2
      <4> QED BY <1>4, <3>1, <4>1, <4>2
    <3>3. \A i \in 1 .. Len(t) : loc'[t[i]] = "pevent_q"
      BY <1>9, <3>2
    <3>4. pevent_q'[j] = t
      BY <1>8, <2>1
    <3> QED BY <1>5, <2>1, <3>2, <3>3, <3>4 DEF QueueOK, Sorted, Distinct
  <2>2. CASE j # k
    <3>1. QueueOK(j) /\ pevent_q[j] \in Seq(Event)
      BY DEF KernelInv, TypeOK
    <3>2. \A i \in 1 .. Len(pevent_q[j]) : pevent_q[j][i] \in Event \ {f}
      BY <1>4, <2>2, <3>1, ElementOfSeq DEF QueueOK
    <3>3. pevent_q'[j] = pevent_q[j]
      BY <1>8, <2>2
    <3>4. \A i \in 1 .. Len(pevent_q[j]) : loc'[pevent_q[j][i]] = loc[pevent_q[j][i]]
      BY <1>9, <3>2
    <3> QED BY <3>1, <3>3, <3>4 DEF QueueOK, Sorted, Distinct
  <2> QED BY <2>1, <2>2
<1>12. ASSUME NEW e \in Event PROVE EventOK(e)'
  <2>1. EventOK(e)
    BY DEF KernelInv
  <2>2. Kp[e] \in KP /\ Dst[e] \in PE /\ Dst[f] \in PE /\ NoEvent # e
    BY <1>2
  <2>3. loc'[e] = "pevent_q" =>
           \E i \in 1 .. Len(pevent_q'[Kp[e]]) : pevent_q'[Kp[e]][i] = e
    <3>0. loc'[e] = "pevent_q" /\ Kp[e] # k =>
             \E i \in 1 .. Len(pevent_q'[Kp[e]]) : pevent_q'[Kp[e]][i] = e
      <4>1. loc'[e] = "pevent_q" => loc[e] = "pevent_q"
        BY <1>9
      <4>2. Kp[e] # k => pevent_q'[Kp[e]] = pevent_q[Kp[e]]
        BY <1>8, <2>2
      <4> QED BY <2>1, <4>1, <4>2 DEF EventOK
    <3>1. SUFFICES ASSUME loc'[e] = "pevent_q", Kp[e] = k
                   PROVE  \E i \in 1 .. Len(t) : t[i] = e
      BY <1>8, <3>0
    <3>2. PICK i \in 1 .. Len(q) : q[i] = e
      BY <1>9, <2>1, <3>1 DEF EventOK, q
    <3>3. i \in 2 .. Len(q)
      BY <1>2, <1>9, <3>1, <3>2 DEF f
    <3> QED BY <1>5, <3>2, <3>3
  <2>4. loc'[e] \in {"pq", "undo"} /\ pevent_q'[Kp[e]] # <<>>
           => Sig[e] >= Sig[pevent_q'[Kp[e]][1]]
    <3>1. CASE Kp[e] # k
      BY <1>4, <1>8, <1>9, <2>1, <2>2, <3>1 DEF EventOK
    <3>2. CASE Kp[e] = k
      <4>1. SUFFICES ASSUME loc'[e] \in {"pq", "undo"}, t # <<>>
                     PROVE  Sig[e] >= Sig[t[1]]
        BY <1>8, <3>2
      <4>2. Len(q) >= 2 /\ t[1] = q[2]
        BY <1>5, <4>1
      <4>3. Sig[f] >= Sig[q[2]] /\ Sig[q[2]] \in Nat /\ Sig[f] \in Nat /\ Sig[e] \in Nat
        BY <1>2, <1>4, <1>7, <4>2 DEF Sorted, f
      <4>4. Sig[e] >= Sig[f]
        <5>1. CASE e = f
          BY <4>3, <5>1
        <5>2. CASE e # f
          BY <1>1, <1>9, <2>1, <3>2, <4>1, <5>2 DEF EventOK, q, f
        <5> QED BY <5>1, <5>2
      <4> QED BY <4>2, <4>3, <4>4
    <3> QED BY <3>1, <3>2
  <2>5. loc'[e] = "undo" => rb'[Dst[e]] = e
    BY <1>1, <1>6, <1>9, <1>10, <2>1, <2>2 DEF EventOK
  <2>6. owner'[e] = "outq" \/ <<e, "event">> \in net' => loc'[e] = "none"
    BY <1>1, <1>4, <1>9, <2>1 DEF EventOK
  <2> QED BY <2>3, <2>4, <2>5, <2>6 DEF EventOK
<1>13. ASSUME NEW r \in PE PROVE HandOK(r)'
  <2>1. HandOK(r) /\ HandOK(p)
    BY DEF KernelInv
  <2>2. hand[r] \in Event \cup {NoEvent} /\ rb[r] \in Event \cup {NoEvent}
    BY DEF TypeOK
  <2>3. CASE r = p
    <3>1. hand'[p] = hand[p] /\ pc'[p] = pc[p] /\ rb'[p] = f /\ loc'[f] = "undo"
      BY <1>1, <1>9, <1>10
    <3>2. pc[p] = "event_q" => hand[p] # f
      BY <1>1, <1>4, <2>1 DEF HandOK
    <3>3. hand[p] # f => loc'[hand[p]] = loc[hand[p]]
      BY <1>1, <1>9
    <3> QED BY <1>1, <1>6, <2>1, <2>3, <3>1, <3>2, <3>3 DEF HandOK
  <2>4. CASE r # p
    <3>1. hand'[r] = hand[r] /\ pc'[r] = pc[r] /\ rb'[r] = rb[r]
      BY <1>1, <1>10, <2>4
    <3>2. hand[r] # NoEvent => hand[r] # f /\ loc'[hand[r]] = loc[hand[r]]
      BY <1>6, <1>9, <2>1, <2>2, <2>4 DEF HandOK
    <3>3. rb[r] # NoEvent => loc'[rb[r]] = loc[rb[r]]
      BY <1>6, <1>9, <2>1, <2>2, <2>4 DEF HandOK
    <3> QED BY <2>1, <3>1, <3>2, <3>3 DEF HandOK
  <2> QED BY <2>3, <2>4
<1> QED BY <1>11, <1>12, <1>13 DEF KernelInv

LEMMA KernelSchedule ==
  ASSUME TypeOK, PhaseInv, BufferInv, KernelInv, NEW p \in PE, Schedule(p)
  PROVE  KernelInv'
<1> USE TimeWarpAssumption, NetworkAssumption
<1>0. ASSUME UNCHANGED <<loc, pevent_q, hand, rb, owner, net>>,
             pc' = pc \/ (hand[p] = NoEvent /\ \E c \in PC : pc' = [pc EXCEPT ![p] = c])
      PROVE  KernelInv'
  <2>1. \A f \in Event : owner'[f] = "outq" \/ <<f, "event">> \in net' => loc[f] = "none"
    BY <1>0 DEF KernelInv, EventOK
  <2>2. \A q \in PE : pc'[q] = pc[q] \/ hand[q] = NoEvent
    BY <1>0 DEF TypeOK
  <2> QED BY <1>0, <2>1, <2>2, KernelStill
<1>1. CASE tw_gvt_step1(p) \/ EventQDone(p) \/ CancelQDone(p)
  <2>1. UNCHANGED <<loc, pevent_q, hand, rb, owner, net>>
    BY <1>1 DEF tw_gvt_step1, EventQDone, CancelQDone, netVars, kernelVars
  <2>2. hand[p] = NoEvent
    BY <1>1 DEF tw_gvt_step1, EventQDone, CancelQDone, PhaseInv
  <2>3. \E c \in PC : pc' = [pc EXCEPT ![p] = c]
    BY <1>1 DEF tw_gvt_step1, EventQDone, CancelQDone, PC
  <2> QED BY <1>0, <2>1, <2>2, <2>3
<1>2. CASE PopCancelQ(p)
  BY <1>0, <1>2 DEF PopCancelQ, netVars
<1>3. CASE RollbackDone(p)
  <2> DEFINE x == rb[p]
  <2>1. /\ x \in Event /\ loc[x] = "undo" /\ Dst[x] = p
        /\ UNCHANGED <<pevent_q, owner, net, pc>>
        /\ rb' = [rb EXCEPT ![p] = NoEvent]
    BY <1>3 DEF RollbackDone, TypeOK, netVars, KernelInv, HandOK
  <2>2. EventOK(x)
    BY <2>1 DEF KernelInv
  <2>3. PICK l \in {"pq", "free"} : loc' = [loc EXCEPT ![x] = l]
    BY <1>3 DEF RollbackDone
  <2>4. \/ hand' = hand /\ ~(pc[p] = "cancel_q" /\ rb[p] = hand[p])
        \/ hand' = [hand EXCEPT ![p] = NoEvent]
    BY <1>3 DEF RollbackDone
  <2>5. ASSUME NEW q \in PE PROVE HandOK(q)'
    <3>1. HandOK(q) /\ hand[q] \in Event \cup {NoEvent} /\ rb[q] \in Event \cup {NoEvent}
      BY DEF KernelInv, TypeOK
    <3>2. CASE q = p
      <4>1. rb'[p] = NoEvent /\ pc'[p] = pc[p]
        BY <2>1 DEF TypeOK
      <4>2. hand'[p] # NoEvent => hand'[p] = hand[p] /\ ~(pc[p] = "cancel_q" /\ x = hand[p])
        BY <2>4 DEF TypeOK
      <4>3. hand[p] # NoEvent /\ hand[p] # x => loc'[hand[p]] = loc[hand[p]]
        BY <2>3, <3>1, <3>2 DEF TypeOK
      <4>4. pc[p] = "event_q" /\ hand[p] # NoEvent => hand[p] # x
        BY <2>1, <3>1, <3>2 DEF HandOK
      <4>5. hand'[p] # NoEvent => pc[p] \in {"event_q", "cancel_q"}
        BY <4>2 DEF PhaseInv
      <4> QED BY <3>1, <3>2, <4>1, <4>2, <4>3, <4>4, <4>5 DEF HandOK
    <3>3. CASE q # p
      <4>1. rb'[q] = rb[q] /\ pc'[q] = pc[q] /\ hand'[q] = hand[q]
        BY <2>1, <2>4, <3>3 DEF TypeOK
      <4>2. \A e \in Event : Dst[e] = q => loc'[e] = loc[e]
        BY <2>1, <2>3, <3>3 DEF TypeOK
      <4> QED BY <3>1, <4>1, <4>2 DEF HandOK
    <3> QED BY <3>2, <3>3
  <2>6. \A e \in Event \ {x} : rb[Dst[e]] = e => rb'[Dst[e]] = e
    BY <2>1 DEF TypeOK
  <2>7. /\ owner[x] # "outq" /\ <<x, "event">> \notin net' /\ net' \subseteq net
        /\ l = "pq" /\ pevent_q[Kp[x]] # <<>> => Sig[x] >= Sig[pevent_q[Kp[x]][1]]
    BY <2>1, <2>2 DEF EventOK
  <2> QED BY <2>1, <2>3, <2>5, <2>6, <2>7, KernelMove
<1>4. CASE EnqueueHand(p)
  <2> DEFINE x == hand[p]
  <2>1. /\ x \in Event /\ loc[x] = "event_q" /\ rb[p] = NoEvent /\ Dst[x] = p
        /\ UNCHANGED <<pevent_q, owner, net, pc, rb>>
        /\ loc' = [loc EXCEPT ![x] = "pq"] /\ hand' = [hand EXCEPT ![p] = NoEvent]
    BY <1>4 DEF EnqueueHand, TypeOK, netVars, KernelInv, HandOK
  <2>2. EventOK(x)
    BY <2>1 DEF KernelInv
  <2>3. pevent_q[Kp[x]] # <<>> => Sig[x] >= Sig[pevent_q[Kp[x]][1]]
    BY <1>4, <2>1, HeadEvent DEF EnqueueHand, MustUndo
  <2>4. ASSUME NEW q \in PE PROVE HandOK(q)'
    <3>1. HandOK(q) /\ hand[q] \in Event \cup {NoEvent} /\ rb[q] \in Event \cup {NoEvent}
      BY DEF KernelInv, TypeOK
    <3>2. CASE q = p
      BY <2>1, <3>2 DEF HandOK, TypeOK
    <3>3. CASE q # p
      <4>1. rb'[q] = rb[q] /\ pc'[q] = pc[q] /\ hand'[q] = hand[q]
        BY <2>1, <3>3 DEF TypeOK
      <4>2. \A e \in Event : Dst[e] = q => loc'[e] = loc[e]
        BY <2>1, <3>3 DEF TypeOK
      <4> QED BY <3>1, <4>1, <4>2 DEF HandOK
    <3> QED BY <3>2, <3>3
  <2>5. owner[x] # "outq" /\ <<x, "event">> \notin net' /\ net' \subseteq net
    BY <2>1, <2>2 DEF EventOK
  <2> QED BY <2>1, <2>3, <2>4, <2>5, KernelMove
<1>5. ASSUME NEW x \in Event, NEW l \in {"pq", "event_q", "anti", "free"},
             loc[x] \in {"pq", "event_q", "anti"}, hand[p] # x,
             loc' = [loc EXCEPT ![x] = l], Dst[x] = p,
             l = "pq" => ~Ahead(Kp[x], Sig[x]),
             UNCHANGED <<pevent_q, owner, net, pc, rb, hand>>
      PROVE  KernelInv'
  <2>1. l = "pq" /\ pevent_q[Kp[x]] # <<>> => Sig[x] >= Sig[pevent_q[Kp[x]][1]]
    BY <1>5, NotAhead
  <2>2. EventOK(x)
    BY DEF KernelInv
  <2>3. owner[x] # "outq" /\ <<x, "event">> \notin net' /\ net' \subseteq net
    BY <1>5, <2>2 DEF EventOK
  <2>4. ASSUME NEW q \in PE PROVE HandOK(q)'
    <3>1. HandOK(q) /\ hand[q] \in Event \cup {NoEvent} /\ rb[q] \in Event \cup {NoEvent}
      BY DEF KernelInv, TypeOK
    <3>2. hand[q] # x
      BY <1>5, <3>1 DEF HandOK
    <3>3. rb[q] # x
      BY <1>5, <3>1 DEF HandOK
    <3>4. \A e \in Event \ {x} : loc'[e] = loc[e]
      BY <1>5 DEF TypeOK
    <3> QED BY <1>5, <3>1, <3>2, <3>3, <3>4 DEF HandOK
  <2> QED BY <1>5, <2>1, <2>3, <2>4, KernelMove
<1>6. ASSUME NEW x \in Event, loc' = loc, Dst[x] = p,
             \/ pc[p] = "event_q" /\ loc[x] = "event_q"
             \/ pc[p] = "cancel_q" /\ loc[x] = "pevent_q",
             hand[p] = NoEvent, hand' = [hand EXCEPT ![p] = x],
             UNCHANGED <<pevent_q, owner, net, pc, rb>>
      PROVE  KernelInv'
  <2>1. \A k \in KP : QueueOK(k)'
    BY <1>6 DEF KernelInv, QueueOK, Sorted, Distinct
  <2>2. \A e \in Event : EventOK(e)'
    BY <1>6 DEF KernelInv, EventOK
  <2>3. \A q \in PE : HandOK(q)'
    <3>1. hand'[p] = x /\ \A q \in PE \ {p} : hand'[q] = hand[q]
      BY <1>6 DEF TypeOK
    <3>2. HandOK(p)'
      BY <1>6, <3>1 DEF KernelInv, HandOK, PhaseInv
    <3>3. \A q \in PE \ {p} : HandOK(q)'
      BY <1>6, <3>1 DEF KernelInv, HandOK
    <3> QED BY <3>2, <3>3
  <2> QED BY <2>1, <2>2, <2>3 DEF KernelInv
<1>7. ASSUME NEW e \in Event, SchedEvent(p, e) PROVE KernelInv'
  <2>1. /\ UNCHANGED <<pevent_q, owner, net, pc, rb>> /\ hand[p] = NoEvent /\ pc[p] = "event_q"
        /\ loc[e] = "event_q" /\ Dst[e] = p
    BY <1>7 DEF SchedEvent, In, netVars
  <2>2. \/ loc' = [loc EXCEPT ![e] = "anti"] /\ hand' = hand
        \/ loc' = [loc EXCEPT ![e] = "pq"] /\ hand' = hand /\ ~Ahead(Kp[e], Sig[e])
        \/ loc' = loc /\ hand' = [hand EXCEPT ![p] = e]
    BY <1>7 DEF SchedEvent
  <2>3. CASE loc' = [loc EXCEPT ![e] = "anti"] /\ hand' = hand
    BY <1>5, <2>1, <2>3
  <2>4. CASE loc' = [loc EXCEPT ![e] = "pq"] /\ hand' = hand /\ ~Ahead(Kp[e], Sig[e])
    BY <1>5, <2>1, <2>4
  <2>5. CASE loc' = loc /\ hand' = [hand EXCEPT ![p] = e]
    BY <1>6, <2>1, <2>5
  <2> QED BY <2>2, <2>3, <2>4, <2>5
<1>8. ASSUME NEW e \in Event, SchedCancel(p, e) PROVE KernelInv'
  <2>1. /\ UNCHANGED <<pevent_q, owner, net, pc, rb>> /\ hand[p] = NoEvent /\ pc[p] = "cancel_q"
        /\ Dst[e] = p
    BY <1>8 DEF SchedCancel, Popped, netVars
  <2>2. \/ loc[e] \in {"event_q", "anti", "pq"} /\ loc' = [loc EXCEPT ![e] = "free"] /\ hand' = hand
        \/ loc[e] = "pevent_q" /\ loc' = loc /\ hand' = [hand EXCEPT ![p] = e]
    BY <1>8 DEF SchedCancel
  <2> QED BY <1>5, <1>6, <2>1, <2>2
<1>9. ASSUME NEW e \in Event, CancelLocal(p, e) PROVE KernelInv'
  <2>1. /\ UNCHANGED <<pevent_q, owner, net, pc, rb, hand>> /\ rb[p] # NoEvent
        /\ e \in caused /\ e \notin Remote /\ Parent[e] = rb[p]
    BY <1>9 DEF CancelLocal, Children, netVars
  <2>2. Dst[e] = p
    <3>1. rb[p] \in Event /\ Dst[rb[p]] = p
      BY <2>1 DEF TypeOK, KernelInv, HandOK
    <3>2. e \in Event \ Root
      BY <2>1 DEF BufferInv, BufferOK
    <3> QED BY <2>1, <3>1, <3>2, EventAssumption DEF Remote
  <2>3. \/ loc[e] = "pq" /\ loc' = [loc EXCEPT ![e] = "free"]
        \/ loc' = loc
    BY <1>9 DEF CancelLocal
  <2>4. hand[p] # NoEvent /\ pc[p] \in {"event_q", "cancel_q"}
    BY <2>1 DEF PhaseInv
  <2>5. loc[e] = "pq" => hand[p] # e
    BY <2>1, <2>4 DEF KernelInv, HandOK
  <2>6. CASE loc' = loc
    BY <1>0, <2>1, <2>6
  <2>7. CASE loc[e] = "pq" /\ loc' = [loc EXCEPT ![e] = "free"]
    BY <1>5, <2>1, <2>2, <2>5, <2>7
  <2> QED BY <2>3, <2>6, <2>7
<1>10. ASSUME NEW e \in Event, CancelRemote(p, e) PROVE KernelInv'
  <2>1. UNCHANGED <<loc, pevent_q, hand, rb, pc, net>>
    BY <1>10 DEF CancelRemote, tw_net_cancel
  <2>2. owner' = owner \/ owner' = [owner EXCEPT ![e] = "free"]
    BY <1>10 DEF CancelRemote, tw_net_cancel
  <2>3. \A f \in Event : owner'[f] = "outq" \/ <<f, "event">> \in net' => loc[f] = "none"
    <3>1. \A f \in Event : owner'[f] = "outq" => owner[f] = "outq"
      BY <2>2 DEF TypeOK, NetTypeOK
    <3> QED BY <2>1, <3>1 DEF KernelInv, EventOK
  <2> QED BY <2>1, <2>3, KernelStill
<1> QED BY <1>1, <1>2, <1>3, <1>4, <1>7, <1>8, <1>9, <1>10, KernelRollbackNext DEF Schedule

LEMMA SortedCons ==
  ASSUME NEW q \in Seq(Event), NEW e \in Event, Sorted(q), Distinct(q),
         \A i \in 1 .. Len(q) : q[i] # e /\ Sig[e] >= Sig[q[i]]
  PROVE  /\ Len(<<e>> \o q) = Len(q) + 1
         /\ (<<e>> \o q)[1] = e
         /\ Sorted(<<e>> \o q) /\ Distinct(<<e>> \o q)
         /\ \A i \in 2 .. Len(q) + 1 : i - 1 \in 1 .. Len(q) /\ (<<e>> \o q)[i] = q[i - 1]
         /\ \A i \in 1 .. Len(q) : (<<e>> \o q)[i + 1] = q[i]
<1> DEFINE c == <<e>> \o q
<1>1. <<e>> \in Seq(Event) /\ Len(<<e>>) = 1 /\ Len(q) \in Nat /\ <<e>>[1] = e
  BY LenProperties
<1>2. /\ Len(c) = Len(q) + 1
      /\ c[1] = e
      /\ \A i \in 2 .. Len(q) + 1 : c[i] = q[i - 1]
  <2>1. /\ Len(c) = 1 + Len(q)
        /\ \A i \in 1 .. 1 + Len(q) : c[i] = IF i <= 1 THEN <<e>>[i] ELSE q[i - 1]
    BY <1>1, ConcatProperties
  <2> HIDE DEF c
  <2> QED BY <1>1, <2>1
<1> HIDE DEF c
<1>3. \A i \in 2 .. Len(q) + 1 : i - 1 \in 1 .. Len(q) /\ c[i] = q[i - 1]
  BY <1>1, <1>2
<1>4. \A i \in 1 .. Len(q) : c[i + 1] = q[i]
  <2> SUFFICES ASSUME NEW i \in 1 .. Len(q) PROVE c[i + 1] = q[i]
    OBVIOUS
  <2>1. i + 1 \in 2 .. Len(q) + 1 /\ (i + 1) - 1 = i
    BY <1>1
  <2> QED BY <1>3, <2>1
<1>5. Sorted(c)
  <2> SUFFICES ASSUME NEW i \in 1 .. Len(c), NEW j \in 1 .. Len(c), i < j
               PROVE  Sig[c[i]] >= Sig[c[j]]
    BY DEF Sorted
  <2>1. j \in 2 .. Len(q) + 1 /\ j - 1 \in 1 .. Len(q) /\ c[j] = q[j - 1]
    BY <1>1, <1>2, <1>3
  <2>2. CASE i = 1
    BY <1>2, <2>1, <2>2
  <2>3. CASE i # 1
    <3>1. i - 1 \in 1 .. Len(q) /\ c[i] = q[i - 1] /\ i - 1 < j - 1
      BY <1>1, <1>2, <1>3, <2>3
    <3>2. Sig[q[i - 1]] >= Sig[q[j - 1]]
      BY <2>1, <3>1 DEF Sorted
    <3> QED BY <2>1, <3>1, <3>2
  <2> QED BY <2>2, <2>3
<1>6. ASSUME NEW i \in 1 .. Len(c), NEW j \in 1 .. Len(c), i < j
      PROVE  c[i] # c[j]
  <2>1. j \in 2 .. Len(q) + 1 /\ j - 1 \in 1 .. Len(q) /\ c[j] = q[j - 1]
    BY <1>1, <1>2, <1>3, <1>6
  <2>2. CASE i = 1
    BY <1>2, <2>1, <2>2
  <2>3. CASE i # 1
    <3>1. i - 1 \in 1 .. Len(q) /\ c[i] = q[i - 1] /\ i - 1 # j - 1
      BY <1>1, <1>2, <1>3, <1>6, <2>3
    <3>2. q[i - 1] # q[j - 1]
      BY <2>1, <3>1 DEF Distinct
    <3> QED BY <2>1, <3>1, <3>2
  <2> QED BY <2>2, <2>3
<1>7. Distinct(c)
  <2> SUFFICES ASSUME NEW i \in 1 .. Len(c), NEW j \in 1 .. Len(c), i # j
               PROVE  c[i] # c[j]
    BY DEF Distinct
  <2>1. i < j \/ j < i
    BY <1>1, <1>2
  <2> QED BY <1>6, <2>1
<1> QED BY <1>2, <1>3, <1>4, <1>5, <1>7 DEF c

LEMMA KernelProcess ==
  ASSUME TypeOK, PhaseInv, BufferInv, KernelInv, NEW p \in PE, NEW e \in Event, Process(p, e)
  PROVE  KernelInv'
<1> USE TimeWarpAssumption, NetworkAssumption
<1> DEFINE k == Kp[e]
           q == pevent_q[k]
           c == <<e>> \o q
<1>1. /\ k \in KP /\ q \in Seq(Event) /\ Len(q) \in Nat
      /\ loc[e] = "pq" /\ Dst[e] = p
      /\ \A x \in Event : Dst[x] = p /\ loc[x] = "pq" => Sig[e] <= Sig[x]
      /\ UNCHANGED <<hand, rb, pc>>
      /\ hand[p] = NoEvent /\ rb[p] = NoEvent
  BY LenProperties DEF Process, TypeOK, In, PhaseInv
<1>2. pevent_q' = [pevent_q EXCEPT ![k] = c]
  BY DEF Process
<1>3. PICK K \in SUBSET {x \in Event \ Root : Parent[x] = e /\ loc[x] = "none"
                                             /\ owner[x] = "none"} :
        /\ tw_net_send(K \cap Remote)
        /\ loc' = [x \in Event |->
              IF x = e THEN "pevent_q"
              ELSE IF x \in K \ Remote
                     THEN IF Ahead(Kp[x], Sig[x]) THEN "event_q" ELSE "pq"
              ELSE loc[x]]
  BY DEF Process
<1>4. QueueOK(k) /\ EventOK(e)
  BY <1>1 DEF KernelInv
<1>5. \A i \in 1 .. Len(q) : q[i] \in Event /\ q[i] # e /\ Sig[q[i]] \in Nat
  BY <1>1, <1>4, ElementOfSeq DEF QueueOK
<1>6. \A i \in 1 .. Len(q) : Sig[e] >= Sig[q[i]]
  <2> SUFFICES ASSUME NEW i \in 1 .. Len(q) PROVE Sig[e] >= Sig[q[i]]
    OBVIOUS
  <2>1. 1 \in 1 .. Len(q) /\ q # <<>>
    BY <1>1, EmptySeq
  <2>2. Sig[e] >= Sig[q[1]]
    BY <1>1, <1>4, <2>1 DEF EventOK
  <2>3. Sig[q[1]] >= Sig[q[i]]
    <3>1. Sorted(q)
      BY <1>4 DEF QueueOK
    <3>2. CASE i = 1
      <4>1. Sig[q[1]] \in Nat
        BY <1>5, <2>1
      <4> QED BY <3>2, <4>1
    <3>3. CASE i # 1
      <4>1. 1 < i
        BY <1>1, <3>3
      <4> QED BY <2>1, <3>1, <4>1 DEF Sorted
    <3> QED BY <3>2, <3>3
  <2>4. Sig[e] \in Nat
    OBVIOUS
  <2> QED BY <1>5, <2>1, <2>2, <2>3, <2>4
<1>7. Sorted(q) /\ Distinct(q)
  BY <1>4 DEF QueueOK
<1>8. /\ Len(c) = Len(q) + 1 /\ c[1] = e
      /\ Sorted(c) /\ Distinct(c)
      /\ \A i \in 2 .. Len(q) + 1 : i - 1 \in 1 .. Len(q) /\ c[i] = q[i - 1]
      /\ \A i \in 1 .. Len(q) : c[i + 1] = q[i]
  <2>1. \A i \in 1 .. Len(q) : q[i] # e /\ Sig[e] >= Sig[q[i]]
    BY <1>5, <1>6
  <2>2. q \in Seq(Event)
    BY <1>1
  <2> HIDE DEF q
  <2> QED BY <1>7, <2>1, <2>2, SortedCons, ZenonT(40)
<1>9. pevent_q'[k] = c /\ \A j \in KP \ {k} : pevent_q'[j] = pevent_q[j]
  BY <1>1, <1>2 DEF TypeOK
<1>10. /\ loc'[e] = "pevent_q"
       /\ \A x \in Event : loc[x] = "pevent_q" => loc'[x] = "pevent_q"
       /\ \A x \in Event \ {e} : x \notin K => loc'[x] = loc[x]
       /\ \A x \in K : x # e /\ loc'[x] \in {"event_q", "pq", "none"}
       /\ \A x \in K : loc'[x] = "pq" => ~Ahead(Kp[x], Sig[x])
       /\ \A x \in K \cap Remote : loc'[x] = "none"
  BY <1>1, <1>3
<1> HIDE DEF c, q, k
<1>11. ASSUME NEW j \in KP PROVE QueueOK(j)'
  <2>1. QueueOK(j) /\ pevent_q[j] \in Seq(Event)
    BY DEF KernelInv, TypeOK
  <2>2. CASE j = k
    <3>1. ASSUME NEW i \in 1 .. Len(c) PROVE loc'[c[i]] = "pevent_q" /\ Kp[c[i]] = k
      <4>1. CASE i = 1
        BY <1>8, <1>10, <4>1 DEF k
      <4>2. CASE i # 1
        <5>1. i - 1 \in 1 .. Len(q) /\ c[i] = q[i - 1]
          BY <1>1, <1>8, <4>2
        <5>2. loc[q[i - 1]] = "pevent_q" /\ Kp[q[i - 1]] = k
          BY <2>1, <2>2, <5>1 DEF QueueOK, q
        <5> QED BY <1>5, <1>10, <5>1, <5>2
      <4> QED BY <4>1, <4>2
    <3>2. pevent_q'[j] = c
      BY <1>9, <2>2
    <3> QED BY <1>8, <2>2, <3>1, <3>2 DEF QueueOK, Sorted, Distinct
  <2>3. CASE j # k
    <3>1. \A i \in 1 .. Len(pevent_q[j]) : pevent_q[j][i] \in Event
      BY <2>1, ElementOfSeq
    <3>2. pevent_q'[j] = pevent_q[j]
      BY <1>9, <2>3
    <3>3. \A i \in 1 .. Len(pevent_q[j]) : loc'[pevent_q[j][i]] = "pevent_q"
      BY <1>10, <2>1, <3>1 DEF QueueOK
    <3> QED BY <2>1, <3>2, <3>3 DEF QueueOK, Sorted, Distinct
  <2> QED BY <2>2, <2>3
<1>12. ASSUME NEW x \in Event PROVE EventOK(x)'
  <2>1. EventOK(x) /\ Kp[x] \in KP /\ Dst[x] \in PE /\ Sig[x] \in Nat /\ Sig[e] \in Nat /\ x # NoEvent
    BY DEF KernelInv
  <2>2. loc'[x] = "pevent_q" =>
           \E i \in 1 .. Len(pevent_q'[Kp[x]]) : pevent_q'[Kp[x]][i] = x
    <3>1. CASE x = e
      <4>1. 1 \in 1 .. Len(c)
        BY <1>1, <1>8
      <4> QED BY <1>8, <1>9, <3>1, <4>1 DEF k
    <3>2. CASE x # e /\ Kp[x] = k
      <4>1. SUFFICES ASSUME loc'[x] = "pevent_q" PROVE \E i \in 1 .. Len(c) : c[i] = x
        BY <1>9, <3>2
      <4>2. PICK i \in 1 .. Len(q) : q[i] = x
        BY <1>10, <2>1, <3>2, <4>1 DEF EventOK, q
      <4>3. i + 1 \in 1 .. Len(c) /\ c[i + 1] = x
        BY <1>1, <1>8, <4>2
      <4> QED BY <4>3
    <3>3. CASE Kp[x] # k
      <4>1. x # e /\ pevent_q'[Kp[x]] = pevent_q[Kp[x]]
        BY <1>9, <2>1, <3>3 DEF k
      <4>2. loc'[x] = "pevent_q" => loc[x] = "pevent_q"
        BY <1>10, <4>1
      <4> QED BY <2>1, <4>1, <4>2 DEF EventOK
    <3> QED BY <3>1, <3>2, <3>3
  <2>3. loc'[x] # "undo" \/ Dst[x] # p
    BY <1>1, <1>10, <2>1 DEF EventOK
  <2>4. loc'[x] \in {"pq", "undo"} /\ pevent_q'[Kp[x]] # <<>>
           => Sig[x] >= Sig[pevent_q'[Kp[x]][1]]
    <3>1. CASE Kp[x] = k
      <4>1. SUFFICES ASSUME loc'[x] \in {"pq", "undo"} PROVE Sig[x] >= Sig[e]
        BY <1>8, <1>9, <3>1
      <4>2. Dst[x] = p
        BY <1>1, <3>1, EventAssumption DEF k
      <4>3. CASE x \in K
        BY <1>3, <2>1, <4>3, EventAssumption
      <4>4. CASE x \notin K
        BY <1>1, <1>10, <2>1, <2>3, <4>1, <4>2, <4>4
      <4> QED BY <4>3, <4>4
    <3>2. CASE Kp[x] # k
      <4>1. x # e /\ pevent_q'[Kp[x]] = pevent_q[Kp[x]]
        BY <1>9, <2>1, <3>2 DEF k
      <4>2. CASE x \in K
        BY <1>10, <4>1, <4>2, NotAhead
      <4>3. CASE x \notin K
        BY <1>10, <2>1, <4>1, <4>3 DEF EventOK
      <4> QED BY <4>2, <4>3
    <3> QED BY <3>1, <3>2
  <2>5. loc'[x] = "undo" => rb'[Dst[x]] = x
    BY <1>1, <1>10, <2>1 DEF EventOK
  <2>6. owner'[x] = "outq" \/ <<x, "event">> \in net' => loc'[x] = "none"
    <3>1. net' = net /\ owner' = [y \in Event |-> IF y \in K \cap Remote THEN "outq" ELSE owner[y]]
      BY <1>3 DEF tw_net_send
    <3>2. <<x, "event">> \in net => owner[x] # "none"
      BY DEF BufferInv, BufferOK
    <3>3. CASE x \in K \cap Remote
      BY <1>10, <3>3
    <3>4. CASE x \notin K \cap Remote
      <4>1. owner'[x] = owner[x]
        BY <3>1, <3>4
      <4>2. SUFFICES ASSUME owner[x] = "outq" \/ <<x, "event">> \in net PROVE loc'[x] = "none"
        BY <3>1, <4>1
      <4>3. x \notin K /\ loc[x] = "none" /\ x # e
        BY <1>1, <1>3, <2>1, <3>2, <4>2 DEF EventOK
      <4> QED BY <1>10, <4>3
    <3> QED BY <3>3, <3>4
  <2> QED BY <2>2, <2>4, <2>5, <2>6 DEF EventOK
<1>13. ASSUME NEW r \in PE PROVE HandOK(r)'
  <2>1. HandOK(r) /\ hand[r] \in Event \cup {NoEvent} /\ rb[r] \in Event \cup {NoEvent}
    BY DEF KernelInv, TypeOK
  <2>2. \A x \in Event : loc[x] \in {"undo", "event_q", "pevent_q"} => loc'[x] = loc[x]
    BY <1>1, <1>3, <1>10
  <2> QED BY <1>1, <2>1, <2>2 DEF HandOK
<1> QED BY <1>11, <1>12, <1>13 DEF KernelInv

LEMMA KernelUpdate ==
  ASSUME TypeOK, PhaseInv, KernelInv, NEW p \in PE, UpdateGVT(p)
  PROVE  KernelInv'
<1> USE TimeWarpAssumption, NetworkAssumption
<1> DEFINE g == lvt[p]
           F == Fossils(p, g)
           n(k) == Kept(pevent_q[k], g)
<1>1. /\ g \in Nat
      /\ UNCHANGED <<net, hand, rb>>
      /\ hand[p] = NoEvent /\ rb[p] = NoEvent
      /\ \A r \in PE \ {p} : pc'[r] = pc[r]
      /\ \A e \in Event : owner'[e] = "outq" => owner[e] = "outq"
  BY DEF UpdateGVT, FreeSent, TypeOK, NetTypeOK, PhaseInv
<1>2. F \subseteq {e \in Event : Dst[e] = p /\ loc[e] = "pevent_q"}
  BY DEF Fossils, In
<1>3. /\ \A e \in F : loc'[e] = "committed"
      /\ \A e \in Event \ F : loc'[e] = loc[e]
  BY <1>2 DEF UpdateGVT
<1>4. ASSUME NEW k \in KP
      PROVE  /\ pevent_q[k] \in Seq(Event) /\ Len(pevent_q[k]) \in Nat
             /\ \A i \in 1 .. Len(pevent_q[k]) : pevent_q[k][i] \in Event
             /\ QueueOK(k)
             /\ n(k) \in 0 .. Len(pevent_q[k])
             /\ n(k) > 0 => Sig[pevent_q[k][n(k)]] >= g
             /\ \A i \in n(k) + 1 .. Len(pevent_q[k]) : Sig[pevent_q[k][i]] < g
             /\ \/ pevent_q'[k] = pevent_q[k] /\ \A f \in F : Kp[f] # k
                \/ /\ pevent_q'[k] = SubSeq(pevent_q[k], 1, n(k))
                   /\ \E f \in F : Kp[f] = k
  <2>1. pevent_q[k] \in Seq(Event) /\ QueueOK(k)
    BY DEF TypeOK, KernelInv
  <2>2. Len(pevent_q[k]) \in Nat /\ \A i \in 1 .. Len(pevent_q[k]) : pevent_q[k][i] \in Event
    BY <2>1, LenProperties, ElementOfSeq
  <2>3. pevent_q'[k] = IF \E f \in F : Kp[f] = k
                         THEN SubSeq(pevent_q[k], 1, n(k)) ELSE pevent_q[k]
    BY DEF UpdateGVT
  <2> HIDE DEF F
  <2> QED BY <1>1, <2>1, <2>2, <2>3, KeptProperties
<1>5. \A f \in F : \E i \in n(Kp[f]) + 1 .. Len(pevent_q[Kp[f]]) : pevent_q[Kp[f]][i] = f
  BY DEF Fossils
<1>6. \A f \in Event : Dst[f] = p /\ loc[f] = "pevent_q" /\ f \notin F
         => \A i \in n(Kp[f]) + 1 .. Len(pevent_q[Kp[f]]) : pevent_q[Kp[f]][i] # f
  BY DEF Fossils, In
<1> HIDE DEF F, n, g
\* What is kept of a list is not among the fossils.
<1>7. ASSUME NEW k \in KP, NEW i \in 1 .. n(k) PROVE pevent_q[k][i] \notin F
  <2> DEFINE f == pevent_q[k][i]
  <2>1. i \in 1 .. Len(pevent_q[k]) /\ n(k) \in 1 .. Len(pevent_q[k])
    BY <1>4
  <2>2. f \in Event /\ Kp[f] = k /\ pevent_q[k][n(k)] \in Event
    BY <1>4, <2>1 DEF QueueOK
  <2>3. Sig[f] >= g
    <3>1. Sig[f] \in Nat /\ Sig[pevent_q[k][n(k)]] \in Nat /\ Sig[pevent_q[k][n(k)]] >= g
      BY <1>4, <2>1, <2>2
    <3>2. CASE i = n(k)
      BY <3>1, <3>2
    <3>3. CASE i # n(k)
      <4>1. i < n(k)
        BY <1>4, <3>3
      <4>2. Sig[f] >= Sig[pevent_q[k][n(k)]]
        BY <1>4, <2>1, <4>1 DEF QueueOK, Sorted
      <4> QED BY <1>1, <3>1, <4>2
    <3> QED BY <3>2, <3>3
  <2>4. SUFFICES ASSUME f \in F PROVE FALSE
    OBVIOUS
  <2>5. PICK j \in n(k) + 1 .. Len(pevent_q[k]) : pevent_q[k][j] = f
    BY <1>5, <2>2, <2>4
  <2>6. Sig[f] < g
    BY <1>4, <2>5
  <2>7. Sig[f] \in Nat
    BY <2>2
  <2> QED BY <1>1, <2>3, <2>6, <2>7
<1>8. ASSUME NEW k \in KP, \E f \in F : Kp[f] = k
      PROVE  /\ Len(pevent_q'[k]) = n(k)
             /\ \A i \in 1 .. n(k) : pevent_q'[k][i] = pevent_q[k][i]
  <2>1. pevent_q'[k] = SubSeq(pevent_q[k], 1, n(k))
    BY <1>4, <1>8
  <2>2. \A i \in 1 .. n(k) : i \in 1 .. Len(pevent_q[k])
    BY <1>4
  <2> DEFINE s == pevent_q[k]
             m == n(k)
  <2>3. s \in Seq(Event) /\ m \in 0 .. Len(s) /\ Len(s) \in Nat
    BY <1>4
  <2> HIDE DEF s, m
  <2>4. Len(SubSeq(s, 1, m)) = m /\ \A i \in 1 .. m : SubSeq(s, 1, m)[i] = s[i]
    BY <2>3, SubSeqProperties
  <2> QED BY <2>1, <2>4 DEF s, m
<1>9. ASSUME NEW k \in KP PROVE QueueOK(k)'
  <2>1. CASE \E f \in F : Kp[f] = k
    <3>1. \A i \in 1 .. n(k) : i \in 1 .. Len(pevent_q[k])
      BY <1>4
    <3>2. \A i \in 1 .. n(k) : loc'[pevent_q[k][i]] = "pevent_q" /\ Kp[pevent_q[k][i]] = k
      <4> SUFFICES ASSUME NEW i \in 1 .. n(k)
                   PROVE  loc'[pevent_q[k][i]] = "pevent_q" /\ Kp[pevent_q[k][i]] = k
        OBVIOUS
      <4>1. /\ pevent_q[k][i] \in Event
            /\ loc[pevent_q[k][i]] = "pevent_q" /\ Kp[pevent_q[k][i]] = k
        BY <1>4, <3>1 DEF QueueOK
      <4> QED BY <1>3, <1>7, <4>1
    <3>3. \A i, j \in 1 .. n(k) : i < j => Sig[pevent_q[k][i]] >= Sig[pevent_q[k][j]]
      BY <1>4, <3>1 DEF QueueOK, Sorted
    <3>4. \A i, j \in 1 .. n(k) : i # j => pevent_q[k][i] # pevent_q[k][j]
      <4>1. Distinct(pevent_q[k])
        BY <1>4 DEF QueueOK
      <4> QED BY <3>1, <4>1 DEF Distinct
    <3> QED BY <1>8, <2>1, <3>2, <3>3, <3>4 DEF QueueOK, Sorted, Distinct
  <2>2. CASE \A f \in F : Kp[f] # k
    <3>1. pevent_q'[k] = pevent_q[k]
      BY <1>4, <2>2
    <3>2. \A i \in 1 .. Len(pevent_q[k]) : loc'[pevent_q[k][i]] = "pevent_q"
      <4> SUFFICES ASSUME NEW i \in 1 .. Len(pevent_q[k]) PROVE loc'[pevent_q[k][i]] = "pevent_q"
        OBVIOUS
      <4>1. /\ pevent_q[k][i] \in Event
            /\ loc[pevent_q[k][i]] = "pevent_q" /\ Kp[pevent_q[k][i]] = k
        BY <1>4 DEF QueueOK
      <4> QED BY <1>3, <2>2, <4>1
    <3> QED BY <1>4, <3>1, <3>2 DEF QueueOK, Sorted, Distinct
  <2> QED BY <2>1, <2>2
<1>10. ASSUME NEW e \in Event PROVE EventOK(e)'
  <2>1. EventOK(e) /\ Kp[e] \in KP
    BY DEF KernelInv
  <2>2. loc'[e] # "committed" => loc'[e] = loc[e] /\ e \notin F
    BY <1>2, <1>3
  <2>3. loc'[e] = "undo" => rb'[Dst[e]] = e
    BY <1>1, <2>1, <2>2 DEF EventOK
  <2>4. owner'[e] = "outq" \/ <<e, "event">> \in net' => loc'[e] = "none"
    BY <1>1, <1>2, <1>3, <2>1 DEF EventOK
  <2>5. CASE \E f \in F : Kp[f] = Kp[e]
    <3>1. Dst[e] = p
      BY <1>2, <2>5, EventAssumption
    <3>2. n(Kp[e]) \in 0 .. Len(pevent_q[Kp[e]]) /\ Len(pevent_q[Kp[e]]) \in Nat
      BY <1>4, <2>1
    <3>3. /\ Len(pevent_q'[Kp[e]]) = n(Kp[e])
          /\ \A i \in 1 .. n(Kp[e]) : pevent_q'[Kp[e]][i] = pevent_q[Kp[e]][i]
      BY <1>8, <2>1, <2>5
    <3>4. loc'[e] = "pevent_q" =>
             \E i \in 1 .. Len(pevent_q'[Kp[e]]) : pevent_q'[Kp[e]][i] = e
      <4>1. SUFFICES ASSUME loc'[e] = "pevent_q"
                     PROVE  \E i \in 1 .. n(Kp[e]) : pevent_q[Kp[e]][i] = e
        BY <3>3
      <4>2. loc[e] = "pevent_q" /\ e \notin F
        BY <2>2, <4>1
      <4>3. PICK i \in 1 .. Len(pevent_q[Kp[e]]) : pevent_q[Kp[e]][i] = e
        BY <2>1, <4>2 DEF EventOK
      <4>4. i \notin n(Kp[e]) + 1 .. Len(pevent_q[Kp[e]])
        BY <1>6, <3>1, <4>2, <4>3
      <4> QED BY <3>2, <4>3, <4>4
    <3>5. loc'[e] \in {"pq", "undo"} /\ pevent_q'[Kp[e]] # <<>>
             => Sig[e] >= Sig[pevent_q'[Kp[e]][1]]
      <4>1. SUFFICES ASSUME loc[e] \in {"pq", "undo"}, pevent_q'[Kp[e]] # <<>>
                     PROVE  Sig[e] >= Sig[pevent_q'[Kp[e]][1]]
        BY <2>2
      <4>2. pevent_q' \in [KP -> Seq(Event)]
        BY TypeGvt DEF Gvt, TypeOK
      <4>3. n(Kp[e]) # 0
        BY <2>1, <3>3, <4>1, <4>2, EmptySeq
      <4>4. 1 \in 1 .. n(Kp[e]) /\ pevent_q[Kp[e]] # <<>>
        BY <3>2, <4>3, EmptySeq
      <4> QED BY <2>1, <3>3, <4>1, <4>4 DEF EventOK
    <3> QED BY <2>3, <2>4, <3>4, <3>5 DEF EventOK
  <2>6. CASE \A f \in F : Kp[f] # Kp[e]
    <3>1. pevent_q'[Kp[e]] = pevent_q[Kp[e]]
      BY <1>4, <2>1, <2>6
    <3> QED BY <2>1, <2>2, <2>3, <2>4, <3>1 DEF EventOK
  <2> QED BY <2>5, <2>6
<1>11. ASSUME NEW r \in PE PROVE HandOK(r)'
  <2>1. HandOK(r) /\ hand[r] \in Event \cup {NoEvent} /\ rb[r] \in Event \cup {NoEvent}
    BY DEF KernelInv, TypeOK
  <2>2. CASE r = p
    BY <1>1, <2>2 DEF HandOK
  <2>3. CASE r # p
    <3>1. \A e \in Event : Dst[e] = r => loc'[e] = loc[e]
      BY <1>2, <1>3, <2>3
    <3> QED BY <1>1, <2>1, <2>3, <3>1 DEF HandOK
  <2> QED BY <2>2, <2>3
<1> QED BY <1>9, <1>10, <1>11 DEF KernelInv

LEMMA KernelNext == NetworkInv /\ KernelInv /\ [Next]_vars => KernelInv'
<1> SUFFICES ASSUME NetworkInv, KernelInv, [Next]_vars PROVE KernelInv'
  OBVIOUS
<1> USE DEF NetworkInv
<1>1. ASSUME NEW p \in PE, BatchDone(p) \/ EnterWhite(p) \/ ComputeLvt(p) PROVE KernelInv'
  <2>1. UNCHANGED <<loc, pevent_q, hand, rb, owner, net>>
    BY <1>1 DEF BatchDone, EnterWhite, ComputeLvt, kernelVars, netVars
  <2>2. /\ pc[p] \notin {"event_q", "cancel_q"}
        /\ \E c \in PC : pc' = [pc EXCEPT ![p] = c]
    BY <1>1 DEF BatchDone, EnterWhite, ComputeLvt, PC
  <2>3. \A q \in PE : pc'[q] = pc[q] \/ hand[q] = NoEvent
    BY <2>2 DEF TypeOK, PhaseInv
  <2>4. \A f \in Event : owner'[f] = "outq" \/ <<f, "event">> \in net' => loc[f] = "none"
    BY <2>1 DEF KernelInv, EventOK
  <2> QED BY <2>1, <2>3, <2>4, KernelStill
<1>2. CASE AllreduceWhite \/ AllreduceMin \/ UNCHANGED vars
  <2>1. UNCHANGED <<loc, pevent_q, hand, rb, owner, net>>
    BY <1>2 DEF AllreduceWhite, AllreduceMin, vars, kernelVars, netVars
  <2>2. \A q \in PE : pc'[q] = pc[q] \/ pc[q] \in {"white", "min"}
    BY <1>2 DEF AllreduceWhite, AllreduceMin, vars
  <2>3. \A q \in PE : pc'[q] = pc[q] \/ hand[q] = NoEvent
    BY <2>2 DEF PhaseInv
  <2>4. \A f \in Event : owner'[f] = "outq" \/ <<f, "event">> \in net' => loc[f] = "none"
    BY <2>1 DEF KernelInv, EventOK
  <2> QED BY <2>1, <2>3, <2>4, KernelStill
<1> QED BY <1>1, <1>2, KernelService, KernelSchedule, KernelProcess, KernelUpdate
    DEF Next, Batch, Gvt, Terminated

LEMMA KernelInvariant == Spec => [](NetworkInv /\ KernelInv)
<1>1. Init => KernelInv
  BY KernelInit
<1>2. NetworkInv /\ KernelInv /\ [Next]_vars => KernelInv'
  BY KernelNext
<1> QED BY <1>1, <1>2, NetworkInvariant, PTL DEF Spec

\* Each KP processes, and so commits, its events in signature order: the
\* order that tw_eventq_fossil_collect takes for granted.
THEOREM CausalityHolds == Spec => []Causality
<1>1. NetworkInv /\ KernelInv => Causality
  <2> SUFFICES ASSUME NetworkInv, KernelInv, NEW k \in KP
               PROVE  /\ \A i, j \in DOMAIN pevent_q[k] :
                             i < j => Sig[pevent_q[k][i]] >= Sig[pevent_q[k][j]]
                      /\ pevent_q[k] # <<>> => \A e \in Event :
                             loc[e] = "pq" /\ Kp[e] = k => Sig[e] >= Sig[pevent_q[k][1]]
    BY DEF Causality
  <2>1. pevent_q[k] \in Seq(Event) /\ DOMAIN pevent_q[k] = 1 .. Len(pevent_q[k])
    BY LenProperties DEF NetworkInv, TypeOK
  <2>2. Sorted(pevent_q[k])
    BY DEF KernelInv, QueueOK
  <2>3. \A e \in Event : loc[e] = "pq" /\ pevent_q[Kp[e]] # <<>> => Sig[e] >= Sig[pevent_q[Kp[e]][1]]
    BY DEF KernelInv, EventOK
  <2> QED BY <2>1, <2>2, <2>3 DEF Sorted
<1> QED BY <1>1, KernelInvariant, PTL
-----------------------------------------------------------------------------
\* What can still happen: an event that is not processed, not undone, or not
\* out of its sender's hands.
Active(e) ==
  \/ Pending(e)
  \/ e \in posted_sends
  \/ loc[e] \in {"pq", "event_q", "undo"}
  \/ e \in cancelled
  \/ hand[Dst[e]] = e

\* g precedes all of it.
Floor(g) ==
  /\ g <= MaxSig
  /\ \A p \in PE : g <= trans_msg_sig[p]
  /\ \A e \in Event : Active(e) => g <= Sig[e]

\* trans_msg_sig covers what has arrived since the queues were drained.
TransOK(p) ==
  /\ pc[p] = "cancel_q" /\ gvt_status[p] =>
       \A e \in Event : Dst[e] = p /\ loc[e] = "event_q" => trans_msg_sig[p] <= Sig[e]
  /\ pc[p] \in {"step2", "white", "lvt"} =>
       \A e \in Event : Dst[e] = p /\ (loc[e] = "event_q" \/ e \in cancelled)
                          => trans_msg_sig[p] <= Sig[e]

\* The part of what is active that PE p answers for.
ActiveAt(p, e) ==
  \/ Src[e] = p /\ e \in outq \cup posted_sends \cup cancel_asend
  \/ Dst[e] = p /\ loc[e] \in {"pq", "event_q", "undo"}
  \/ Dst[e] = p /\ e \in cancelled

LvtOK(p) ==
  pc[p] = "min" => /\ lvt[p] <= MaxSig
                   /\ lvt[p] <= trans_msg_sig[p]
                   /\ \A e \in Event : ActiveAt(p, e) => lvt[p] <= Sig[e]

GvtInv ==
  /\ popped \subseteq cancelled
  /\ \A p \in PE : TransOK(p) /\ LvtOK(p) /\ Floor(GVT_sig[p])
  /\ \A p \in PE : pc[p] = "update" => Floor(lvt[p])
  /\ \A p, q \in PE : pc[p] \in {"min", "update"} => GVT_sig[q] <= lvt[p]
  /\ \A p, q \in PE : pc[p] = "update" /\ pc[q] = "update" => lvt[p] = lvt[q]

-----------------------------------------------------------------------------
LEMMA TransientBound ==
  ASSUME TypeOK, NEW p \in PE, NEW s \in Nat, Transient(p, s)
  PROVE  /\ \A q \in PE \ {p} : trans_msg_sig'[q] = trans_msg_sig[q]
         /\ trans_msg_sig'[p] \in Nat
         /\ trans_msg_sig'[p] \in {trans_msg_sig[p], s}
         /\ trans_msg_sig'[p] <= trans_msg_sig[p]
         /\ gvt_status[p] => trans_msg_sig'[p] <= s
<1>1. trans_msg_sig \in [PE -> Nat]
  BY DEF TypeOK
<1>2. CASE gvt_status[p] /\ s <= trans_msg_sig[p]
  <2>1. trans_msg_sig' = [trans_msg_sig EXCEPT ![p] = s]
    BY <1>2 DEF Transient
  <2> QED BY <1>1, <1>2, <2>1
<1>3. CASE ~(gvt_status[p] /\ s <= trans_msg_sig[p])
  <2>1. trans_msg_sig' = trans_msg_sig
    BY <1>3 DEF Transient
  <2> QED BY <1>1, <1>3, <2>1
<1> QED BY <1>2, <1>3

LEMMA FloorService ==
  ASSUME TypeOK, KernelInv, NEW g \in Nat, Floor(g), NEW p \in PE, Service(p)
  PROVE  Floor(g)'
<1> USE TimeWarpAssumption, NetworkAssumption
<1>1. CASE SendBegin(p)
  <2>1. PICK e \in Event : send_begin(e)
    BY <1>1 DEF SendBegin
  <2>2. UNCHANGED <<loc, cancelled, hand, trans_msg_sig>>
    BY <1>1 DEF SendBegin, kernelVars, gvtVars
  <2>3. \A x \in Event : Active(x)' => Active(x)
    BY <2>1, <2>2 DEF send_begin, MsgOf, Active, Pending
  <2> QED BY <2>2, <2>3 DEF Floor
<1>2. CASE SendFinish(p)
  <2>1. PICK e \in Event : send_finish(e)
    BY <1>2 DEF SendFinish
  <2>2. UNCHANGED <<loc, cancelled, hand, trans_msg_sig>>
    BY <1>2 DEF SendFinish, kernelVars, gvtVars
  <2>3. \A x \in Event : Active(x)' => Active(x)
    BY <2>1, <2>2 DEF send_finish, Active, Pending
  <2> QED BY <2>2, <2>3 DEF Floor
<1>3. CASE ServiceDone(p)
  BY <1>3 DEF ServiceDone, kernelVars, netVars, gvtVars, Floor, Active, Pending
<1>4. ASSUME NEW e \in Event, RecvEvent(p, e) \/ RecvAnti(p, e) PROVE Floor(g)'
  <2>1. /\ Active(e) /\ Transient(p, Sig[e]) /\ net' \subseteq net
        /\ UNCHANGED <<outq, posted_sends, cancel_asend, hand>>
        /\ cancelled' \subseteq cancelled \cup {e}
        /\ \A x \in Event \ {e} : loc'[x] = loc[x]
    BY <1>4 DEF RecvEvent, RecvAnti, NetReceive, Active, Pending, TypeOK
  <2>2. g <= Sig[e] /\ Sig[e] \in Nat
    BY <2>1 DEF Floor
  <2>3. \A x \in Event : Active(x)' => g <= Sig[x]
    BY <2>1, <2>2 DEF Active, Pending, Floor
  <2>4. \A q \in PE : g <= trans_msg_sig'[q]
    BY <2>1, <2>2, TransientBound DEF Floor
  <2> QED BY <2>3, <2>4 DEF Floor
<1> QED BY <1>1, <1>2, <1>3, <1>4 DEF Service

LEMMA FloorSchedule ==
  ASSUME NetworkInv, KernelInv, popped \subseteq cancelled,
         NEW g \in Nat, Floor(g), NEW p \in PE, Schedule(p)
  PROVE  Floor(g)'
<1> USE TimeWarpAssumption, NetworkAssumption
<1>t. TypeOK /\ PhaseInv /\ BufferInv
  BY DEF NetworkInv
<1>0. ASSUME UNCHANGED <<outq, cancel_asend, net, posted_sends, loc, cancelled, hand, trans_msg_sig>>
      PROVE  Floor(g)'
  BY <1>0 DEF Floor, Active, Pending
<1>1. CASE tw_gvt_step1(p) \/ EventQDone(p) \/ CancelQDone(p) \/ PopCancelQ(p)
  BY <1>0, <1>1 DEF tw_gvt_step1, EventQDone, CancelQDone, PopCancelQ, netVars, kernelVars, gvtVars
\* Steps that move x, which is active, and that may take it in hand.
<1>2. ASSUME NEW x \in Event, Active(x), cancelled' \subseteq cancelled,
             \A e \in Event \ {x} : loc'[e] = loc[e],
             \A q \in PE : hand'[q] \in {hand[q], x, NoEvent},
             UNCHANGED <<outq, cancel_asend, net, posted_sends, trans_msg_sig>>
      PROVE  Floor(g)'
  <2>1. \A e \in Event : Active(e)' => Active(e)
    BY <1>2 DEF Active, Pending
  <2> QED BY <1>2, <2>1 DEF Floor
<1>3. CASE RollbackNext(p)
  <2> DEFINE k == Kp[hand[p]]
             f == pevent_q[k][1]
  <2>1. /\ hand[p] \in Event /\ k \in KP /\ pevent_q[k] # <<>> /\ rb[p] = NoEvent
        /\ pc[p] = "event_q" => MustUndo(hand[p])
        /\ UNCHANGED <<outq, cancel_asend, net, posted_sends, trans_msg_sig, hand, cancelled>>
    BY <1>3, <1>t DEF RollbackNext, TypeOK, netVars, gvtVars
  <2>2. /\ f \in Event /\ Head(pevent_q[k]) = f /\ Sig[f] \in Nat
        /\ Len(pevent_q[k]) \in Nat /\ Len(pevent_q[k]) >= 1
    BY <1>t, <2>1, HeadEvent
  <2>3. \A e \in Event \ {f} : loc'[e] = loc[e]
    BY <1>3, <1>t, <2>2 DEF RollbackNext, TypeOK
  <2>4. g <= Sig[hand[p]] /\ Sig[hand[p]] \in Nat
    BY <1>t, <2>1 DEF KernelInv, HandOK, Floor, Active
  <2>5. Sig[f] >= Sig[hand[p]]
    <3>1. CASE pc[p] = "event_q"
      BY <2>1, <2>2, <3>1 DEF MustUndo
    <3>2. CASE pc[p] # "event_q"
      <4>1. pc[p] = "cancel_q" /\ rb[p] # hand[p]
        BY <1>t, <2>1, <3>2 DEF PhaseInv
      <4>2. loc[hand[p]] = "pevent_q"
        BY <2>1, <4>1 DEF KernelInv, HandOK
      <4>3. PICK i \in 1 .. Len(pevent_q[k]) : pevent_q[k][i] = hand[p]
        BY <2>1, <4>2 DEF KernelInv, EventOK
      <4>4. Sorted(pevent_q[k])
        BY <2>1 DEF KernelInv, QueueOK
      <4>5. CASE i = 1
        BY <2>2, <4>3, <4>5
      <4>6. CASE i # 1
        <5>1. 1 \in 1 .. Len(pevent_q[k]) /\ 1 < i
          BY <2>2, <4>6
        <5> QED BY <4>3, <4>4, <5>1 DEF Sorted
      <4> QED BY <4>5, <4>6
    <3> QED BY <3>1, <3>2
  <2>6. g <= Sig[f]
    BY <2>2, <2>4, <2>5
  <2>7. \A e \in Event : Active(e)' => Active(e) \/ e = f
    BY <2>1, <2>3 DEF Active, Pending
  <2> QED BY <2>1, <2>6, <2>7 DEF Floor
<1>4. CASE RollbackDone(p)
  <2>1. /\ rb[p] \in Event /\ loc[rb[p]] = "undo"
        /\ UNCHANGED <<outq, cancel_asend, net, posted_sends, trans_msg_sig, cancelled>>
        /\ \A e \in Event \ {rb[p]} : loc'[e] = loc[e]
        /\ \A q \in PE : hand'[q] \in {hand[q], NoEvent}
    BY <1>4, <1>t DEF RollbackDone, TypeOK, netVars, gvtVars, KernelInv, HandOK
  <2>2. Active(rb[p])
    BY <2>1 DEF Active
  <2> QED BY <1>2, <2>1, <2>2
<1>5. CASE EnqueueHand(p)
  <2>1. /\ hand[p] \in Event /\ loc[hand[p]] = "event_q"
        /\ UNCHANGED <<outq, cancel_asend, net, posted_sends, trans_msg_sig, cancelled>>
        /\ \A e \in Event \ {hand[p]} : loc'[e] = loc[e]
        /\ \A q \in PE : hand'[q] \in {hand[q], NoEvent}
    BY <1>5, <1>t DEF EnqueueHand, TypeOK, netVars, gvtVars, KernelInv, HandOK
  <2>2. Active(hand[p])
    BY <2>1 DEF Active
  <2> QED BY <1>2, <2>1, <2>2
<1>6. ASSUME NEW e \in Event, SchedEvent(p, e) PROVE Floor(g)'
  <2>1. /\ loc[e] = "event_q"
        /\ UNCHANGED <<outq, cancel_asend, net, posted_sends, trans_msg_sig, cancelled>>
    BY <1>6 DEF SchedEvent, In, netVars, gvtVars
  <2>2. \A x \in Event \ {e} : loc'[x] = loc[x]
    BY <1>6, <1>t DEF SchedEvent, TypeOK
  <2>3. \A q \in PE : hand'[q] \in {hand[q], e, NoEvent}
    BY <1>6, <1>t DEF SchedEvent, TypeOK
  <2>4. Active(e)
    BY <2>1 DEF Active
  <2> QED BY <1>2, <2>1, <2>2, <2>3, <2>4
<1>7. ASSUME NEW e \in Event, SchedCancel(p, e) PROVE Floor(g)'
  <2>1. /\ cancelled' = cancelled \ {e}
        /\ UNCHANGED <<outq, cancel_asend, net, posted_sends, trans_msg_sig>>
    BY <1>7 DEF SchedCancel, netVars, gvtVars
  <2>2. \A x \in Event \ {e} : loc'[x] = loc[x]
    BY <1>7, <1>t DEF SchedCancel, TypeOK
  <2>3. \A q \in PE : hand'[q] \in {hand[q], e, NoEvent}
    BY <1>7, <1>t DEF SchedCancel, TypeOK
  <2>4. e \in cancelled
    BY <1>7 DEF SchedCancel, Popped
  <2> QED BY <1>2, <2>1, <2>2, <2>3, <2>4 DEF Active
\* A child of the event under rollback is later than that event.
<1>8. ASSUME NEW c \in Event, c \in Children(rb[p]), rb[p] # NoEvent
      PROVE  g <= Sig[c] /\ Sig[c] \in Nat
  <2>1. rb[p] \in Event /\ loc[rb[p]] = "undo"
    BY <1>8, <1>t DEF TypeOK, KernelInv, HandOK
  <2>2. g <= Sig[rb[p]] /\ Sig[rb[p]] \in Nat
    BY <2>1 DEF Floor, Active
  <2>3. c \in Event \ Root /\ Parent[c] = rb[p]
    BY <1>8, <1>t DEF Children, BufferInv, BufferOK
  <2> QED BY <2>2, <2>3, EventAssumption
<1>9. ASSUME NEW e \in Event, CancelRemote(p, e) PROVE Floor(g)'
  <2>1. g <= Sig[e] /\ Sig[e] \in Nat
    BY <1>8, <1>9 DEF CancelRemote
  <2>2. /\ UNCHANGED <<net, posted_sends, loc, hand, cancelled>>
        /\ outq' \subseteq outq \cup {e} /\ cancel_asend' \subseteq cancel_asend \cup {e}
    BY <1>9 DEF CancelRemote, tw_net_cancel
  <2>3. \A q \in PE : g <= trans_msg_sig'[q]
    <3>1. Transient(p, Sig[e]) \/ trans_msg_sig' = trans_msg_sig
      BY <1>9 DEF CancelRemote
    <3> QED BY <1>t, <2>1, <3>1, TransientBound DEF Floor
  <2>4. \A x \in Event : Active(x)' => Active(x) \/ x = e
    BY <2>2 DEF Active, Pending
  <2> QED BY <2>1, <2>3, <2>4 DEF Floor
<1>10. ASSUME NEW e \in Event, CancelLocal(p, e) PROVE Floor(g)'
  <2>1. g <= Sig[e] /\ Sig[e] \in Nat
    BY <1>8, <1>10 DEF CancelLocal
  <2>2. /\ UNCHANGED <<net, posted_sends, outq, cancel_asend, hand>>
        /\ cancelled' \subseteq cancelled \cup {e}
    BY <1>10 DEF CancelLocal, netVars
  <2>3. \A x \in Event \ {e} : loc'[x] = loc[x]
    BY <1>10, <1>t DEF CancelLocal, TypeOK
  <2>4. \A q \in PE : g <= trans_msg_sig'[q]
    <3>1. Transient(p, Sig[e]) \/ trans_msg_sig' = trans_msg_sig
      BY <1>10 DEF CancelLocal
    <3> QED BY <1>t, <2>1, <3>1, TransientBound DEF Floor
  <2>5. \A x \in Event : Active(x)' => Active(x) \/ x = e
    BY <2>2, <2>3 DEF Active, Pending
  <2> QED BY <2>1, <2>4, <2>5 DEF Floor
<1> QED BY <1>1, <1>3, <1>4, <1>5, <1>6, <1>7, <1>9, <1>10 DEF Schedule

\* What precedes all that is active precedes it for ever.
LEMMA FloorStep ==
  ASSUME NetworkInv, KernelInv, popped \subseteq cancelled,
         NEW g \in Nat, Floor(g), [Next]_vars
  PROVE  Floor(g)'
<1> USE TimeWarpAssumption, NetworkAssumption
<1>t. TypeOK /\ PhaseInv /\ BufferInv
  BY DEF NetworkInv
<1>0. ASSUME UNCHANGED <<outq, cancel_asend, net, posted_sends, loc, cancelled, hand, trans_msg_sig>>
      PROVE  Floor(g)'
  BY <1>0 DEF Floor, Active, Pending
<1>1. ASSUME NEW p \in PE, NEW e \in Event, Process(p, e) PROVE Floor(g)'
  <2>0. PICK K \in SUBSET {x \in Event \ Root : Parent[x] = e /\ loc[x] = "none"
                                               /\ owner[x] = "none"} :
          /\ tw_net_send(K \cap Remote)
          /\ loc' = [x \in Event |->
                IF x = e THEN "pevent_q"
                ELSE IF x \in K \ Remote
                       THEN IF Ahead(Kp[x], Sig[x]) THEN "event_q" ELSE "pq"
                ELSE loc[x]]
    BY <1>1 DEF Process
  <2>1. /\ outq' = outq \cup (K \cap Remote)
        /\ \A x \in Event : x \notin K => loc'[x] \in {loc[x], "pevent_q"}
        /\ \A x \in K : x \in Event \ Root /\ Parent[x] = e
    BY <2>0 DEF tw_net_send
  <2>2. UNCHANGED <<cancel_asend, net, posted_sends, cancelled, hand, trans_msg_sig>>
    BY <1>1 DEF Process, tw_net_send, gvtVars
  <2>3. g <= Sig[e] /\ Sig[e] \in Nat
    BY <1>1 DEF Process, In, Floor, Active
  <2>4. \A x \in K : g <= Sig[x]
    BY <2>1, <2>3, EventAssumption
  <2>5. \A x \in Event : Active(x)' => Active(x) \/ x \in K
    BY <2>1, <2>2 DEF Active, Pending
  <2> QED BY <2>2, <2>4, <2>5 DEF Floor
<1>2. ASSUME NEW p \in PE, UpdateGVT(p) PROVE Floor(g)'
  <2>1. /\ UNCHANGED <<outq, cancel_asend, net, posted_sends, cancelled, hand>>
        /\ trans_msg_sig' = [trans_msg_sig EXCEPT ![p] = MaxSig]
        /\ \A e \in Event : loc'[e] \in {loc[e], "committed"}
    BY <1>2 DEF UpdateGVT
  <2>2. \A e \in Event : Active(e)' => Active(e)
    BY <2>1 DEF Active, Pending
  <2> QED BY <1>t, <2>1, <2>2 DEF Floor, TypeOK
<1>3. ASSUME NEW p \in PE, BatchDone(p) \/ EnterWhite(p) \/ ComputeLvt(p) PROVE Floor(g)'
  BY <1>0, <1>3 DEF BatchDone, EnterWhite, ComputeLvt, netVars, kernelVars, gvtVars
<1>4. CASE AllreduceWhite \/ AllreduceMin \/ UNCHANGED vars
  BY <1>0, <1>4 DEF AllreduceWhite, AllreduceMin, vars, netVars, kernelVars, gvtVars
<1> QED BY <1>1, <1>2, <1>3, <1>4, <1>t, FloorService, FloorSchedule
    DEF Next, Batch, Gvt, Terminated

-----------------------------------------------------------------------------
LEMMA PoppedNext ==
  ASSUME popped \subseteq cancelled, [Next]_vars
  PROVE  popped' \subseteq cancelled'
<1>1. ASSUME NEW p \in PE, Service(p) PROVE popped' = popped /\ cancelled \subseteq cancelled'
  BY <1>1 DEF Service, SendBegin, SendFinish, ServiceDone, RecvEvent, RecvAnti, kernelVars
<1>2. ASSUME NEW p \in PE, Schedule(p) PROVE popped' \subseteq cancelled'
  <2>1. \/ popped' = popped /\ cancelled \subseteq cancelled'
        \/ PopCancelQ(p)
        \/ \E e \in Event : SchedCancel(p, e)
    BY <1>2 DEF Schedule, tw_gvt_step1, RollbackNext, RollbackDone, EnqueueHand, EventQDone,
         CancelQDone, SchedEvent, CancelRemote, CancelLocal, kernelVars
  <2>2. CASE PopCancelQ(p)
    BY <2>2 DEF PopCancelQ, CancelQ
  <2>3. ASSUME NEW e \in Event, SchedCancel(p, e) PROVE popped' \subseteq cancelled'
    BY <2>3 DEF SchedCancel
  <2> QED BY <2>1, <2>2, <2>3
<1>3. ASSUME NEW p \in PE, Batch(p) \/ Gvt(p) PROVE UNCHANGED <<popped, cancelled>>
  BY <1>3 DEF Batch, Gvt, Process, BatchDone, EnterWhite, ComputeLvt, UpdateGVT, kernelVars
<1>4. CASE AllreduceWhite \/ AllreduceMin \/ UNCHANGED vars
  BY <1>4 DEF AllreduceWhite, AllreduceMin, vars, kernelVars
<1> QED BY <1>1, <1>2, <1>3, <1>4 DEF Next, Terminated

LEMMA GvtInit == Init => GvtInv
<1> SUFFICES ASSUME Init PROVE GvtInv
  OBVIOUS
<1>1. \A p \in PE : pc[p] = "net_read"
  BY DEF Init
<1>2. Floor(0)
  BY TimeWarpAssumption DEF Init, Floor
<1>3. \A p \in PE : GVT_sig[p] = 0
  BY DEF Init
<1>4. popped \subseteq cancelled
  BY DEF Init
<1> QED BY <1>1, <1>2, <1>3, <1>4 DEF GvtInv, TransOK, LvtOK

\* Steps outside the computation of the minimum: no PE is in it, and the
\* values of lvt and of the GVT stay.
LEMMA GvtStill ==
  ASSUME NetworkInv, KernelInv, GvtInv, [Next]_vars, UNCHANGED <<lvt, GVT_sig>>,
         \A p \in PE : /\ pc'[p] # "min"
                       /\ pc'[p] = "update" => pc[p] = "update"
                       /\ TransOK(p)'
  PROVE  GvtInv'
<1>t. lvt \in [PE -> Nat] /\ GVT_sig \in [PE -> Nat]
  BY DEF NetworkInv, TypeOK
<1>1. popped' \subseteq cancelled'
  BY PoppedNext DEF GvtInv
<1>2. ASSUME NEW p \in PE PROVE Floor(GVT_sig[p])'
  <2>1. PICK g \in Nat : g = GVT_sig[p]
    BY <1>t
  <2>2. Floor(g)
    BY <2>1 DEF GvtInv
  <2>3. Floor(g)' /\ GVT_sig'[p] = g
    BY <2>1, <2>2, FloorStep DEF GvtInv
  <2> QED BY <2>3 DEF Floor
<1>3. ASSUME NEW p \in PE, pc'[p] = "update" PROVE Floor(lvt[p])'
  <2>1. PICK g \in Nat : g = lvt[p]
    BY <1>t
  <2>2. Floor(g)
    BY <1>3, <2>1 DEF GvtInv
  <2>3. Floor(g)' /\ lvt'[p] = g
    BY <2>1, <2>2, FloorStep DEF GvtInv
  <2> QED BY <2>3 DEF Floor
<1>4. \A p \in PE : LvtOK(p)'
  BY DEF LvtOK
<1>5. \A p, q \in PE : pc'[p] \in {"min", "update"} => GVT_sig'[q] <= lvt'[p]
  BY DEF GvtInv
<1>6. \A p, q \in PE : pc'[p] = "update" /\ pc'[q] = "update" => lvt'[p] = lvt'[q]
  BY DEF GvtInv
<1> QED BY <1>1, <1>2, <1>3, <1>4, <1>5, <1>6 DEF GvtInv

\* A PE that takes a step of its own outside the computation of the minimum
\* shows that no PE is in it.
LEMMA NotInMin ==
  ASSUME PhaseInv, NEW p \in PE, pc[p] \notin {"lvt", "min"}
  PROVE  \A q \in PE : pc[q] \notin {"lvt", "min"}
  BY DEF PhaseInv

LEMMA GvtService ==
  ASSUME NetworkInv, KernelInv, GvtInv, [Next]_vars, NEW p \in PE, Service(p)
  PROVE  GvtInv'
<1> USE TimeWarpAssumption, NetworkAssumption
<1>t. TypeOK /\ PhaseInv
  BY DEF NetworkInv
<1>1. svc[p] # "off" /\ UNCHANGED <<pc, lvt, GVT_sig, gvt_status>>
  BY <1>t DEF Service, SendBegin, SendFinish, ServiceDone, RecvEvent, RecvAnti, gvtVars
<1>2. pc[p] \notin {"lvt", "min"}
  BY <1>1, <1>t DEF PhaseInv
<1>3. \A q \in PE : pc[q] \notin {"lvt", "min"}
  BY <1>2, <1>t, NotInMin
<1>4. \A q \in PE : TransOK(q)'
  <2>1. CASE SendBegin(p) \/ SendFinish(p) \/ ServiceDone(p)
    <3>1. UNCHANGED <<loc, cancelled, trans_msg_sig>>
      BY <2>1 DEF SendBegin, SendFinish, ServiceDone, kernelVars, gvtVars
    <3> QED BY <1>1, <3>1 DEF TransOK, GvtInv
  <2>2. ASSUME NEW e \in Event, RecvEvent(p, e) \/ RecvAnti(p, e), NEW q \in PE
        PROVE  TransOK(q)'
    <3>1. /\ Transient(p, Sig[e]) /\ Dst[e] = p /\ cancelled' \subseteq cancelled \cup {e}
          /\ \A x \in Event \ {e} : loc'[x] = loc[x]
      BY <1>t, <2>2 DEF RecvEvent, RecvAnti, TypeOK
    <3>2. Sig[e] \in Nat /\ trans_msg_sig[p] \in Nat
      BY <1>t DEF TypeOK
    <3>3. TransOK(q)
      BY DEF GvtInv
    <3>4. CASE q # p
      <4>1. trans_msg_sig'[q] = trans_msg_sig[q]
        BY <1>t, <3>1, <3>2, <3>4, TransientBound
      <4> QED BY <1>1, <3>1, <3>3, <3>4, <4>1 DEF TransOK
    <3>5. CASE q = p
      <4>1. /\ trans_msg_sig'[p] \in Nat /\ trans_msg_sig'[p] <= trans_msg_sig[p]
            /\ gvt_status[p] => trans_msg_sig'[p] <= Sig[e]
        BY <1>t, <3>1, <3>2, TransientBound
      <4>2. pc[p] \in {"step2", "white", "lvt"} => gvt_status[p]
        BY <1>t DEF PhaseInv
      <4>3. \A x \in Event : Sig[x] \in Nat
        OBVIOUS
      <4>4. pc[p] = "cancel_q" /\ gvt_status[p] =>
              \A x \in Event : Dst[x] = p /\ loc'[x] = "event_q" => trans_msg_sig'[p] <= Sig[x]
        BY <3>1, <3>2, <3>3, <3>5, <4>1, <4>3 DEF TransOK
      <4>5. pc[p] \in {"step2", "white", "lvt"} =>
              \A x \in Event : Dst[x] = p /\ (loc'[x] = "event_q" \/ x \in cancelled')
                                 => trans_msg_sig'[p] <= Sig[x]
        BY <3>1, <3>2, <3>3, <3>5, <4>1, <4>2, <4>3 DEF TransOK
      <4> QED BY <1>1, <3>5, <4>4, <4>5 DEF TransOK
    <3> QED BY <3>4, <3>5
  <2> QED BY <2>1, <2>2 DEF Service
<1> QED BY <1>1, <1>3, <1>4, GvtStill

LEMMA GvtSchedule ==
  ASSUME NetworkInv, KernelInv, GvtInv, [Next]_vars, NEW p \in PE, Schedule(p)
  PROVE  GvtInv'
<1> USE TimeWarpAssumption, NetworkAssumption
<1>t. TypeOK /\ PhaseInv /\ BufferInv
  BY DEF NetworkInv
<1>1. UNCHANGED <<lvt, GVT_sig>>
  BY DEF Schedule, tw_gvt_step1, RollbackNext, RollbackDone, EnqueueHand, EventQDone,
     PopCancelQ, CancelQDone, SchedEvent, SchedCancel, CancelRemote, CancelLocal, gvtVars
<1>2. \/ tw_gvt_step1(p) \/ EventQDone(p) \/ CancelQDone(p)
      \/ pc' = pc /\ hand[p] # NoEvent
      \/ pc' = pc /\ pc[p] \in {"event_q", "cancel_q"}
  BY <1>t DEF Schedule, RollbackNext, RollbackDone, EnqueueHand, PopCancelQ,
     SchedEvent, SchedCancel, CancelRemote, CancelLocal, PhaseInv
<1>3. pc[p] \in {"net_read", "event_q", "cancel_q"}
  BY <1>2, <1>t DEF PhaseInv, tw_gvt_step1, EventQDone, CancelQDone
<1>4. \A q \in PE : pc[q] \notin {"lvt", "min"}
  BY <1>3, <1>t, NotInMin
<1>5. \A q \in PE \ {p} : pc'[q] = pc[q]
  BY <1>2, <1>t DEF tw_gvt_step1, EventQDone, CancelQDone, TypeOK
<1>6. pc'[p] \notin {"lvt", "min", "update"}
  <2>1. \E c \in {"event_q", "cancel_q", "step2", "batch"} : pc' = pc \/ pc' = [pc EXCEPT ![p] = c]
    BY <1>2 DEF tw_gvt_step1, EventQDone, CancelQDone
  <2> QED BY <1>3, <1>t, <2>1 DEF TypeOK
<1>7. \A e \in Event : loc'[e] = "event_q" => loc[e] = "event_q"
  <2>1. ASSUME NEW x \in Event, NEW l \in Loc \ {"event_q"}, loc' = [loc EXCEPT ![x] = l]
        PROVE  \A e \in Event : loc'[e] = "event_q" => loc[e] = "event_q"
    BY <1>t, <2>1 DEF TypeOK
  <2>2. CASE RollbackNext(p)
    <3>1. Kp[hand[p]] \in KP /\ pevent_q[Kp[hand[p]]] # <<>>
      BY <1>t, <2>2 DEF RollbackNext, TypeOK
    <3>2. Head(pevent_q[Kp[hand[p]]]) \in Event
      BY <1>t, <3>1, HeadEvent
    <3> QED BY <2>1, <2>2, <3>2 DEF RollbackNext, Loc
  <2>3. CASE RollbackDone(p)
    BY <1>t, <2>1, <2>3 DEF RollbackDone, TypeOK, Loc
  <2>4. CASE EnqueueHand(p)
    BY <1>t, <2>1, <2>4 DEF EnqueueHand, TypeOK, Loc
  <2>5. ASSUME NEW e \in Event, SchedEvent(p, e)
        PROVE  loc' = loc \/ loc' = [loc EXCEPT ![e] = "anti"] \/ loc' = [loc EXCEPT ![e] = "pq"]
    BY <2>5 DEF SchedEvent
  <2>6. ASSUME NEW e \in Event, SchedCancel(p, e) \/ CancelLocal(p, e)
        PROVE  loc' = loc \/ loc' = [loc EXCEPT ![e] = "free"]
    BY <2>6 DEF SchedCancel, CancelLocal
  <2>7. CASE \/ tw_gvt_step1(p) \/ EventQDone(p) \/ PopCancelQ(p) \/ CancelQDone(p)
             \/ \E e \in Event : CancelRemote(p, e)
    BY <2>7 DEF tw_gvt_step1, EventQDone, PopCancelQ, CancelQDone, CancelRemote, kernelVars
  <2>8. {"anti", "pq", "free"} \subseteq Loc \ {"event_q"}
    BY DEF Loc
  <2> QED BY <2>1, <2>2, <2>3, <2>4, <2>5, <2>6, <2>7, <2>8 DEF Schedule
<1>8. \A e \in Event : e \in cancelled' => e \in cancelled \/ Dst[e] = p
  <2>1. ASSUME NEW e \in Event, CancelLocal(p, e) PROVE Dst[e] = p
    <3>1. rb[p] \in Event /\ e \in caused /\ e \notin Remote /\ Parent[e] = rb[p]
      BY <1>t, <2>1 DEF CancelLocal, Children, TypeOK
    <3>2. e \in Event \ Root
      BY <1>t, <3>1 DEF BufferInv, BufferOK
    <3>3. rb[p] # NoEvent
      BY <2>1 DEF CancelLocal
    <3>4. Dst[rb[p]] = p
      BY <3>3 DEF KernelInv, HandOK
    <3> QED BY <3>1, <3>2, <3>4, EventAssumption DEF Remote
  <2>2. \/ cancelled' \subseteq cancelled
        \/ \E e \in Event : CancelLocal(p, e) /\ cancelled' = cancelled \cup {e}
    BY DEF Schedule, tw_gvt_step1, RollbackNext, RollbackDone, EnqueueHand, EventQDone,
       PopCancelQ, CancelQDone, SchedEvent, SchedCancel, CancelRemote, CancelLocal, kernelVars
  <2> QED BY <2>1, <2>2
<1>9. /\ \A q \in PE \ {p} : trans_msg_sig'[q] = trans_msg_sig[q]
      /\ trans_msg_sig'[p] \in Nat /\ trans_msg_sig'[p] <= trans_msg_sig[p]
      /\ \A q \in PE : trans_msg_sig[q] \in Nat
  <2>1. \A q \in PE : trans_msg_sig[q] \in Nat
    BY <1>t DEF TypeOK
  <2>2. \/ trans_msg_sig' = trans_msg_sig
        \/ \E e \in Event : Transient(p, Sig[e])
    BY DEF Schedule, tw_gvt_step1, RollbackNext, RollbackDone, EnqueueHand, EventQDone,
       PopCancelQ, CancelQDone, SchedEvent, SchedCancel, CancelRemote, CancelLocal, gvtVars
  <2>3. ASSUME NEW e \in Event, Transient(p, Sig[e])
        PROVE  /\ \A q \in PE \ {p} : trans_msg_sig'[q] = trans_msg_sig[q]
               /\ trans_msg_sig'[p] \in Nat /\ trans_msg_sig'[p] <= trans_msg_sig[p]
    BY <1>t, <2>3, TransientBound
  <2> QED BY <2>1, <2>2, <2>3
<1>10. tw_gvt_step1(p) \/ gvt_status' = gvt_status
  BY DEF Schedule, RollbackNext, RollbackDone, EnqueueHand, EventQDone,
     PopCancelQ, CancelQDone, SchedEvent, SchedCancel, CancelRemote, CancelLocal, gvtVars
<1>11. \A q \in PE \ {p} : gvt_status'[q] = gvt_status[q]
  BY <1>10, <1>t DEF tw_gvt_step1, TypeOK
<1>12. ASSUME NEW q \in PE \ {p} PROVE TransOK(q)'
  <2>1. TransOK(q)
    BY DEF GvtInv
  <2> QED BY <1>5, <1>7, <1>8, <1>9, <1>11, <2>1 DEF TransOK
<1>13. TransOK(p)'
  <2>1. TransOK(p)
    BY DEF GvtInv
  <2>2. CASE tw_gvt_step1(p)
    BY <1>t, <2>2 DEF tw_gvt_step1, TransOK, TypeOK
  <2>3. CASE EventQDone(p)
    <3>1. pc'[p] = "cancel_q" /\ \A e \in Event : Dst[e] = p => loc'[e] # "event_q"
      BY <1>t, <2>3 DEF EventQDone, In, TypeOK, kernelVars
    <3> QED BY <3>1 DEF TransOK
  <2>4. CASE CancelQDone(p)
    <3>1. /\ UNCHANGED <<loc, cancelled, trans_msg_sig>> /\ pc[p] = "cancel_q"
          /\ \A e \in Event : Dst[e] = p => e \notin cancelled
      BY <2>4 DEF CancelQDone, Popped, CancelQ, kernelVars, gvtVars
    <3>2. \/ gvt_status[p] /\ pc'[p] = "step2"
          \/ pc'[p] = "batch"
      BY <1>t, <2>4 DEF CancelQDone, TypeOK
    <3> QED BY <2>1, <3>1, <3>2 DEF TransOK
  <2>5. CASE pc' = pc /\ gvt_status' = gvt_status
    <3>1. pc[p] \in {"net_read", "event_q", "cancel_q"} /\ pc'[p] = pc[p] /\ gvt_status'[p] = gvt_status[p]
      BY <1>3, <2>5
    <3>2. \A e \in Event : Sig[e] \in Nat
      OBVIOUS
    <3> QED BY <1>7, <1>9, <2>1, <3>1, <3>2 DEF TransOK
  <2> QED BY <1>2, <1>10, <2>2, <2>3, <2>4, <2>5
<1> QED BY <1>1, <1>4, <1>5, <1>6, <1>12, <1>13, GvtStill

\* Steps that change none of what GvtInv speaks of but pc, in the phases that
\* TransOK tells apart.
LEMMA GvtBatch ==
  ASSUME NetworkInv, KernelInv, GvtInv, [Next]_vars, NEW p \in PE, Batch(p)
  PROVE  GvtInv'
<1> USE TimeWarpAssumption, NetworkAssumption
<1>t. TypeOK /\ PhaseInv
  BY DEF NetworkInv
<1>1. pc[p] = "batch" /\ UNCHANGED <<lvt, GVT_sig, gvt_status, trans_msg_sig, cancelled>>
  BY DEF Batch, Process, BatchDone, gvtVars
<1>2. pc' = pc \/ pc' = [pc EXCEPT ![p] = "net_read"]
  BY DEF Batch, Process, BatchDone
<1>3. \A q \in PE : pc[q] \notin {"lvt", "min"}
  BY <1>1, <1>t, NotInMin
<1>4. \A q \in PE \ {p} : pc'[q] = pc[q]
  BY <1>2, <1>t DEF TypeOK
<1>5. pc'[p] \in {"batch", "net_read"}
  BY <1>1, <1>2, <1>t DEF TypeOK
<1>6. \A x \in Event : Dst[x] # p /\ loc'[x] = "event_q" => loc[x] = "event_q"
  <2>1. CASE BatchDone(p)
    BY <2>1 DEF BatchDone
  <2>2. ASSUME NEW e \in Event, Process(p, e)
        PROVE  \A x \in Event : Dst[x] # p /\ loc'[x] = "event_q" => loc[x] = "event_q"
    <3>1. PICK K \in SUBSET {x \in Event \ Root : Parent[x] = e /\ loc[x] = "none"
                                                 /\ owner[x] = "none"} :
            loc' = [x \in Event |->
                  IF x = e THEN "pevent_q"
                  ELSE IF x \in K \ Remote
                         THEN IF Ahead(Kp[x], Sig[x]) THEN "event_q" ELSE "pq"
                  ELSE loc[x]]
      BY <2>2 DEF Process
    <3>2. Dst[e] = p
      BY <2>2 DEF Process, In
    <3>3. \A x \in K \ Remote : Dst[x] = p
      BY <3>2, EventAssumption DEF Remote
    <3> QED BY <3>1, <3>3
  <2> QED BY <2>1, <2>2 DEF Batch
<1>7. ASSUME NEW q \in PE \ {p} PROVE TransOK(q)'
  <2>1. TransOK(q)
    BY DEF GvtInv
  <2> QED BY <1>1, <1>4, <1>6, <2>1 DEF TransOK
<1>8. TransOK(p)'
  BY <1>5 DEF TransOK
<1> QED BY <1>1, <1>3, <1>4, <1>5, <1>7, <1>8, GvtStill

LEMMA GvtWhite ==
  ASSUME NetworkInv, KernelInv, GvtInv, [Next]_vars,
         AllreduceWhite \/ \E p \in PE : EnterWhite(p)
  PROVE  GvtInv'
<1> USE TimeWarpAssumption, NetworkAssumption
<1>t. TypeOK /\ PhaseInv
  BY DEF NetworkInv
<1>1. UNCHANGED <<lvt, GVT_sig, gvt_status, trans_msg_sig, cancelled, loc>>
  BY DEF EnterWhite, AllreduceWhite, kernelVars, gvtVars
<1>2. ASSUME NEW q \in PE
      PROVE  \/ pc'[q] = pc[q] /\ pc[q] # "min"
             \/ pc[q] \in {"step2", "white"} /\ pc'[q] \in {"step2", "white", "lvt"}
  <2>1. CASE AllreduceWhite
    BY <2>1 DEF AllreduceWhite
  <2>2. ASSUME NEW p \in PE, EnterWhite(p)
        PROVE  \/ pc'[q] = pc[q] /\ pc[q] # "min"
               \/ pc[q] \in {"step2", "white"} /\ pc'[q] \in {"step2", "white", "lvt"}
    BY <1>t, <2>2, NotInMin DEF EnterWhite, TypeOK
  <2> QED BY <2>1, <2>2
<1>3. ASSUME NEW q \in PE PROVE TransOK(q)'
  <2>1. TransOK(q)
    BY DEF GvtInv
  <2> QED BY <1>1, <1>2, <2>1 DEF TransOK
<1> QED BY <1>1, <1>2, <1>3, GvtStill

\* The minimum that p computes precedes all that p answers for, and no GVT
\* exceeds it.
LEMMA GvtLvt ==
  ASSUME NetworkInv, KernelInv, GvtInv, [Next]_vars, NEW p \in PE, ComputeLvt(p)
  PROVE  GvtInv'
<1> USE TimeWarpAssumption, NetworkAssumption
<1>t. TypeOK /\ PhaseInv /\ BufferInv
  BY DEF NetworkInv
<1>1. PICK m \in LvtBounds(p) : IsMin(m, LvtBounds(p)) /\ lvt' = [lvt EXCEPT ![p] = m]
  BY DEF ComputeLvt
<1>2. /\ pc[p] = "lvt" /\ pc' = [pc EXCEPT ![p] = "min"]
      /\ UNCHANGED <<outq, posted_sends, cancel_asend, net, loc, cancelled, popped, hand, rb,
                     gvt_status, trans_msg_sig, GVT_sig>>
  BY DEF ComputeLvt, netVars, kernelVars
<1>3. pc'[p] = "min" /\ \A q \in PE \ {p} : pc'[q] = pc[q] /\ lvt'[q] = lvt[q]
  BY <1>1, <1>2, <1>t DEF TypeOK
<1>4. lvt'[p] = m
  BY <1>1, <1>t DEF TypeOK
<1>5. /\ m <= MaxSig /\ m <= trans_msg_sig[p]
      /\ \A e \in Event : Dst[e] = p /\ loc[e] = "pq" => m <= Sig[e]
      /\ \A e \in Event : Src[e] = p /\ e \in outq \cup posted_sends => m <= Sig[e]
  <2>1. \A x \in LvtBounds(p) : m <= x
    BY <1>1 DEF IsMin
  <2>2. MaxSig \in LvtBounds(p) /\ trans_msg_sig[p] \in LvtBounds(p)
    BY DEF LvtBounds
  <2>3. \A e \in Event : Dst[e] = p /\ loc[e] = "pq" => Sig[e] \in LvtBounds(p)
    BY DEF LvtBounds, In
  <2>4. \A e \in Event : Src[e] = p /\ e \in outq \cup posted_sends => Sig[e] \in LvtBounds(p)
    BY DEF LvtBounds, OutqOf, PostedBy
  <2> QED BY <2>1, <2>2, <2>3, <2>4
<1>6. m \in Nat
  BY <1>t, <1>1 DEF LvtBounds, TypeOK, In, OutqOf, PostedBy, NetTypeOK
<1>7. ASSUME NEW q \in PE PROVE GVT_sig[q] <= m
  <2>1. Floor(GVT_sig[q])
    BY DEF GvtInv
  <2>2. /\ GVT_sig[q] <= MaxSig /\ GVT_sig[q] <= trans_msg_sig[p]
        /\ \A e \in Event : loc[e] = "pq" \/ e \in outq \cup posted_sends => GVT_sig[q] <= Sig[e]
    BY <2>1 DEF Floor, Active, Pending
  <2>3. \A b \in LvtBounds(p) : GVT_sig[q] <= b
    <3>1. \A e \in In(p, "pq") \cup OutqOf(p) \cup PostedBy(p) : GVT_sig[q] <= Sig[e]
      BY <2>2, <1>t DEF In, OutqOf, PostedBy, TypeOK, NetTypeOK
    <3> QED BY <2>2, <3>1 DEF LvtBounds
  <2> QED BY <1>1, <2>3
<1>8. \A e \in Event : Dst[e] = p /\ (loc[e] = "event_q" \/ e \in cancelled)
                          => trans_msg_sig[p] <= Sig[e]
  BY <1>2 DEF GvtInv, TransOK
<1>9. \A e \in Event : Dst[e] = p => loc[e] # "undo"
  <2>1. rb[p] = NoEvent
    BY <1>2, <1>t DEF PhaseInv
  <2>2. \A e \in Event : loc[e] = "undo" => rb[Dst[e]] = e
    BY DEF KernelInv, EventOK
  <2> QED BY <2>1, <2>2
<1>10. \A e \in Event : e \in cancel_asend => e \in posted_sends
  BY <1>t DEF BufferInv, BufferOK
<1>11. ASSUME NEW e \in Event, ActiveAt(p, e) PROVE m <= Sig[e]
  <2>1. trans_msg_sig[p] \in Nat /\ Sig[e] \in Nat
    BY <1>t DEF TypeOK
  <2> QED BY <1>5, <1>6, <1>8, <1>9, <1>10, <1>11, <2>1 DEF ActiveAt
<1>12. LvtOK(p)'
  <2>1. \A e \in Event : ActiveAt(p, e)' => m <= Sig[e]
    BY <1>2, <1>11 DEF ActiveAt
  <2> QED BY <1>2, <1>4, <1>5, <2>1 DEF LvtOK
<1>13. ASSUME NEW q \in PE \ {p} PROVE LvtOK(q)'
  <2>1. LvtOK(q)
    BY DEF GvtInv
  <2> QED BY <1>2, <1>3, <2>1 DEF LvtOK, ActiveAt
<1>14. ASSUME NEW q \in PE PROVE TransOK(q)'
  <2>1. TransOK(q)
    BY DEF GvtInv
  <2> QED BY <1>2, <1>3, <2>1 DEF TransOK
<1>15. ASSUME NEW q \in PE PROVE Floor(GVT_sig[q])'
  <2>1. Floor(GVT_sig[q])
    BY DEF GvtInv
  <2> QED BY <1>2, <2>1 DEF Floor, Active, Pending
<1>16. \A q \in PE : pc'[q] # "update"
  BY <1>2, <1>3, <1>t DEF PhaseInv
<1>17. \A r, q \in PE : pc'[r] \in {"min", "update"} => GVT_sig'[q] <= lvt'[r]
  BY <1>2, <1>3, <1>4, <1>7 DEF GvtInv
<1>18. popped' \subseteq cancelled'
  BY <1>2 DEF GvtInv
<1> QED BY <1>12, <1>13, <1>14, <1>15, <1>16, <1>17, <1>18 DEF GvtInv

\* No message is in the network, so the least of the minima precedes all that
\* is active.
LEMMA GvtMin ==
  ASSUME NetworkInv, KernelInv, GvtInv, [Next]_vars, AllreduceMin
  PROVE  GvtInv'
<1> USE TimeWarpAssumption, NetworkAssumption
<1>t. TypeOK /\ PhaseInv /\ BufferInv
  BY DEF NetworkInv
<1>1. PICK r \in PE : /\ \A p \in PE : lvt[r] <= lvt[p]
                      /\ lvt' = [p \in PE |-> lvt[r]]
  BY DEF AllreduceMin
<1>2. /\ \A p \in PE : pc[p] = "min" /\ pc'[p] = "update"
      /\ UNCHANGED <<outq, posted_sends, cancel_asend, net, loc, cancelled, popped, hand, rb,
                     gvt_status, trans_msg_sig, GVT_sig>>
  BY DEF AllreduceMin, netVars, kernelVars
<1>3. PICK g \in Nat : g = lvt[r]
  BY <1>t DEF TypeOK
<1>4. \A p \in PE : lvt'[p] = g
  BY <1>1, <1>3
<1>5. net = {}
  BY <1>2 DEF NetworkInv, WhiteInv
<1>6. \A p \in PE : lvt[p] \in Nat /\ trans_msg_sig[p] \in Nat
  BY <1>t DEF TypeOK
<1>7. ASSUME NEW e \in Event, NEW p \in PE, ActiveAt(p, e) PROVE g <= Sig[e]
  <2>1. lvt[p] <= Sig[e]
    BY <1>2, <1>7 DEF GvtInv, LvtOK
  <2> QED BY <1>1, <1>3, <1>6, <2>1
<1>8. ASSUME NEW e \in Event, Active(e) PROVE g <= Sig[e]
  <2>1. Src[e] \in PE /\ Dst[e] \in PE
    OBVIOUS
  <2>2. hand[Dst[e]] # e
    BY <1>2, <1>t, <2>1 DEF PhaseInv
  <2>3. ActiveAt(Src[e], e) \/ ActiveAt(Dst[e], e)
    BY <1>5, <1>8, <2>2 DEF Active, Pending, ActiveAt
  <2> QED BY <1>7, <2>1, <2>3
<1>9. g <= MaxSig /\ \A p \in PE : g <= trans_msg_sig[p]
  <2>1. \A p \in PE : lvt[p] <= MaxSig /\ lvt[p] <= trans_msg_sig[p]
    BY <1>2 DEF GvtInv, LvtOK
  <2> QED BY <1>1, <1>3, <1>6, <2>1
<1>10. Floor(g)
  BY <1>8, <1>9 DEF Floor
<1>11. Floor(g)'
  BY <1>2, <1>10 DEF Floor, Active, Pending
<1>12. \A p \in PE : Floor(lvt[p])'
  BY <1>4, <1>11 DEF Floor
<1>13. ASSUME NEW q \in PE PROVE Floor(GVT_sig[q])'
  <2>1. Floor(GVT_sig[q])
    BY DEF GvtInv
  <2> QED BY <1>2, <2>1 DEF Floor, Active, Pending
<1>14. \A p, q \in PE : GVT_sig'[q] <= lvt'[p]
  BY <1>2, <1>3, <1>4 DEF GvtInv
<1>15. \A p \in PE : TransOK(p)' /\ LvtOK(p)'
  BY <1>2 DEF TransOK, LvtOK
<1>16. popped' \subseteq cancelled'
  BY <1>2 DEF GvtInv
<1> QED BY <1>4, <1>12, <1>13, <1>14, <1>15, <1>16 DEF GvtInv

LEMMA GvtUpdate ==
  ASSUME NetworkInv, KernelInv, GvtInv, [Next]_vars, NEW p \in PE, UpdateGVT(p)
  PROVE  GvtInv'
<1> USE TimeWarpAssumption, NetworkAssumption
<1>t. TypeOK /\ PhaseInv
  BY DEF NetworkInv
<1>1. /\ pc[p] = "update"
      /\ trans_msg_sig' = [trans_msg_sig EXCEPT ![p] = MaxSig]
      /\ GVT_sig' = [GVT_sig EXCEPT ![p] = lvt[p]]
      /\ gvt_status' = [gvt_status EXCEPT ![p] = FALSE]
      /\ pc' = [pc EXCEPT ![p] = IF lvt[p] >= MaxSig THEN "done" ELSE "batch"]
      /\ \A e \in Event : loc'[e] = "event_q" => loc[e] = "event_q"
      /\ UNCHANGED <<cancelled, popped, lvt>>
  BY DEF UpdateGVT
<1>2. /\ pc'[p] \in {"done", "batch"} /\ GVT_sig'[p] = lvt[p]
      /\ \A q \in PE \ {p} : /\ pc'[q] = pc[q] /\ GVT_sig'[q] = GVT_sig[q]
                               /\ trans_msg_sig'[q] = trans_msg_sig[q]
                               /\ gvt_status'[q] = gvt_status[q]
  BY <1>1, <1>t DEF TypeOK
<1>3. \A q \in PE : pc[q] \notin {"lvt", "min"}
  BY <1>1, <1>t, NotInMin
<1>4. \A q \in PE : lvt[q] \in Nat /\ GVT_sig[q] \in Nat
  BY <1>t DEF TypeOK
<1>5. ASSUME NEW g \in Nat, Floor(g) PROVE Floor(g)'
  BY <1>5, FloorStep DEF GvtInv
<1>6. ASSUME NEW q \in PE PROVE Floor(GVT_sig[q])'
  <2>1. PICK g \in Nat : g = GVT_sig'[q]
    BY <1>2, <1>4
  <2>2. Floor(g)
    BY <1>1, <1>2, <2>1 DEF GvtInv
  <2>3. Floor(g)'
    BY <1>5, <2>2
  <2> QED BY <2>1, <2>3 DEF Floor
<1>7. ASSUME NEW q \in PE, pc'[q] = "update" PROVE Floor(lvt[q])'
  <2>1. PICK g \in Nat : g = lvt[q]
    BY <1>4
  <2>2. Floor(g)
    BY <1>2, <1>7, <2>1 DEF GvtInv
  <2>3. Floor(g)'
    BY <1>5, <2>2
  <2> QED BY <1>1, <2>1, <2>3 DEF Floor
<1>8. ASSUME NEW q \in PE PROVE TransOK(q)' /\ LvtOK(q)'
  <2>1. TransOK(q)
    BY DEF GvtInv
  <2>2. LvtOK(q)'
    BY <1>2, <1>3 DEF LvtOK
  <2>3. TransOK(q)'
    BY <1>1, <1>2, <2>1 DEF TransOK
  <2> QED BY <2>2, <2>3
<1>9. \A r, q \in PE : pc'[r] \in {"min", "update"} => GVT_sig'[q] <= lvt'[r]
  <2> SUFFICES ASSUME NEW r \in PE, NEW q \in PE, pc'[r] \in {"min", "update"}
               PROVE  GVT_sig'[q] <= lvt'[r]
    OBVIOUS
  <2>1. pc[r] = "update" /\ lvt'[r] = lvt[r]
    BY <1>1, <1>2, <1>3
  <2>2. lvt[r] = lvt[p] /\ GVT_sig[q] <= lvt[r]
    BY <1>1, <2>1 DEF GvtInv
  <2> QED BY <1>2, <1>4, <2>1, <2>2
<1>10. \A r, q \in PE : pc'[r] = "update" /\ pc'[q] = "update" => lvt'[r] = lvt'[q]
  BY <1>1, <1>2 DEF GvtInv
<1>11. popped' \subseteq cancelled'
  BY <1>1 DEF GvtInv
<1> QED BY <1>6, <1>7, <1>8, <1>9, <1>10, <1>11 DEF GvtInv

LEMMA GvtNext ==
  ASSUME NetworkInv, KernelInv, GvtInv, [Next]_vars
  PROVE  GvtInv'
<1>1. ASSUME NEW p \in PE, Service(p) \/ Schedule(p) \/ Batch(p) PROVE GvtInv'
  BY <1>1, GvtService, GvtSchedule, GvtBatch
<1>2. ASSUME NEW p \in PE, Gvt(p) PROVE GvtInv'
  BY <1>2, GvtWhite, GvtLvt, GvtUpdate DEF Gvt
<1>3. CASE AllreduceWhite \/ AllreduceMin
  BY <1>3, GvtWhite, GvtMin
<1>4. CASE UNCHANGED vars
  BY <1>4 DEF vars, netVars, kernelVars, gvtVars, GvtInv, TransOK, LvtOK, ActiveAt,
     Floor, Active, Pending
<1> QED BY <1>1, <1>2, <1>3, <1>4 DEF Next, Terminated

LEMMA GvtInvariant == Spec => [](NetworkInv /\ KernelInv /\ GvtInv)
<1>1. Init => GvtInv
  BY GvtInit
<1>2. NetworkInv /\ KernelInv /\ GvtInv /\ [Next]_vars => GvtInv'
  BY GvtNext
<1> QED BY <1>1, <1>2, KernelInvariant, PTL DEF Spec

\* GVT is a lower bound of everything that is unprocessed, cancelled, under
\* rollback or on its way: no message and no rollback ever reaches below the
\* GVT of any PE, so what tw_pe_fossil_collect commits is final and recv_finish
\* never stops with "Received straggler".
THEOREM GvtLowerBound == Spec => []GvtIsLowerBound
<1>1. GvtInv => GvtIsLowerBound
  BY DEF GvtInv, Floor, Active, GvtIsLowerBound
<1> QED BY <1>1, GvtInvariant, PTL

\* No PE ever adopts a GVT below its previous one: tw_gvt_step2 never stops
\* with "GVT decreased".
THEOREM GvtNeverDecreases == Spec => GvtMonotone
<1>1. ASSUME NetworkInv, GvtInv, [Next]_vars
      PROVE  [\A p \in PE : GVT_sig[p] <= GVT_sig'[p]]_GVT_sig
  <2>1. \/ GVT_sig' = GVT_sig
        \/ \E p \in PE : UpdateGVT(p)
    <3>1. ASSUME NEW p \in PE, Service(p) \/ Batch(p) PROVE GVT_sig' = GVT_sig
      BY <3>1 DEF Service, Batch, SendBegin, SendFinish, ServiceDone, RecvEvent, RecvAnti,
         Process, BatchDone, gvtVars
    <3>2. ASSUME NEW p \in PE, Schedule(p) PROVE GVT_sig' = GVT_sig
      BY <3>2 DEF Schedule, tw_gvt_step1, RollbackNext, RollbackDone, EnqueueHand, EventQDone,
         PopCancelQ, CancelQDone, SchedEvent, SchedCancel, CancelRemote, CancelLocal, gvtVars
    <3>3. ASSUME NEW p \in PE, Gvt(p) PROVE GVT_sig' = GVT_sig \/ UpdateGVT(p)
      BY <3>3 DEF Gvt, EnterWhite, ComputeLvt, gvtVars
    <3>4. CASE AllreduceWhite \/ AllreduceMin \/ UNCHANGED vars
      BY <3>4 DEF AllreduceWhite, AllreduceMin, vars, gvtVars
    <3> QED BY <1>1, <3>1, <3>2, <3>3, <3>4 DEF Next, Terminated
  <2>2. ASSUME NEW p \in PE, UpdateGVT(p) PROVE \A q \in PE : GVT_sig[q] <= GVT_sig'[q]
    <3>1. pc[p] = "update" /\ GVT_sig' = [GVT_sig EXCEPT ![p] = lvt[p]]
      BY <2>2 DEF UpdateGVT
    <3>2. GVT_sig[p] <= lvt[p]
      BY <1>1, <3>1 DEF GvtInv
    <3>3. \A q \in PE : GVT_sig[q] \in Nat
      BY <1>1 DEF NetworkInv, TypeOK
    <3>4. GVT_sig \in [PE -> Nat]
      BY <1>1 DEF NetworkInv, TypeOK
    <3> QED BY <3>1, <3>2, <3>3, <3>4
  <2> QED BY <2>1, <2>2
<1> QED BY <1>1, GvtInvariant, PTL DEF Spec, GvtMonotone

-----------------------------------------------------------------------------
(***************************************************************************)
(* Proof that TimeWarp implements Simulation: fossil collection commits    *)
(* the events of a KP in the order of their signatures, and for good.      *)
(*                                                                         *)
(* The GVT of a PE separates what it has committed from what it may still  *)
(* roll back: the former is below it, the latter is not (CommitInv).  The  *)
(* lower bound keeps it so when an event is processed, the order of        *)
(* pevent_q when the GVT advances.                                         *)
(***************************************************************************)
CommitOK(e) ==
  /\ loc[e] = "committed" => Sig[e] < GVT_sig[Dst[e]]
  /\ loc[e] = "pevent_q" => GVT_sig[Dst[e]] <= Sig[e]

CommitInv == \A e \in Event : CommitOK(e)

-----------------------------------------------------------------------------
\* The life of an event at its destination, whatever the step: it leaves the
\* rollback when all that it has sent is cancelled, and stays where it is
\* once it is committed or freed.
LocStep(e) ==
  \/ loc'[e] = loc[e]
  \/ loc[e] = "none" /\ loc'[e] \in {"pq", "event_q"}
  \/ loc[e] = "event_q" /\ loc'[e] \in {"pq", "anti", "free"}
  \/ loc[e] = "pq" /\ loc'[e] \in {"pevent_q", "free"}
  \/ loc[e] = "pevent_q" /\ loc'[e] = "undo"
  \/ loc[e] = "undo" /\ loc'[e] \in {"pq", "free"} /\ Children(e) = {}
  \/ loc[e] = "anti" /\ loc'[e] = "free"

LEMMA LocLife ==
  ASSUME NetworkInv, KernelInv, [Next]_vars, NEW e \in Event
  PROVE  LocStep(e) \/ \E p \in PE : UpdateGVT(p) /\ e \in Fossils(p, lvt[p])
<1> USE TimeWarpAssumption, NetworkAssumption
<1>t. TypeOK /\ loc \in [Event -> Loc]
  BY DEF NetworkInv, TypeOK
<1>1. ASSUME NEW p \in PE, Service(p) PROVE LocStep(e)
  <2>1. ASSUME NEW x \in Event, RecvEvent(p, x) PROVE LocStep(e)
    <3>1. <<x, "event">> \in net /\ \E l \in {"pq", "event_q"} : loc' = [loc EXCEPT ![x] = l]
      BY <2>1 DEF RecvEvent, NetReceive
    <3>2. loc[x] = "none"
      BY <3>1 DEF KernelInv, EventOK
    <3> QED BY <1>t, <3>1, <3>2 DEF LocStep
  <2>2. loc' = loc \/ \E x \in Event : RecvEvent(p, x)
    BY <1>1 DEF Service, SendBegin, SendFinish, ServiceDone, RecvAnti, kernelVars
  <2> QED BY <2>1, <2>2 DEF LocStep
<1>2. ASSUME NEW p \in PE, Schedule(p) PROVE LocStep(e)
  <2>1. CASE RollbackNext(p)
    <3> DEFINE k == Kp[hand[p]]
               f == pevent_q[k][1]
    <3>1. hand[p] \in Event /\ k \in KP /\ pevent_q[k] # <<>>
      BY <1>t, <2>1 DEF RollbackNext, TypeOK
    <3>2. f \in Event /\ Head(pevent_q[k]) = f /\ 1 \in 1 .. Len(pevent_q[k])
      BY <1>t, <3>1, HeadEvent
    <3>3. loc[f] = "pevent_q"
      BY <3>1, <3>2 DEF KernelInv, QueueOK
    <3>4. loc' = [loc EXCEPT ![f] = "undo"]
      BY <2>1, <3>2 DEF RollbackNext
    <3> QED BY <1>t, <3>2, <3>3, <3>4 DEF LocStep
  <2>2. CASE RollbackDone(p)
    <3>1. /\ loc[rb[p]] = "undo" /\ Children(rb[p]) = {}
          /\ \E l \in {"pq", "free"} : loc' = [loc EXCEPT ![rb[p]] = l]
      BY <2>2 DEF RollbackDone, KernelInv, HandOK
    <3> QED BY <1>t, <3>1 DEF LocStep
  <2>3. CASE EnqueueHand(p)
    <3>1. loc[hand[p]] = "event_q" /\ loc' = [loc EXCEPT ![hand[p]] = "pq"]
      BY <2>3 DEF EnqueueHand, KernelInv, HandOK
    <3> QED BY <1>t, <3>1 DEF LocStep
  <2>4. ASSUME NEW x \in Event, SchedEvent(p, x) PROVE LocStep(e)
    BY <1>t, <2>4 DEF SchedEvent, In, LocStep
  <2>5. ASSUME NEW x \in Event, CancelLocal(p, x) PROVE LocStep(e)
    BY <1>t, <2>5 DEF CancelLocal, LocStep
  <2>6. ASSUME NEW x \in Event, SchedCancel(p, x) PROVE LocStep(e)
    <3>1. CASE loc[x] \in {"event_q", "anti"}
      BY <1>t, <2>6, <3>1 DEF SchedCancel, LocStep
    <3>2. CASE loc[x] \notin {"event_q", "anti"}
      BY <1>t, <2>6, <3>2 DEF SchedCancel, LocStep
    <3> QED BY <3>1, <3>2
  <2>7. CASE \/ tw_gvt_step1(p) \/ EventQDone(p) \/ PopCancelQ(p) \/ CancelQDone(p)
             \/ \E x \in Event : CancelRemote(p, x)
    BY <2>7 DEF tw_gvt_step1, EventQDone, PopCancelQ, CancelQDone, CancelRemote, kernelVars, LocStep
  <2> QED BY <1>2, <2>1, <2>2, <2>3, <2>4, <2>5, <2>6, <2>7 DEF Schedule
<1>3. ASSUME NEW p \in PE, Batch(p) PROVE LocStep(e)
  <2>1. ASSUME NEW x \in Event, Process(p, x) PROVE LocStep(e)
    BY <1>t, <2>1 DEF Process, In, LocStep
  <2> QED BY <1>3, <2>1 DEF Batch, BatchDone, LocStep
<1>4. ASSUME NEW p \in PE, Gvt(p)
      PROVE  LocStep(e) \/ (UpdateGVT(p) /\ e \in Fossils(p, lvt[p]))
  BY <1>4 DEF Gvt, EnterWhite, ComputeLvt, UpdateGVT, kernelVars, LocStep
<1>5. CASE AllreduceWhite \/ AllreduceMin \/ UNCHANGED vars
  BY <1>5 DEF AllreduceWhite, AllreduceMin, vars, kernelVars, LocStep
<1> QED BY <1>1, <1>2, <1>3, <1>4, <1>5 DEF Next, Terminated

\* What a new GVT commits, and what it leaves.
LEMMA FossilsBelow ==
  ASSUME NetworkInv, KernelInv, NEW p \in PE, NEW f \in Event,
         Dst[f] = p, loc[f] = "pevent_q"
  PROVE  f \in Fossils(p, lvt[p]) <=> Sig[f] < lvt[p]
<1> USE TimeWarpAssumption, NetworkAssumption
<1> DEFINE g == lvt[p]
           q == pevent_q[Kp[f]]
           n == Kept(q, g)
<1>1. /\ g \in Nat /\ Kp[f] \in KP /\ Sig[f] \in Nat
      /\ q \in Seq(Event) /\ Len(q) \in Nat
      /\ \A i \in 1 .. Len(q) : q[i] \in Event /\ Sig[q[i]] \in Nat
  BY LenProperties, ElementOfSeq DEF NetworkInv, TypeOK
<1>2. /\ n \in 0 .. Len(q)
      /\ n > 0 => Sig[q[n]] >= g
      /\ \A i \in n + 1 .. Len(q) : Sig[q[i]] < g
  BY <1>1, KeptProperties
<1>3. Sorted(q) /\ EventOK(f)
  BY <1>1 DEF KernelInv, QueueOK
<1>4. PICK i \in 1 .. Len(q) : q[i] = f
  BY <1>3 DEF EventOK
<1>5. f \in Fossils(p, g) <=> \E j \in n + 1 .. Len(q) : q[j] = f
  BY DEF Fossils, In
<1> HIDE DEF q, n, g
<1>6. ASSUME f \in Fossils(p, g) PROVE Sig[f] < g
  BY <1>2, <1>5, <1>6
<1>7. ASSUME f \notin Fossils(p, g) PROVE Sig[f] >= g
  <2>1. i <= n /\ n > 0 /\ n \in 1 .. Len(q)
    BY <1>1, <1>2, <1>4, <1>5, <1>7
  <2>2. CASE i = n
    BY <1>2, <1>4, <2>1, <2>2
  <2>3. CASE i < n
    <3>1. Sig[q[i]] >= Sig[q[n]]
      BY <1>3, <2>1, <2>3 DEF Sorted
    <3> QED BY <1>1, <1>2, <1>4, <2>1, <3>1
  <2> QED BY <1>1, <2>1, <2>2, <2>3
<1> QED BY <1>1, <1>6, <1>7 DEF g

\* The GVT of a PE changes only when it is adopted.
LEMMA GvtStep ==
  ASSUME NetworkInv, GvtInv, [Next]_vars
  PROVE  /\ \A p \in PE : GVT_sig[p] <= GVT_sig'[p]
         /\ \A p \in PE : GVT_sig'[p] = GVT_sig[p] \/ (UpdateGVT(p) /\ GVT_sig'[p] = lvt[p])
<1>t. GVT_sig \in [PE -> Nat] /\ lvt \in [PE -> Nat]
  BY DEF NetworkInv, TypeOK
<1>1. GVT_sig' = GVT_sig \/ \E p \in PE : UpdateGVT(p)
  <2>1. ASSUME NEW p \in PE, Service(p) \/ Batch(p) PROVE GVT_sig' = GVT_sig
    BY <2>1 DEF Service, Batch, SendBegin, SendFinish, ServiceDone, RecvEvent, RecvAnti,
       Process, BatchDone, gvtVars
  <2>2. ASSUME NEW p \in PE, Schedule(p) PROVE GVT_sig' = GVT_sig
    BY <2>2 DEF Schedule, tw_gvt_step1, RollbackNext, RollbackDone, EnqueueHand, EventQDone,
       PopCancelQ, CancelQDone, SchedEvent, SchedCancel, CancelRemote, CancelLocal, gvtVars
  <2>3. ASSUME NEW p \in PE, Gvt(p) PROVE GVT_sig' = GVT_sig \/ UpdateGVT(p)
    BY <2>3 DEF Gvt, EnterWhite, ComputeLvt, gvtVars
  <2>4. CASE AllreduceWhite \/ AllreduceMin \/ UNCHANGED vars
    BY <2>4 DEF AllreduceWhite, AllreduceMin, vars, gvtVars
  <2> QED BY <2>1, <2>2, <2>3, <2>4 DEF Next, Terminated
<1>2. ASSUME NEW p \in PE, UpdateGVT(p)
      PROVE  GVT_sig' = [GVT_sig EXCEPT ![p] = lvt[p]] /\ GVT_sig[p] <= lvt[p]
  BY <1>2 DEF UpdateGVT, GvtInv
<1> QED BY <1>t, <1>1, <1>2

-----------------------------------------------------------------------------
LEMMA CommitInit == Init => CommitInv
  BY DEF Init, CommitInv, CommitOK

LEMMA CommitNext ==
  ASSUME NetworkInv, KernelInv, GvtInv, CommitInv, [Next]_vars
  PROVE  CommitInv'
<1> USE TimeWarpAssumption, NetworkAssumption
<1> SUFFICES ASSUME NEW e \in Event PROVE CommitOK(e)'
  BY DEF CommitInv
<1> DEFINE d == Dst[e]
<1>1. /\ d \in PE /\ Sig[e] \in Nat /\ GVT_sig[d] \in Nat /\ GVT_sig'[d] \in Nat
      /\ GVT_sig[d] <= GVT_sig'[d]
      /\ GVT_sig'[d] = GVT_sig[d] \/ (UpdateGVT(d) /\ GVT_sig'[d] = lvt[d])
  BY TypeNext, GvtStep DEF NetworkInv, TypeOK
<1>2. CommitOK(e)
  BY DEF CommitInv
<1>3. ASSUME NEW p \in PE, UpdateGVT(p)
      PROVE  /\ e \in Fossils(p, lvt[p]) => loc[e] = "pevent_q" /\ d = p /\ loc'[e] = "committed"
             /\ e \notin Fossils(p, lvt[p]) => loc'[e] = loc[e]
             /\ GVT_sig'[p] = lvt[p]
  BY <1>3 DEF UpdateGVT, Fossils, In, NetworkInv, TypeOK
<1>4. ASSUME loc'[e] = "committed" PROVE Sig[e] < GVT_sig'[d]
  <2>1. CASE loc[e] = "committed"
    BY <1>1, <1>2, <2>1 DEF CommitOK
  <2>2. CASE loc[e] # "committed"
    <3>1. PICK p \in PE : UpdateGVT(p) /\ e \in Fossils(p, lvt[p])
      BY <1>4, <2>2, LocLife DEF LocStep
    <3> QED BY <1>3, <3>1, FossilsBelow
  <2> QED BY <2>1, <2>2
<1>5. ASSUME loc'[e] = "pevent_q" PROVE GVT_sig'[d] <= Sig[e]
  <2>1. CASE GVT_sig'[d] = GVT_sig[d] /\ loc[e] = "pevent_q"
    BY <1>2, <2>1 DEF CommitOK
  <2>2. CASE UpdateGVT(d)
    <3>1. loc[e] = "pevent_q" /\ e \notin Fossils(d, lvt[d]) /\ GVT_sig'[d] = lvt[d]
      BY <1>3, <1>5, <2>2
    <3>2. lvt[d] \in Nat
      BY DEF NetworkInv, TypeOK
    <3> QED BY <1>1, <3>1, <3>2, FossilsBelow
  <2>3. CASE GVT_sig'[d] = GVT_sig[d] /\ loc[e] # "pevent_q"
    <3>1. loc[e] = "pq"
      BY <1>3, <1>5, <2>3, LocLife DEF LocStep
    <3> QED BY <2>3, <3>1 DEF GvtInv, Floor, Active
  <2> QED BY <1>1, <2>1, <2>2, <2>3
<1> QED BY <1>4, <1>5 DEF CommitOK

LEMMA CommitInvariant == Spec => [](NetworkInv /\ KernelInv /\ GvtInv /\ CommitInv)
<1>1. Init => CommitInv
  BY CommitInit
<1>2. NetworkInv /\ KernelInv /\ GvtInv /\ CommitInv /\ [Next]_vars => CommitInv'
  BY CommitNext
<1> QED BY <1>1, <1>2, GvtInvariant, PTL DEF Spec

\* The optimistic scheduler implements the simulation: under the mapping of
\* done to the events that tw_pe_fossil_collect has committed, every step of
\* TimeWarp commits some events, none into the past of its KP, or none at all,
\* and what is committed stays so.
THEOREM ImplementsSimulation == Spec => IsSimulation
<1> DEFINE done == {e \in Event : loc[e] = "committed"}
<1>1. Init => SIM!Init
  BY DEF Init, SIM!Init
<1>2. ASSUME NetworkInv, KernelInv, GvtInv, CommitInv, [Next]_vars
      PROVE  SIM!Commit
  <2> USE TimeWarpAssumption, NetworkAssumption
  <2>1. done \subseteq done'
    <3> SUFFICES ASSUME NEW e \in Event, loc[e] = "committed" PROVE loc'[e] = "committed"
      OBVIOUS
    <3>1. CASE LocStep(e)
      BY <3>1 DEF LocStep
    <3>2. CASE \E p \in PE : UpdateGVT(p) /\ e \in Fossils(p, lvt[p])
      BY <3>2 DEF UpdateGVT
    <3> QED BY <1>2, <3>1, <3>2, LocLife
  <2>2. ASSUME NEW e \in done' \ done, NEW f \in done, Kp[e] = Kp[f] PROVE Sig[f] <= Sig[e]
    <3>1. e \in Event /\ f \in Event /\ Dst[e] = Dst[f] /\ loc[f] = "committed"
      BY <2>2, EventAssumption
    <3>2. PICK p \in PE : UpdateGVT(p) /\ e \in Fossils(p, lvt[p])
      BY <1>2, <2>2, LocLife DEF LocStep
    <3>3. loc[e] = "pevent_q"
      BY <3>2 DEF Fossils, In
    <3>4. GVT_sig[Dst[e]] <= Sig[e] /\ Sig[f] < GVT_sig[Dst[e]]
      BY <1>2, <3>1, <3>3 DEF CommitInv, CommitOK
    <3>5. GVT_sig[Dst[e]] \in Nat /\ Sig[e] \in Nat /\ Sig[f] \in Nat
      BY <1>2, <3>1 DEF NetworkInv, TypeOK
    <3> QED BY <3>4, <3>5
  <2> QED BY <2>1, <2>2 DEF SIM!Commit
<1> QED BY <1>1, <1>2, CommitInvariant, PTL DEF Spec, IsSimulation, SIM!Spec
-----------------------------------------------------------------------------
\* The sender's side: which events have a buffer there, and what a cancelled
\* or a linked one can be.
SentOK(e) ==
  /\ owner[e] # "none" => e \in Remote
  /\ e \in cancel_q => \/ owner[e] \in {"asend", "sevent"} /\ e \in outq
                       \/ owner[e] \in {"acancel", "free"}
  /\ e \in caused /\ e \in Remote => owner[e] \in {"outq", "asend", "sevent"}

Live == {"pq", "event_q", "pevent_q", "undo"}

\* tw_sched_cancel_q works on e.
InCancel(e) == hand[Dst[e]] = e /\ pc[Dst[e]] = "cancel_q"

\* The cancel of e has reached it.
Undone(e) == e \in cancelled \/ InCancel(e) \/ loc[e] \in {"anti", "free"}

\* An anti-message that is sent now will find e.
Found(e) == <<e, "event">> \in net \/ (e \in hash /\ loc[e] \in Live)

LifeOK(e) ==
  /\ Undone(e) => /\ e \notin caused
                  /\ owner[e] \in {"none", "acancel", "free"}
                  /\ <<e, "event">> \notin net /\ <<e, "anti">> \notin net
  /\ e \in caused /\ e \notin Remote => loc[e] \in Live \cup {"committed"}
  /\ e \in cancelled => loc[e] \notin {"none", "free", "committed"} /\ ~InCancel(e)
  /\ owner[e] \in {"asend", "sevent"}
       => Found(e) \/ (loc[e] = "committed" /\ e \notin cancel_q \cup cancel_asend)
  /\ <<e, "anti">> \in net => Found(e)

SentInv == \A e \in Event : SentOK(e)

LifeInv == \A e \in Event : LifeOK(e)

-----------------------------------------------------------------------------
LEMMA SentInit == Init => SentInv
  BY DEF Init, NetInit, SentInv, SentOK

LEMMA SentNext == NetworkInv /\ SentInv /\ [Next]_vars => SentInv'
<1> SUFFICES ASSUME NetworkInv, SentInv, [Next]_vars, NEW f \in Event PROVE SentOK(f)'
  BY DEF SentInv
<1>f. SentOK(f) /\ BufferOK(f)
  BY DEF NetworkInv, SentInv, BufferInv
<1>t. owner \in [Event -> Owner]
  BY DEF NetworkInv, TypeOK, NetTypeOK
<1>0. CASE UNCHANGED <<owner, cancel_q, outq, caused>>
  BY <1>0, <1>f DEF SentOK
<1>1. ASSUME NEW p \in PE, Service(p) PROVE SentOK(f)'
  <2>1. ASSUME NEW e \in Event, send_begin(e), caused' = caused PROVE SentOK(f)'
    <3>1. CASE e = f
      BY <1>f, <1>t, <2>1, <3>1 DEF send_begin, SentOK, BufferOK
    <3>2. CASE e # f
      BY <1>f, <1>t, <2>1, <3>2 DEF send_begin, SentOK
    <3> QED BY <3>1, <3>2
  <2>2. ASSUME NEW e \in Event, send_finish(e), caused' = caused PROVE SentOK(f)'
    <3>1. CASE e = f
      BY <1>f, <1>t, <2>2, <3>1 DEF send_finish, SentOK, BufferOK
    <3>2. CASE e # f
      BY <1>f, <1>t, <2>2, <3>2 DEF send_finish, SentOK
    <3> QED BY <3>1, <3>2
  <2>3. \/ \E e \in Event : (send_begin(e) \/ send_finish(e)) /\ caused' = caused
        \/ UNCHANGED <<owner, cancel_q, outq, caused>>
    BY <1>1 DEF Service, SendBegin, SendFinish, ServiceDone, RecvEvent, RecvAnti, NetReceive,
       netVars, kernelVars
  <2> QED BY <1>0, <2>1, <2>2, <2>3
<1>2. ASSUME NEW p \in PE, Schedule(p) PROVE SentOK(f)'
  <2>1. ASSUME NEW e \in Event, CancelRemote(p, e) PROVE SentOK(f)'
    <3>1. tw_net_cancel(e) /\ caused' = caused \ {e} /\ e \in Remote
      BY <2>1 DEF CancelRemote
    <3>2. CASE e = f
      BY <1>f, <1>t, <3>1, <3>2 DEF tw_net_cancel, SentOK, BufferOK
    <3>3. CASE e # f
      BY <1>f, <1>t, <3>1, <3>3 DEF tw_net_cancel, SentOK
    <3> QED BY <3>2, <3>3
  <2>2. \/ \E e \in Event : CancelRemote(p, e)
        \/ UNCHANGED <<owner, cancel_q, outq>> /\ caused' \subseteq caused
    BY <1>2 DEF Schedule, tw_gvt_step1, RollbackNext, RollbackDone, EnqueueHand, EventQDone,
         PopCancelQ, CancelQDone, SchedEvent, SchedCancel, CancelLocal, kernelVars, netVars
  <2> QED BY <1>f, <2>1, <2>2 DEF SentOK
<1>3. ASSUME NEW p \in PE, Batch(p) PROVE SentOK(f)'
  <2>1. ASSUME NEW e \in Event, Process(p, e) PROVE SentOK(f)'
    <3>1. PICK K \in SUBSET {c \in Event \ Root : owner[c] = "none"} :
            tw_net_send(K \cap Remote) /\ caused' = caused \cup K
      BY <2>1 DEF Process
    <3> QED BY <1>f, <1>t, <3>1 DEF tw_net_send, SentOK, BufferOK
  <2> QED BY <1>0, <1>3, <2>1 DEF Batch, BatchDone, netVars
<1>4. ASSUME NEW p \in PE, Gvt(p) PROVE SentOK(f)'
  <2>1. ASSUME UpdateGVT(p) PROVE SentOK(f)'
    <3>1. PICK C \in SUBSET caused : FreeSent(C) /\ caused' = caused \ C
      BY <2>1 DEF UpdateGVT
    <3>2. UNCHANGED <<cancel_q, outq>>
      BY <2>1 DEF UpdateGVT
    <3> QED BY <1>f, <1>t, <3>1, <3>2 DEF FreeSent, SentOK, BufferOK
  <2> QED BY <1>0, <1>4, <2>1 DEF Gvt, EnterWhite, ComputeLvt, kernelVars, netVars
<1>5. CASE AllreduceWhite \/ AllreduceMin \/ UNCHANGED vars
  BY <1>0, <1>5 DEF AllreduceWhite, AllreduceMin, vars, kernelVars, netVars
<1> QED BY <1>1, <1>2, <1>3, <1>4, <1>5 DEF Next, Terminated

-----------------------------------------------------------------------------
LEMMA LifeInit == Init => LifeInv
<1> SUFFICES ASSUME Init, NEW e \in Event PROVE LifeOK(e)
  BY DEF LifeInv
<1>1. hand[Dst[e]] = NoEvent /\ NoEvent # e
  BY TimeWarpAssumption, NetworkAssumption DEF Init
<1>2. loc[e] \in {"pq", "none"} /\ caused = {} /\ cancelled = {} /\ net = {} /\ owner[e] = "none"
  BY DEF Init, NetInit
<1> QED BY <1>1, <1>2 DEF LifeOK, Undone, InCancel

\* What a step leaves of f, apart from its place and its link.
Untouched(f) ==
  /\ owner'[f] = owner[f]
  /\ f \in hash' <=> f \in hash
  /\ f \in cancelled' <=> f \in cancelled
  /\ f \in cancel_q' <=> f \in cancel_q
  /\ f \in cancel_asend' <=> f \in cancel_asend
  /\ <<f, "event">> \in net' <=> <<f, "event">> \in net
  /\ <<f, "anti">> \in net' <=> <<f, "anti">> \in net
  /\ InCancel(f)' => InCancel(f)

LEMMA LifeSame ==
  ASSUME NEW f \in Event, LifeOK(f), Untouched(f), loc'[f] = loc[f], f \in caused' => f \in caused
  PROVE  LifeOK(f)'
<1>1. Undone(f)' => Undone(f)
  BY DEF Undone, Untouched
<1>2. Found(f)' <=> Found(f)
  BY DEF Found, Untouched
<1> QED BY <1>1, <1>2 DEF LifeOK, Untouched

\* A step from queue to queue.
LEMMA LifeMove ==
  ASSUME NEW f \in Event, LifeOK(f), Untouched(f), loc[f] \in Live, loc'[f] \in Live,
         f \in caused' => f \in caused
  PROVE  LifeOK(f)'
<1>1. Undone(f)' => Undone(f)
  BY DEF Undone, Untouched, Live
<1>2. Found(f)' <=> Found(f)
  BY DEF Found, Untouched
<1> QED BY <1>1, <1>2 DEF LifeOK, Untouched, Live

LEMMA LifeService ==
  ASSUME NetworkInv, KernelInv, SentInv, LifeInv, NEW p \in PE, Service(p), NEW f \in Event
  PROVE  LifeOK(f)'
<1> USE TimeWarpAssumption, NetworkAssumption
<1>f. LifeOK(f) /\ SentOK(f) /\ BufferOK(f) /\ EventOK(f)
  BY DEF LifeInv, SentInv, NetworkInv, BufferInv, KernelInv
<1>t. TypeOK /\ loc \in [Event -> Loc] /\ owner \in [Event -> Owner]
  BY DEF NetworkInv, TypeOK, NetTypeOK
<1>1. CASE SendBegin(p)
  <2>1. PICK e \in Event : send_begin(e)
    BY <1>1 DEF SendBegin
  <2>2. UNCHANGED <<loc, hash, caused, cancelled, hand, pc>>
    BY <1>1 DEF SendBegin, kernelVars
  <2>3. CASE e = f
    <3>1. f \in outq /\ ~Undone(f) /\ ~Undone(f)'
      BY <1>f, <2>1, <2>2, <2>3 DEF send_begin, LifeOK, BufferOK, Undone, InCancel
    <3>2. CASE f \in cancel_q
      <4>1. Found(f)
        BY <1>f, <3>1, <3>2 DEF LifeOK, BufferOK
      <4>2. Found(f)'
        BY <2>1, <2>2, <4>1 DEF send_begin, Found
      <4>3. owner'[f] = "acancel"
        BY <1>t, <2>1, <2>3, <3>2 DEF send_begin
      <4> QED BY <1>f, <2>2, <3>1, <4>2, <4>3 DEF LifeOK, InCancel
    <3>3. CASE f \notin cancel_q
      <4>1. Found(f)'
        BY <2>1, <2>3, <3>3 DEF send_begin, MsgOf, Found
      <4> QED BY <1>f, <2>2, <3>1, <4>1 DEF LifeOK, InCancel
    <3> QED BY <3>2, <3>3
  <2>4. CASE e # f
    <3>1. Untouched(f)
      BY <1>t, <2>1, <2>2, <2>4 DEF send_begin, MsgOf, Untouched, InCancel
    <3> QED BY <1>f, <2>2, <3>1, LifeSame
  <2> QED BY <2>3, <2>4
<1>2. CASE SendFinish(p)
  <2>1. PICK e \in Event : send_finish(e)
    BY <1>2 DEF SendFinish
  <2>2. UNCHANGED <<loc, hash, caused, cancelled, hand, pc>>
    BY <1>2 DEF SendFinish, kernelVars
  <2>3. CASE e = f
    <3>1. /\ Undone(f)' <=> Undone(f)
          /\ Found(f)' <=> Found(f)
          /\ InCancel(f)' <=> InCancel(f)
          /\ net' = net
      BY <2>1, <2>2 DEF send_finish, Undone, InCancel, Found
    <3>2. \/ owner'[f] = "asend" /\ owner[f] = "asend" /\ f \in cancel_asend
          \/ owner'[f] = "sevent" /\ owner[f] = "asend" /\ UNCHANGED <<cancel_q, cancel_asend>>
          \/ owner'[f] = "free"
      BY <1>t, <2>1, <2>3 DEF send_finish
    <3> QED BY <1>f, <2>2, <3>1, <3>2 DEF LifeOK
  <2>4. CASE e # f
    <3>1. Untouched(f)
      BY <1>t, <2>1, <2>2, <2>4 DEF send_finish, Untouched, InCancel
    <3> QED BY <1>f, <2>2, <3>1, LifeSame
  <2> QED BY <2>3, <2>4
<1>3. CASE ServiceDone(p)
  <2>1. Untouched(f) /\ UNCHANGED <<loc, caused>>
    BY <1>3 DEF ServiceDone, kernelVars, netVars, Untouched, InCancel
  <2> QED BY <1>f, <2>1, LifeSame
<1>4. ASSUME NEW e \in Event, RecvEvent(p, e) PROVE LifeOK(f)'
  <2>1. /\ <<e, "event">> \in net /\ net' = net \ {<<e, "event">>} /\ hash' = hash \cup {e}
        /\ \E l \in {"pq", "event_q"} : loc' = [loc EXCEPT ![e] = l]
        /\ UNCHANGED <<owner, cancel_q, cancel_asend, caused, cancelled, hand, pc>>
    BY <1>4 DEF RecvEvent, NetReceive
  <2>2. CASE e = f
    <3>1. ~Undone(f)
      BY <1>f, <2>1, <2>2 DEF LifeOK
    <3>2. loc'[f] \in {"pq", "event_q"} /\ f \in hash'
      BY <1>t, <2>1, <2>2
    <3>3. ~Undone(f)' /\ Found(f)' /\ ~InCancel(f)'
      BY <2>1, <3>1, <3>2 DEF Undone, InCancel, Found, Live
    <3> QED BY <1>f, <2>1, <3>2, <3>3 DEF LifeOK, Live
  <2>3. CASE e # f
    <3>1. Untouched(f) /\ loc'[f] = loc[f]
      BY <1>t, <2>1, <2>3 DEF Untouched, InCancel
    <3> QED BY <1>f, <2>1, <3>1, LifeSame
  <2> QED BY <2>2, <2>3
<1>5. ASSUME NEW e \in Event, RecvAnti(p, e) PROVE LifeOK(f)'
  <2>1. /\ <<e, "anti">> \in net /\ <<e, "event">> \notin net /\ net' = net \ {<<e, "anti">>}
        /\ hash' = hash \ {e} /\ cancelled' = cancelled \cup {e}
        /\ UNCHANGED <<owner, cancel_q, cancel_asend, caused, loc, hand, pc>>
    BY <1>5 DEF RecvAnti, NetReceive
  <2>2. CASE e = f
    <3>1. owner[f] \in {"acancel", "free"} /\ f \in Remote /\ f \notin caused
      BY <1>f, <2>1, <2>2 DEF BufferOK, SentOK
    <3>2. loc[f] \in Live /\ ~InCancel(f) /\ ~InCancel(f)'
      BY <1>f, <2>1, <2>2 DEF LifeOK, Found, Undone, InCancel
    <3> QED BY <2>1, <2>2, <3>1, <3>2 DEF LifeOK, Live
  <2>3. CASE e # f
    <3>1. Untouched(f)
      BY <2>1, <2>3 DEF Untouched, InCancel
    <3> QED BY <1>f, <2>1, <3>1, LifeSame
  <2> QED BY <2>2, <2>3
<1> QED BY <1>1, <1>2, <1>3, <1>4, <1>5 DEF Service

\* What an event under rollback has sent is not committed.
LEMMA ChildrenLate ==
  ASSUME NetworkInv, KernelInv, GvtInv, CommitInv, NEW p \in PE, rb[p] # NoEvent,
         NEW c \in Children(rb[p])
  PROVE  c \in Event /\ c \in caused /\ loc[c] # "committed"
<1> USE TimeWarpAssumption, NetworkAssumption
<1>1. c \in Event \ Root /\ c \in caused /\ Parent[c] = rb[p]
  BY DEF NetworkInv, TypeOK, BufferInv, BufferOK, Children
<1>2. rb[p] \in Event /\ loc[rb[p]] = "undo" /\ Dst[c] \in PE
  BY <1>1 DEF NetworkInv, TypeOK, KernelInv, HandOK
<1>3. GVT_sig[Dst[c]] <= Sig[rb[p]]
  BY <1>2 DEF GvtInv, Floor, Active
<1>4. Sig[rb[p]] < Sig[c]
  BY <1>1, EventAssumption
<1>5. loc[c] = "committed" => Sig[c] < GVT_sig[Dst[c]]
  BY <1>1 DEF CommitInv, CommitOK
<1>6. GVT_sig[Dst[c]] \in Nat /\ Sig[c] \in Nat /\ Sig[rb[p]] \in Nat
  BY <1>1, <1>2 DEF NetworkInv, TypeOK
<1> QED BY <1>1, <1>3, <1>4, <1>5, <1>6

LEMMA LifeSchedule ==
  ASSUME NetworkInv, KernelInv, GvtInv, CommitInv, SentInv, LifeInv,
         NEW p \in PE, Schedule(p), NEW f \in Event
  PROVE  LifeOK(f)'
<1> USE TimeWarpAssumption, NetworkAssumption
<1>f. LifeOK(f) /\ SentOK(f) /\ BufferOK(f) /\ EventOK(f)
  BY DEF LifeInv, SentInv, NetworkInv, BufferInv, KernelInv
<1>t. /\ TypeOK /\ PhaseInv
      /\ loc \in [Event -> Loc] /\ owner \in [Event -> Owner]
      /\ hand \in [PE -> Event \cup {NoEvent}] /\ pc \in [PE -> PC]
  BY DEF NetworkInv, TypeOK, NetTypeOK
<1>1. CASE tw_gvt_step1(p) \/ EventQDone(p) \/ CancelQDone(p)
  <2>1. /\ hand[p] = NoEvent
        /\ UNCHANGED <<netVars, kernelVars>> /\ \E c \in PC : pc' = [pc EXCEPT ![p] = c]
    BY <1>1, <1>t DEF tw_gvt_step1, EventQDone, CancelQDone, PhaseInv, PC
  <2>2. InCancel(f)' => InCancel(f)
    BY <1>t, <2>1 DEF InCancel, kernelVars
  <2>3. Untouched(f) /\ UNCHANGED <<loc, caused>>
    BY <2>1, <2>2 DEF Untouched, netVars, kernelVars
  <2> QED BY <1>f, <2>3, LifeSame
<1>2. CASE PopCancelQ(p)
  <2>1. Untouched(f) /\ UNCHANGED <<loc, caused>>
    BY <1>2 DEF PopCancelQ, Untouched, netVars, InCancel
  <2> QED BY <1>f, <2>1, LifeSame
<1>3. CASE RollbackNext(p)
  <2> DEFINE k == Kp[hand[p]]
             x == pevent_q[k][1]
  <2>1. Untouched(f) /\ UNCHANGED caused
    BY <1>3 DEF RollbackNext, Untouched, netVars, InCancel
  <2>2. hand[p] \in Event /\ k \in KP /\ pevent_q[k] # <<>>
    BY <1>t, <1>3 DEF RollbackNext
  <2>3. x \in Event /\ Head(pevent_q[k]) = x /\ 1 \in 1 .. Len(pevent_q[k])
    BY <1>t, <2>2, HeadEvent
  <2>4. loc[x] = "pevent_q" /\ loc' = [loc EXCEPT ![x] = "undo"]
    BY <1>3, <2>2, <2>3 DEF RollbackNext, KernelInv, QueueOK
  <2>5. loc'[f] = loc[f] \/ (loc[f] \in Live /\ loc'[f] \in Live)
    BY <1>t, <2>3, <2>4 DEF Live
  <2> QED BY <1>f, <2>1, <2>5, LifeSame, LifeMove
<1>4. CASE RollbackDone(p)
  <2> DEFINE x == rb[p]
             mine == pc[p] = "cancel_q" /\ rb[p] = hand[p]
  <2>1. /\ x \in Event /\ loc[x] = "undo" /\ Dst[x] = p
        /\ UNCHANGED <<netVars, hash, caused, cancelled, pc>>
    BY <1>4, <1>t DEF RollbackDone, TypeOK, KernelInv, HandOK
  <2>2. /\ loc' = [loc EXCEPT ![x] = IF mine THEN "free" ELSE "pq"]
        /\ hand' = IF mine THEN [hand EXCEPT ![p] = NoEvent] ELSE hand
    BY <1>4 DEF RollbackDone
  <2>3. Untouched(f)
    BY <1>t, <2>1, <2>2 DEF Untouched, netVars, InCancel
  <2>4. CASE f # x
    BY <1>f, <1>t, <2>1, <2>2, <2>3, <2>4, LifeSame
  <2>5. CASE f = x /\ ~mine
    <3>1. loc[f] \in Live /\ loc'[f] \in Live
      BY <1>t, <2>1, <2>2, <2>5 DEF Live
    <3> QED BY <1>f, <2>1, <2>3, <3>1, LifeMove
  <2>6. CASE f = x /\ mine
    <3>1. InCancel(f) /\ loc'[f] = "free" /\ ~InCancel(f)'
      BY <1>t, <2>1, <2>2, <2>6 DEF InCancel
    <3> QED BY <1>f, <2>1, <3>1 DEF LifeOK, Undone, netVars
  <2> QED BY <2>4, <2>5, <2>6
<1>5. CASE EnqueueHand(p)
  <2> DEFINE x == hand[p]
  <2>1. /\ x \in Event /\ loc[x] = "event_q" /\ Dst[x] = p
        /\ UNCHANGED <<netVars, hash, caused, cancelled, pc>>
        /\ loc' = [loc EXCEPT ![x] = "pq"] /\ hand' = [hand EXCEPT ![p] = NoEvent]
    BY <1>5, <1>t DEF EnqueueHand, KernelInv, HandOK
  <2>2. Untouched(f)
    BY <1>t, <2>1 DEF Untouched, netVars, InCancel
  <2>3. loc'[f] = loc[f] \/ (loc[f] \in Live /\ loc'[f] \in Live)
    BY <1>t, <2>1 DEF Live
  <2> QED BY <1>f, <2>1, <2>2, <2>3, LifeSame, LifeMove
<1>6. ASSUME NEW e \in Event, SchedEvent(p, e) PROVE LifeOK(f)'
  <2>1. /\ UNCHANGED <<netVars, hash, caused, cancelled, pc>>
        /\ pc[p] = "event_q" /\ loc[e] = "event_q" /\ Dst[e] = p
    BY <1>6 DEF SchedEvent, In
  <2>2. hand' = hand \/ hand' = [hand EXCEPT ![p] = e]
    BY <1>6 DEF SchedEvent
  <2>3. Untouched(f)
    BY <1>t, <2>1, <2>2 DEF Untouched, netVars, InCancel
  <2>4. CASE f = e /\ e \in cancelled
    <3>1. loc'[f] = "anti"
      BY <1>6, <1>t, <2>4 DEF SchedEvent
    <3>2. Undone(f) /\ ~InCancel(f)'
      BY <1>f, <2>3, <2>4 DEF Undone, LifeOK, Untouched
    <3> QED BY <1>f, <2>1, <3>1, <3>2 DEF LifeOK, netVars
  <2>5. CASE ~(f = e /\ e \in cancelled)
    <3>1. loc'[f] = loc[f] \/ (loc[f] \in Live /\ loc'[f] \in Live)
      BY <1>6, <1>t, <2>1, <2>5 DEF SchedEvent, Live
    <3> QED BY <1>f, <2>1, <2>3, <3>1, LifeSame, LifeMove
  <2> QED BY <2>4, <2>5
<1>7. ASSUME NEW c \in Event, CancelRemote(p, c) PROVE LifeOK(f)'
  <2>1. /\ tw_net_cancel(c) /\ caused' = caused \ {c} /\ rb[p] # NoEvent /\ c \in Children(rb[p])
        /\ UNCHANGED <<loc, hash, cancelled, hand, pc>>
    BY <1>7 DEF CancelRemote
  <2>2. loc[c] # "committed" /\ c \in caused
    BY <2>1, ChildrenLate
  <2>3. net' = net
    BY <2>1 DEF tw_net_cancel
  <2>4. CASE c = f
    <3>1. ~Undone(f) /\ ~Undone(f)' /\ ~InCancel(f)' /\ f \notin caused'
      BY <1>f, <2>1, <2>2, <2>4 DEF LifeOK, Undone, InCancel
    <3>2. CASE owner[f] = "outq"
      <4>1. owner'[f] = "free" /\ <<f, "anti">> \notin net
        BY <1>f, <1>t, <2>1, <2>4, <3>2 DEF tw_net_cancel, BufferOK
      <4> QED BY <1>f, <2>1, <2>3, <3>1, <4>1 DEF LifeOK, Undone
    <3>3. CASE owner[f] # "outq"
      <4>1. owner'[f] = owner[f]
        BY <1>t, <2>1, <2>4, <3>3 DEF tw_net_cancel
      <4>2. Found(f)' <=> Found(f)
        BY <2>1, <2>3 DEF Found
      <4> QED BY <1>f, <2>1, <2>2, <2>3, <2>4, <3>1, <4>1, <4>2 DEF LifeOK, Undone
    <3> QED BY <3>2, <3>3
  <2>5. CASE c # f
    <3>1. Untouched(f)
      BY <1>t, <2>1, <2>5 DEF Untouched, InCancel, tw_net_cancel
    <3> QED BY <1>f, <2>1, <3>1, LifeSame
  <2> QED BY <2>4, <2>5
<1>8. ASSUME NEW c \in Event, CancelLocal(p, c) PROVE LifeOK(f)'
  <2>1. /\ caused' = caused \ {c} /\ c \in caused \ Remote
        /\ UNCHANGED <<netVars, hash, hand, pc>>
    BY <1>8 DEF CancelLocal, Children
  <2>2. CASE c = f
    <3>1. ~Undone(f) /\ ~InCancel(f)'
      BY <1>f, <2>1, <2>2 DEF LifeOK, Undone, InCancel
    <3>2. owner[f] = "none" /\ <<f, "event">> \notin net /\ <<f, "anti">> \notin net
      BY <1>f, <2>1, <2>2 DEF SentOK, BufferOK
    <3>3. \/ loc'[f] = "free" /\ f \notin cancelled'
          \/ loc'[f] \in {"event_q", "pevent_q"}
      BY <1>8, <1>t, <2>2, <3>1 DEF CancelLocal, Undone
    <3> QED BY <2>1, <2>2, <3>1, <3>2, <3>3 DEF LifeOK, netVars
  <2>3. CASE c # f
    <3>1. Untouched(f) /\ loc'[f] = loc[f]
      BY <1>8, <1>t, <2>1, <2>3 DEF CancelLocal, Untouched, InCancel, netVars
    <3> QED BY <1>f, <2>1, <3>1, LifeSame
  <2> QED BY <2>2, <2>3
<1>9. ASSUME NEW e \in Event, SchedCancel(p, e) PROVE LifeOK(f)'
  <2>1. /\ UNCHANGED <<netVars, hash, caused, pc>>
        /\ cancelled' = cancelled \ {e} /\ e \in cancelled
        /\ hand[p] = NoEvent /\ Dst[e] = p /\ pc[p] = "cancel_q"
    BY <1>9 DEF SchedCancel, Popped, GvtInv
  <2>2. hand' = hand \/ hand' = [hand EXCEPT ![p] = e]
    BY <1>9 DEF SchedCancel
  <2>3. CASE f = e
    <3>1. Undone(f) /\ f \notin cancelled'
      BY <2>1, <2>3 DEF Undone
    <3>2. f \notin caused' /\ owner'[f] \in {"none", "acancel", "free"} /\ net' = net
      BY <1>f, <2>1, <3>1 DEF LifeOK, netVars
    <3> QED BY <1>f, <3>1, <3>2 DEF LifeOK
  <2>4. CASE f # e
    <3>1. Untouched(f) /\ loc'[f] = loc[f]
      BY <1>9, <1>t, <2>1, <2>2, <2>4 DEF SchedCancel, Untouched, InCancel, netVars
    <3> QED BY <1>f, <2>1, <3>1, LifeSame
  <2> QED BY <2>3, <2>4
<1> QED BY <1>1, <1>2, <1>3, <1>4, <1>5, <1>6, <1>7, <1>8, <1>9 DEF Schedule

LEMMA LifeProcess ==
  ASSUME NetworkInv, KernelInv, SentInv, LifeInv,
         NEW p \in PE, NEW e \in Event, Process(p, e), NEW f \in Event
  PROVE  LifeOK(f)'
<1> USE TimeWarpAssumption, NetworkAssumption
<1>f. LifeOK(f) /\ SentOK(f) /\ BufferOK(f) /\ HandOK(Dst[f])
  BY DEF LifeInv, SentInv, NetworkInv, BufferInv, KernelInv
<1>t. loc \in [Event -> Loc] /\ owner \in [Event -> Owner]
  BY DEF NetworkInv, TypeOK, NetTypeOK
<1>1. /\ loc[e] = "pq"
      /\ UNCHANGED <<hash, cancelled, cancel_q, cancel_asend, net, hand, pc>>
  BY DEF Process, In, tw_net_send
<1>2. PICK K \in SUBSET {x \in Event \ Root : Parent[x] = e /\ loc[x] = "none"
                                             /\ owner[x] = "none"} :
        /\ tw_net_send(K \cap Remote)
        /\ loc' = [x \in Event |->
              IF x = e THEN "pevent_q"
              ELSE IF x \in K \ Remote
                     THEN IF Ahead(Kp[x], Sig[x]) THEN "event_q" ELSE "pq"
              ELSE loc[x]]
        /\ caused' = caused \cup K
  BY DEF Process
<1>3. owner' = [x \in Event |-> IF x \in K \cap Remote THEN "outq" ELSE owner[x]]
  BY <1>2 DEF tw_net_send
<1>4. CASE f \in K
  <2>1. loc[f] = "none" /\ owner[f] = "none" /\ f # e
    BY <1>1, <1>4
  <2>2. ~Undone(f)
    <3>1. ~InCancel(f)
      BY <1>f, <2>1 DEF InCancel, HandOK
    <3> QED BY <1>f, <2>1, <3>1 DEF Undone, LifeOK
  <2>3. loc'[f] \in {"none", "pq", "event_q"} /\ (f \notin Remote => loc'[f] # "none")
    BY <1>2, <1>4, <2>1
  <2>4. owner'[f] \in {"none", "outq"} /\ <<f, "anti">> \notin net
    BY <1>f, <1>3, <2>1 DEF BufferOK
  <2>5. ~Undone(f)'
    BY <1>1, <2>2, <2>3 DEF Undone, InCancel
  <2> QED BY <1>1, <2>3, <2>4, <2>5 DEF LifeOK, Undone, Live
<1>5. CASE f \notin K
  <2>1. Untouched(f) /\ (f \in caused' => f \in caused)
    BY <1>1, <1>2, <1>3, <1>5 DEF Untouched, InCancel
  <2>2. loc'[f] = loc[f] \/ (loc[f] \in Live /\ loc'[f] \in Live)
    BY <1>1, <1>2, <1>5 DEF Live
  <2> QED BY <1>f, <2>1, <2>2, LifeSame, LifeMove
<1> QED BY <1>4, <1>5

\* What a new GVT commits has no cancel under way.
LEMMA FossilsQuiet ==
  ASSUME NetworkInv, KernelInv, GvtInv, SentInv,
         NEW p \in PE, UpdateGVT(p), NEW f \in Fossils(p, lvt[p])
  PROVE  /\ f \in Event /\ Dst[f] = p /\ loc[f] = "pevent_q" /\ Sig[f] < lvt[p]
         /\ ~BeingCancelled(f)
         /\ owner[f] \in {"asend", "sevent"} => f \notin cancel_q
<1> USE TimeWarpAssumption, NetworkAssumption
<1>1. f \in Event /\ Dst[f] = p /\ loc[f] = "pevent_q" /\ pc[p] = "update"
  BY DEF Fossils, In, UpdateGVT
<1>2. Sig[f] < lvt[p] /\ Sig[f] \in Nat /\ lvt[p] \in Nat
  BY <1>1, FossilsBelow DEF NetworkInv, TypeOK
<1>3. ~Active(f)
  BY <1>1, <1>2 DEF GvtInv, Floor
<1>4. ~BeingCancelled(f)
  BY <1>3 DEF Active, Pending, BeingCancelled
<1>5. owner[f] \in {"asend", "sevent"} => f \notin cancel_q
  BY <1>1, <1>3 DEF SentInv, SentOK, Active, Pending
<1> QED BY <1>1, <1>2, <1>4, <1>5

LEMMA LifeUpdate ==
  ASSUME NetworkInv, KernelInv, GvtInv, SentInv, LifeInv,
         NEW p \in PE, UpdateGVT(p), NEW f \in Event
  PROVE  LifeOK(f)'
<1> USE TimeWarpAssumption, NetworkAssumption
<1> DEFINE F == Fossils(p, lvt[p])
           C == {c \in caused : Parent[c] \in F}
<1>f. LifeOK(f)
  BY DEF LifeInv
<1>t. loc \in [Event -> Loc] /\ owner \in [Event -> Owner] /\ pc \in [PE -> PC]
  BY DEF NetworkInv, TypeOK, NetTypeOK
<1>1. /\ UNCHANGED <<cancelled, cancel_q, cancel_asend, net, hand>>
      /\ pc' = [pc EXCEPT ![p] = IF lvt[p] >= MaxSig THEN "done" ELSE "batch"]
      /\ hash' = hash \ F /\ caused' = caused \ C
      /\ loc'[f] = IF f \in F THEN "committed" ELSE loc[f]
      /\ owner'[f] = owner[f] \/ (owner[f] = "sevent" /\ owner'[f] = "free")
  BY DEF UpdateGVT, FreeSent
<1>2. InCancel(f)' => InCancel(f)
  BY <1>1, <1>t DEF InCancel
<1> HIDE DEF F, C
<1>3. Undone(f)' => Undone(f)
  BY <1>1, <1>2 DEF Undone
<1>4. CASE f \in F
  <2>1. /\ ~BeingCancelled(f)
        /\ owner[f] \in {"asend", "sevent"} => f \notin cancel_q
    BY <1>4, FossilsQuiet DEF F
  <2>2. /\ f \notin cancelled /\ <<f, "anti">> \notin net /\ f \notin cancel_asend
    BY <2>1 DEF BeingCancelled
  <2> QED BY <1>f, <1>1, <1>3, <1>4, <2>1, <2>2 DEF LifeOK, Live
<1>5. CASE f \notin F
  <2>1. Found(f)' <=> Found(f)
    BY <1>1, <1>5 DEF Found
  <2> QED BY <1>f, <1>1, <1>2, <1>3, <1>5, <2>1 DEF LifeOK
<1> QED BY <1>4, <1>5

LEMMA LifeNext ==
  ASSUME NetworkInv, KernelInv, GvtInv, CommitInv, SentInv, LifeInv, [Next]_vars
  PROVE  LifeInv'
<1> SUFFICES ASSUME NEW f \in Event PROVE LifeOK(f)'
  BY DEF LifeInv
<1>f. LifeOK(f)
  BY DEF LifeInv
<1>0. ASSUME UNCHANGED <<netVars, loc, hash, caused, cancelled, hand>>,
             \A p \in PE : pc'[p] = "cancel_q" => pc[p] = "cancel_q"
      PROVE  LifeOK(f)'
  <2>1. InCancel(f)' => InCancel(f)
    BY <1>0, NetworkAssumption DEF InCancel
  <2>2. Untouched(f)
    BY <1>0, <2>1 DEF Untouched, netVars
  <2> QED BY <1>0, <1>f, <2>2, LifeSame
<1>1. ASSUME NEW p \in PE, BatchDone(p) \/ EnterWhite(p) \/ ComputeLvt(p) PROVE LifeOK(f)'
  <2>1. UNCHANGED <<netVars, loc, hash, caused, cancelled, hand>>
    BY <1>1 DEF BatchDone, EnterWhite, ComputeLvt, kernelVars
  <2>2. \E c \in PC \ {"cancel_q"} : pc' = [pc EXCEPT ![p] = c]
    BY <1>1 DEF BatchDone, EnterWhite, ComputeLvt, PC
  <2>3. \A q \in PE : pc'[q] = "cancel_q" => pc[q] = "cancel_q"
    BY <2>2 DEF NetworkInv, TypeOK
  <2> QED BY <1>0, <2>1, <2>3
<1>2. CASE AllreduceWhite \/ AllreduceMin \/ UNCHANGED vars
  <2>1. UNCHANGED <<netVars, loc, hash, caused, cancelled, hand>>
    BY <1>2 DEF AllreduceWhite, AllreduceMin, vars, kernelVars
  <2>2. \A q \in PE : pc'[q] = "cancel_q" => pc[q] = "cancel_q"
    BY <1>2 DEF AllreduceWhite, AllreduceMin, vars
  <2> QED BY <1>0, <2>1, <2>2
<1> QED BY <1>1, <1>2, LifeService, LifeSchedule, LifeProcess, LifeUpdate
    DEF Next, Batch, Gvt, Terminated

LEMMA LifeInvariant ==
  Spec => [](NetworkInv /\ KernelInv /\ GvtInv /\ CommitInv /\ SentInv /\ LifeInv)
<1>1. Init => SentInv /\ LifeInv
  BY SentInit, LifeInit
<1>2. NetworkInv /\ KernelInv /\ GvtInv /\ CommitInv /\ SentInv /\ LifeInv /\ [Next]_vars
        => SentInv' /\ LifeInv'
  BY SentNext, LifeNext
<1> QED BY <1>1, <1>2, CommitInvariant, PTL DEF Spec

\* recv_finish always finds the event that an anti-message names in the hash
\* table, neither freed nor committed: tw_hash_remove never fails to find it.
THEOREM AntiMessagesFind == Spec => []AntiFindsEvent
<1>1. LifeInv => AntiFindsEvent
  BY DEF LifeInv, LifeOK, Found, Live, AntiFindsEvent
<1> QED BY <1>1, LifeInvariant, PTL

\* No buffer is back in the free pool while MPI, outq or cancel_q refers to
\* it, and what is linked from its parent has an owner that event_cancel knows.
THEOREM BuffersStaySafe == Spec => []BuffersSafe
<1>1. NetworkInv /\ SentInv /\ LifeInv => BuffersSafe
  <2> SUFFICES ASSUME NetworkInv, SentInv, LifeInv PROVE BuffersSafe
    OBVIOUS
  <2>1. /\ outq \subseteq Event /\ posted_sends \subseteq Event
        /\ cancelled \subseteq Event /\ caused \subseteq Event
    BY DEF NetworkInv, TypeOK, NetTypeOK
  <2>2. \A e \in outq \cup posted_sends : owner[e] \notin {"none", "free"}
    BY <2>1 DEF NetworkInv, BufferInv, BufferOK
  <2>3. \A e \in cancelled : loc[e] \notin {"none", "free", "committed"}
    BY <2>1 DEF LifeInv, LifeOK
  <2>4. ASSUME NEW c \in caused, c \in Remote
        PROVE  owner[c] \in {"outq", "asend", "sevent"} /\ c \notin cancel_q \cup cancel_asend
    BY <2>1, <2>4 DEF SentInv, SentOK, NetworkInv, BufferInv, BufferOK
  <2>5. ASSUME NEW c \in caused, c \notin Remote
        PROVE  /\ loc[c] \in {"pq", "event_q", "pevent_q", "undo", "committed"}
               /\ c \notin cancelled
    BY <2>1, <2>5 DEF LifeInv, LifeOK, Undone, Live
  <2> QED BY <2>2, <2>3, <2>4, <2>5 DEF BuffersSafe
<1> QED BY <1>1, LifeInvariant, PTL

\* Every cancel has a case: event_cancel and tw_net_cancel know the owner of
\* what a rollback has sent, tw_sched_cancel_q knows that of what it has taken
\* off cancel_q, and tw_kp_rollback_event meets its event before it has emptied
\* pevent_q.
OwnersKnown ==
  \A p \in PE :
    /\ rb[p] # NoEvent => \A c \in Children(rb[p]) :
         IF c \in Remote THEN owner[c] \in {"outq", "asend", "sevent"}
                         ELSE loc[c] \in {"pq", "event_q", "pevent_q"}
    /\ pc[p] = "cancel_q" /\ hand[p] = NoEvent => \A e \in Popped(p) :
         loc[e] \in {"event_q", "anti", "pq", "pevent_q"}
    /\ pc[p] = "cancel_q" /\ hand[p] # NoEvent /\ rb[p] = NoEvent =>
         \E i \in 1 .. Len(pevent_q[Kp[hand[p]]]) : pevent_q[Kp[hand[p]]][i] = hand[p]

\* The tw_errors "unknown fast local cancel owner", "Don't know how to cancel
\* event", "Event in cancel_q, but owner not recognized" and "Attempting to
\* rollback empty pevent_q" are unreachable.
THEOREM CancelNeverFails == Spec => []OwnersKnown
<1>1. NetworkInv /\ KernelInv /\ GvtInv /\ CommitInv /\ SentInv /\ LifeInv => OwnersKnown
  <2> SUFFICES ASSUME NetworkInv, KernelInv, GvtInv, CommitInv, SentInv, LifeInv, NEW p \in PE
               PROVE  OwnersKnown!(p)
    BY DEF OwnersKnown
  <2> USE TimeWarpAssumption, NetworkAssumption
  <2>t. TypeOK /\ PhaseInv
    BY DEF NetworkInv
  <2>1. ASSUME rb[p] # NoEvent, NEW c \in Children(rb[p])
        PROVE  IF c \in Remote THEN owner[c] \in {"outq", "asend", "sevent"}
                               ELSE loc[c] \in {"pq", "event_q", "pevent_q"}
    <3>1. c \in Event /\ c \in caused /\ loc[c] # "committed"
      BY <2>1, ChildrenLate
    <3>2. CASE c \in Remote
      BY <3>1, <3>2 DEF SentInv, SentOK
    <3>3. CASE c \notin Remote
      <4>1. loc[c] \in Live
        BY <3>1, <3>3 DEF LifeInv, LifeOK
      <4>2. /\ c \notin Root /\ Parent[c] = rb[p] /\ rb[p] \in Event /\ Dst[rb[p]] = p
            /\ Dst[c] = Src[c]
        <5>1. c \notin Root
          BY <3>1 DEF NetworkInv, BufferInv, BufferOK
        <5>2. rb[p] \in Event /\ Dst[rb[p]] = p
          BY <2>1, <2>t DEF TypeOK, KernelInv, HandOK
        <5> QED BY <3>1, <3>3, <5>1, <5>2 DEF Children, Remote
      <4>3. Dst[c] = p /\ Sig[rb[p]] < Sig[c]
        BY <3>1, <4>2, EventAssumption
      <4>4. loc[c] = "undo" => rb[p] = c
        BY <3>1, <4>3 DEF KernelInv, EventOK
      <4>5. Sig[c] \in Nat
        BY <3>1
      <4> QED BY <4>1, <4>3, <4>4, <4>5, <3>3 DEF Live
    <3> QED BY <3>2, <3>3
  <2>2. ASSUME hand[p] = NoEvent, NEW e \in Popped(p)
        PROVE  loc[e] \in {"event_q", "anti", "pq", "pevent_q"}
    <3>1. e \in Event /\ e \in cancelled /\ Dst[e] = p
      BY <2>2, <2>t DEF Popped, GvtInv, TypeOK
    <3>2. loc[e] \in Loc /\ loc[e] \notin {"none", "free", "committed"}
      BY <2>t, <3>1 DEF LifeInv, LifeOK, TypeOK
    <3>3. loc[e] # "undo"
      <4>1. rb[p] = NoEvent /\ NoEvent # e
        BY <2>2, <2>t, <3>1 DEF PhaseInv
      <4> QED BY <3>1, <4>1 DEF KernelInv, EventOK
    <3> QED BY <3>2, <3>3 DEF Loc
  <2>3. ASSUME pc[p] = "cancel_q", hand[p] # NoEvent, rb[p] = NoEvent
        PROVE  \E i \in 1 .. Len(pevent_q[Kp[hand[p]]]) : pevent_q[Kp[hand[p]]][i] = hand[p]
    <3>1. hand[p] \in Event /\ loc[hand[p]] = "pevent_q"
      BY <2>3, <2>t DEF TypeOK, KernelInv, HandOK
    <3> QED BY <3>1 DEF KernelInv, EventOK
  <2> QED BY <2>1, <2>2, <2>3
<1> QED BY <1>1, LifeInvariant, PTL

-----------------------------------------------------------------------------
(***************************************************************************)
(* What exists was caused.                                                 *)
(***************************************************************************)

\* e is at its destination or on its way there as an event.
Exists(e) == loc[e] \in Live \/ owner[e] = "outq" \/ <<e, "event">> \in net

CauseOK(e) ==
  /\ e \in caused => loc[Parent[e]] \in {"pevent_q", "undo"}
  /\ Exists(e) => e \in caused \/ loc[Parent[e]] = "committed" \/ BeingCancelled(e)
  /\ loc[e] = "committed" =>
       \/ loc[Parent[e]] = "committed"
       \/ /\ loc[Parent[e]] = "pevent_q" /\ e \in caused
          /\ \E p \in PE : Sig[Parent[e]] < GVT_sig[p]

CauseInv == \A e \in Event \ Root : CauseOK(e)

LEMMA CauseInit == Init => CauseInv
<1> SUFFICES ASSUME Init, NEW e \in Event \ Root PROVE CauseOK(e)
  BY DEF CauseInv
<1>1. loc[e] = "none" /\ owner[e] = "none" /\ net = {} /\ caused = {}
  BY DEF Init, NetInit
<1> QED BY <1>1 DEF CauseOK, Exists, Live

\* How an event is linked to its parent and unlinked from it.
LEMMA CausedStep ==
  ASSUME NetworkInv, KernelInv, SentInv, [Next]_vars, NEW e \in Event
  PROVE  \/ e \in caused' <=> e \in caused
         \/ e \in caused' /\ loc'[Parent[e]] = "pevent_q"
         \/ /\ e \in caused /\ e \notin caused' /\ loc[Parent[e]] = "undo"
            /\ BeingCancelled(e)' \/ ~Exists(e)'
         \/ \E p \in PE : UpdateGVT(p) /\ Parent[e] \in Fossils(p, lvt[p]) /\ e \notin caused'
<1> USE TimeWarpAssumption, NetworkAssumption
<1>e. SentOK(e) /\ BufferOK(e) /\ EventOK(e)
  BY DEF SentInv, NetworkInv, BufferInv, KernelInv
<1>t. TypeOK /\ loc \in [Event -> Loc] /\ owner \in [Event -> Owner]
  BY DEF NetworkInv, TypeOK, NetTypeOK
<1>1. ASSUME NEW p \in PE, Service(p) PROVE caused' = caused
  BY <1>1 DEF Service, SendBegin, SendFinish, ServiceDone, RecvEvent, RecvAnti, kernelVars
<1>2. ASSUME NEW p \in PE, NEW c \in Event, CancelRemote(p, c)
      PROVE  \/ e \in caused' <=> e \in caused
             \/ /\ e \in caused /\ e \notin caused' /\ loc[Parent[e]] = "undo"
                /\ BeingCancelled(e)' \/ ~Exists(e)'
  <2>1. /\ tw_net_cancel(c) /\ c \in caused /\ caused' = caused \ {c} /\ Parent[c] = rb[p]
        /\ rb[p] # NoEvent /\ UNCHANGED loc
    BY <1>2 DEF CancelRemote, Children
  <2>2. loc[rb[p]] = "undo"
    BY <2>1 DEF KernelInv, HandOK
  <2>3. CASE c = e
    <3>1. CASE owner[e] = "outq"
      <4>1. owner'[e] = "free" /\ net' = net
        BY <1>t, <2>1, <2>3, <3>1 DEF tw_net_cancel
      <4>2. loc[e] = "none" /\ <<e, "event">> \notin net
        BY <1>e, <3>1 DEF EventOK, BufferOK
      <4>3. ~Exists(e)'
        BY <2>1, <4>1, <4>2 DEF Exists, Live
      <4> QED BY <2>1, <2>2, <2>3, <4>3
    <3>2. CASE owner[e] # "outq"
      <4>1. BeingCancelled(e)'
        BY <2>1, <2>3, <3>2 DEF tw_net_cancel, BeingCancelled
      <4> QED BY <2>1, <2>2, <2>3, <4>1
    <3> QED BY <3>1, <3>2
  <2> QED BY <2>1, <2>3
<1>3. ASSUME NEW p \in PE, NEW c \in Event, CancelLocal(p, c)
      PROVE  \/ e \in caused' <=> e \in caused
             \/ /\ e \in caused /\ e \notin caused' /\ loc[Parent[e]] = "undo"
                /\ BeingCancelled(e)' \/ ~Exists(e)'
  <2>1. /\ c \in caused \ Remote /\ caused' = caused \ {c} /\ Parent[c] = rb[p]
        /\ rb[p] # NoEvent /\ UNCHANGED netVars
    BY <1>3 DEF CancelLocal, Children
  <2>2. loc[rb[p]] = "undo"
    BY <2>1 DEF KernelInv, HandOK
  <2>3. CASE c = e
    <3>1. owner[e] = "none" /\ <<e, "event">> \notin net
      BY <1>e, <2>1, <2>3 DEF SentOK, BufferOK
    <3>2. loc'[e] = "free" \/ e \in cancelled'
      BY <1>3, <1>t, <2>3 DEF CancelLocal
    <3>3. BeingCancelled(e)' \/ ~Exists(e)'
      BY <2>1, <3>1, <3>2 DEF BeingCancelled, Exists, Live, netVars
    <3> QED BY <2>1, <2>2, <2>3, <3>3
  <2> QED BY <2>1, <2>3
<1>4. ASSUME NEW p \in PE, Schedule(p)
      PROVE  caused' = caused \/ \E c \in Event : CancelRemote(p, c) \/ CancelLocal(p, c)
  BY <1>4 DEF Schedule, tw_gvt_step1, RollbackNext, RollbackDone, EnqueueHand, EventQDone,
     PopCancelQ, CancelQDone, SchedEvent, SchedCancel, kernelVars
<1>5. ASSUME NEW p \in PE, NEW x \in Event, Process(p, x)
      PROVE  (e \in caused' <=> e \in caused) \/ (e \in caused' /\ loc'[Parent[e]] = "pevent_q")
  <2>1. PICK K \in SUBSET {c \in Event \ Root : Parent[c] = x} : caused' = caused \cup K
    BY <1>5 DEF Process
  <2>2. loc'[x] = "pevent_q"
    BY <1>5 DEF Process
  <2> QED BY <2>1, <2>2
<1>6. ASSUME NEW p \in PE, UpdateGVT(p)
      PROVE  \/ e \in caused' <=> e \in caused
             \/ Parent[e] \in Fossils(p, lvt[p]) /\ e \notin caused'
  BY <1>6 DEF UpdateGVT
<1>7. ASSUME NEW p \in PE, BatchDone(p) \/ EnterWhite(p) \/ ComputeLvt(p) PROVE caused' = caused
  BY <1>7 DEF BatchDone, EnterWhite, ComputeLvt, kernelVars
<1>8. CASE AllreduceWhite \/ AllreduceMin \/ UNCHANGED vars
  BY <1>8 DEF AllreduceWhite, AllreduceMin, vars, kernelVars
<1> QED BY <1>1, <1>2, <1>3, <1>4, <1>5, <1>6, <1>7, <1>8 DEF Next, Batch, Gvt, Terminated

\* An event comes to exist only by being linked to its parent.
LEMMA ExistsStep ==
  ASSUME NetworkInv, KernelInv, [Next]_vars, NEW e \in Event, Exists(e)'
  PROVE  Exists(e) \/ e \in caused'
<1> USE TimeWarpAssumption, NetworkAssumption
<1>e. BufferOK(e)
  BY DEF NetworkInv, BufferInv
<1>t. TypeOK /\ loc \in [Event -> Loc] /\ owner \in [Event -> Owner]
  BY DEF NetworkInv, TypeOK, NetTypeOK
<1>0. ASSUME UNCHANGED <<owner, net, loc>> PROVE Exists(e)
  BY <1>0 DEF Exists
<1>2. ASSUME NEW p \in PE, Service(p) PROVE Exists(e)
  <2>1. ASSUME NEW x \in Event, send_begin(x) \/ send_finish(x), loc' = loc PROVE Exists(e)
    <3>1. owner'[e] = "outq" => owner[e] = "outq"
      BY <1>t, <2>1 DEF send_begin, send_finish
    <3>2. <<e, "event">> \in net' => <<e, "event">> \in net \/ owner[e] = "outq"
      BY <1>e, <2>1 DEF send_begin, send_finish, MsgOf, BufferOK
    <3> QED BY <2>1, <3>1, <3>2 DEF Exists
  <2>2. ASSUME NEW x \in Event, RecvEvent(p, x) PROVE Exists(e)
    <3>1. /\ <<x, "event">> \in net /\ net' \subseteq net /\ owner' = owner
          /\ \E l \in Loc : loc' = [loc EXCEPT ![x] = l]
      BY <2>2 DEF RecvEvent, NetReceive, Loc
    <3> QED BY <1>t, <3>1 DEF Exists
  <2>3. ASSUME NEW x \in Event, RecvAnti(p, x) PROVE Exists(e)
    BY <2>3 DEF RecvAnti, NetReceive, Exists
  <2> QED BY <1>0, <1>2, <2>1, <2>2, <2>3 DEF Service, SendBegin, SendFinish, ServiceDone,
        kernelVars, netVars
<1>3. ASSUME NEW p \in PE, Schedule(p) PROVE Exists(e)
  <2>1. loc'[e] \in Live => loc[e] \in Live
    <3>1. CASE RollbackNext(p)
      <4> DEFINE q == pevent_q[Kp[hand[p]]]
      <4>1. hand[p] \in Event /\ Kp[hand[p]] \in KP /\ q # <<>>
        BY <1>t, <3>1 DEF RollbackNext, TypeOK
      <4>2. Head(q) = q[1] /\ 1 \in 1 .. Len(q)
        BY <1>t, <4>1, HeadEvent
      <4>3. loc[Head(q)] = "pevent_q"
        BY <4>1, <4>2 DEF KernelInv, QueueOK
      <4> QED BY <1>t, <3>1, <4>3 DEF RollbackNext, Live
    <3>2. CASE RollbackDone(p)
      BY <1>t, <3>2 DEF RollbackDone, KernelInv, HandOK, Live
    <3>3. CASE EnqueueHand(p)
      BY <1>t, <3>3 DEF EnqueueHand, KernelInv, HandOK, Live
    <3>4. ASSUME NEW x \in Event, SchedEvent(p, x) PROVE loc'[e] \in Live => loc[e] \in Live
      BY <1>t, <3>4 DEF SchedEvent, In, Live
    <3>5. ASSUME NEW x \in Event, CancelLocal(p, x) PROVE loc'[e] \in Live => loc[e] \in Live
      BY <1>t, <3>5 DEF CancelLocal, Live
    <3>6. ASSUME NEW x \in Event, SchedCancel(p, x) PROVE loc'[e] \in Live => loc[e] \in Live
      BY <1>t, <3>6 DEF SchedCancel, Live
    <3>7. CASE \/ tw_gvt_step1(p) \/ EventQDone(p) \/ PopCancelQ(p) \/ CancelQDone(p)
               \/ \E x \in Event : CancelRemote(p, x)
      BY <3>7 DEF tw_gvt_step1, EventQDone, PopCancelQ, CancelQDone, CancelRemote, kernelVars
    <3> QED BY <1>3, <3>1, <3>2, <3>3, <3>4, <3>5, <3>6, <3>7 DEF Schedule
  <2>2. ASSUME NEW x \in Event, CancelRemote(p, x)
        PROVE  net' = net /\ (owner'[e] = "outq" => owner[e] = "outq")
    BY <1>t, <2>2 DEF CancelRemote, tw_net_cancel
  <2>3. UNCHANGED <<owner, net>> \/ \E x \in Event : CancelRemote(p, x)
    BY <1>3 DEF Schedule, tw_gvt_step1, RollbackNext, RollbackDone, EnqueueHand, EventQDone,
       PopCancelQ, CancelQDone, SchedEvent, SchedCancel, CancelLocal, netVars
  <2> QED BY <2>1, <2>2, <2>3 DEF Exists
<1>4. ASSUME NEW p \in PE, NEW x \in Event, Process(p, x) PROVE Exists(e) \/ e \in caused'
  <2>1. PICK K \in SUBSET Event :
          /\ tw_net_send(K \cap Remote)
          /\ loc' = [c \in Event |->
                IF c = x THEN "pevent_q"
                ELSE IF c \in K \ Remote
                       THEN IF Ahead(Kp[c], Sig[c]) THEN "event_q" ELSE "pq"
                ELSE loc[c]]
          /\ caused' = caused \cup K
    BY <1>4 DEF Process
  <2>2. loc[x] = "pq"
    BY <1>4 DEF Process, In
  <2> QED BY <2>1, <2>2 DEF tw_net_send, Exists, Live
<1>5. ASSUME NEW p \in PE, UpdateGVT(p) PROVE Exists(e)
  <2>1. net' = net /\ (owner'[e] = "outq" => owner[e] = "outq")
    BY <1>5 DEF UpdateGVT, FreeSent
  <2>2. loc'[e] \in Live => loc[e] \in Live
    BY <1>5 DEF UpdateGVT, Live
  <2> QED BY <2>1, <2>2 DEF Exists
<1>6. ASSUME NEW p \in PE, BatchDone(p) \/ EnterWhite(p) \/ ComputeLvt(p) PROVE Exists(e)
  BY <1>0, <1>6 DEF BatchDone, EnterWhite, ComputeLvt, kernelVars, netVars
<1>7. CASE AllreduceWhite \/ AllreduceMin \/ UNCHANGED vars
  BY <1>0, <1>7 DEF AllreduceWhite, AllreduceMin, vars, kernelVars, netVars
<1> QED BY <1>2, <1>3, <1>4, <1>5, <1>6, <1>7 DEF Next, Batch, Gvt, Terminated

\* A cancel under way stays so until the event is gone.
LEMMA CancelStep ==
  ASSUME NetworkInv, KernelInv, GvtInv, LifeInv, [Next]_vars, NEW e \in Event, BeingCancelled(e)
  PROVE  BeingCancelled(e)' \/ ~Exists(e)'
<1> USE TimeWarpAssumption, NetworkAssumption
<1>e. BufferOK(e) /\ LifeOK(e)
  BY DEF NetworkInv, BufferInv, LifeInv
<1>t. /\ TypeOK /\ PhaseInv
      /\ loc \in [Event -> Loc] /\ owner \in [Event -> Owner]
      /\ hand \in [PE -> Event \cup {NoEvent}] /\ pc \in [PE -> PC]
  BY DEF NetworkInv, TypeOK, NetTypeOK
<1>0. ASSUME UNCHANGED <<cancel_asend, cancel_q, outq, net>>, cancelled \subseteq cancelled',
             InCancel(e) => InCancel(e)'
      PROVE  BeingCancelled(e)'
  BY <1>0 DEF BeingCancelled, InCancel
<1>1. ASSUME NEW p \in PE, Service(p) PROVE BeingCancelled(e)'
  <2>1. ASSUME NEW x \in Event, send_begin(x), UNCHANGED <<cancelled, hand, pc>>
        PROVE  BeingCancelled(e)'
    BY <2>1 DEF send_begin, MsgOf, BeingCancelled
  <2>2. ASSUME NEW x \in Event, send_finish(x), UNCHANGED <<cancelled, hand, pc>>
        PROVE  BeingCancelled(e)'
    BY <1>e, <2>2 DEF send_finish, BeingCancelled, BufferOK
  <2>3. ASSUME NEW x \in Event, RecvEvent(p, x) \/ RecvAnti(p, x) PROVE BeingCancelled(e)'
    BY <2>3 DEF RecvEvent, RecvAnti, NetReceive, BeingCancelled
  <2>4. ASSUME ServiceDone(p) PROVE BeingCancelled(e)'
    BY <1>0, <2>4 DEF ServiceDone, kernelVars, netVars, InCancel
  <2> QED BY <1>1, <2>1, <2>2, <2>3, <2>4 DEF Service, SendBegin, SendFinish, kernelVars
<1>2. ASSUME NEW p \in PE, Schedule(p) PROVE BeingCancelled(e)' \/ ~Exists(e)'
  <2>1. ASSUME NEW x \in Event, CancelRemote(p, x) PROVE BeingCancelled(e)'
    <3>1. tw_net_cancel(x) /\ UNCHANGED <<cancelled, hand, pc>>
      BY <2>1 DEF CancelRemote
    <3>2. e \in cancel_q \cap outq => owner[e] # "outq"
      BY <1>e DEF BufferOK
    <3> QED BY <3>1, <3>2 DEF tw_net_cancel, BeingCancelled
  <2>2. ASSUME NEW x \in Event, SchedCancel(p, x) PROVE BeingCancelled(e)' \/ ~Exists(e)'
    <3>1. /\ UNCHANGED <<netVars, pc>> /\ cancelled' = cancelled \ {x} /\ x \in cancelled
          /\ Dst[x] = p /\ pc[p] = "cancel_q" /\ hand[p] = NoEvent
          /\ \/ loc' = [loc EXCEPT ![x] = "free"] /\ UNCHANGED hand
             \/ hand' = [hand EXCEPT ![p] = x]
      BY <2>2 DEF SchedCancel, Popped, GvtInv
    <3>2. CASE e = x /\ UNCHANGED hand
      <4>1. owner[e] # "outq" /\ <<e, "event">> \notin net
        BY <1>e, <3>1, <3>2 DEF LifeOK, Undone
      <4>2. loc'[e] = "free"
        BY <1>t, <3>1, <3>2
      <4> QED BY <3>1, <4>1, <4>2 DEF Exists, Live, netVars
    <3>3. CASE e = x /\ hand' = [hand EXCEPT ![p] = x]
      BY <1>t, <3>1, <3>3 DEF BeingCancelled
    <3>4. CASE e # x
      <4>1. hand[Dst[e]] = e => hand'[Dst[e]] = e
        BY <1>t, <3>1, <3>4
      <4> QED BY <3>1, <3>4, <4>1 DEF BeingCancelled, netVars
    <3> QED BY <3>1, <3>2, <3>3, <3>4
  <2>3. ASSUME RollbackDone(p) PROVE BeingCancelled(e)' \/ ~Exists(e)'
    <3> DEFINE mine == pc[p] = "cancel_q" /\ rb[p] = hand[p]
    <3>1. /\ UNCHANGED <<netVars, cancelled, pc>>
          /\ rb[p] \in Event /\ Dst[rb[p]] = p
          /\ loc' = [loc EXCEPT ![rb[p]] = IF mine THEN "free" ELSE "pq"]
          /\ hand' = IF mine THEN [hand EXCEPT ![p] = NoEvent] ELSE hand
      BY <2>3, <1>t DEF RollbackDone, TypeOK, KernelInv, HandOK
    <3>2. CASE mine /\ e = rb[p]
      <4>1. owner[e] # "outq" /\ <<e, "event">> \notin net
        BY <1>e, <3>1, <3>2 DEF LifeOK, Undone, InCancel
      <4>2. loc'[e] = "free"
        BY <1>t, <3>1, <3>2
      <4> QED BY <3>1, <4>1, <4>2 DEF Exists, Live, netVars
    <3>3. CASE ~(mine /\ e = rb[p])
      <4>1. InCancel(e) => InCancel(e)'
        BY <1>t, <3>1, <3>3 DEF InCancel
      <4> QED BY <1>0, <3>1, <4>1 DEF netVars
    <3> QED BY <3>2, <3>3
  <2>4. ASSUME EnqueueHand(p) \/ \E x \in Event : SchedEvent(p, x) PROVE BeingCancelled(e)'
    <3>1. /\ UNCHANGED <<netVars, cancelled, pc>> /\ pc[p] = "event_q"
          /\ \/ hand' = hand
             \/ \E h \in Event \cup {NoEvent} : hand' = [hand EXCEPT ![p] = h]
      BY <2>4 DEF EnqueueHand, SchedEvent
    <3>2. InCancel(e) => InCancel(e)'
      BY <1>t, <3>1 DEF InCancel
    <3> QED BY <1>0, <3>1, <3>2 DEF netVars
  <2>5. ASSUME tw_gvt_step1(p) \/ EventQDone(p) \/ CancelQDone(p) PROVE BeingCancelled(e)'
    <3>1. /\ UNCHANGED <<netVars, kernelVars>> /\ hand[p] = NoEvent
          /\ \E c \in PC : pc' = [pc EXCEPT ![p] = c]
      BY <2>5, <1>t DEF tw_gvt_step1, EventQDone, CancelQDone, PC, PhaseInv
    <3>2. InCancel(e) => InCancel(e)'
      BY <1>t, <3>1 DEF InCancel, kernelVars
    <3> QED BY <1>0, <3>1, <3>2 DEF netVars, kernelVars
  <2>6. ASSUME RollbackNext(p) \/ PopCancelQ(p) \/ \E x \in Event : CancelLocal(p, x)
        PROVE  BeingCancelled(e)'
    BY <1>0, <2>6 DEF RollbackNext, PopCancelQ, CancelLocal, netVars, InCancel
  <2> QED BY <1>2, <2>1, <2>2, <2>3, <2>4, <2>5, <2>6 DEF Schedule
<1>3. ASSUME NEW p \in PE, NEW x \in Event, Process(p, x) PROVE BeingCancelled(e)'
  BY <1>3 DEF Process, tw_net_send, BeingCancelled
<1>4. ASSUME NEW p \in PE, BatchDone(p) \/ Gvt(p) PROVE BeingCancelled(e)'
  <2>1. /\ UNCHANGED <<cancel_asend, cancel_q, outq, net, cancelled, hand>>
        /\ pc[p] # "cancel_q" /\ \E c \in PC : pc' = [pc EXCEPT ![p] = c]
    BY <1>4 DEF BatchDone, Gvt, EnterWhite, ComputeLvt, UpdateGVT, netVars, kernelVars, PC
  <2>2. InCancel(e) => InCancel(e)'
    BY <1>t, <2>1 DEF InCancel
  <2> QED BY <1>0, <2>1, <2>2
<1>5. CASE AllreduceWhite \/ AllreduceMin \/ UNCHANGED vars
  <2>1. /\ UNCHANGED <<cancel_asend, cancel_q, outq, net, cancelled, hand>>
        /\ \A p \in PE : pc[p] = "cancel_q" => pc'[p] = "cancel_q"
    BY <1>5 DEF AllreduceWhite, AllreduceMin, vars, netVars, kernelVars
  <2>2. InCancel(e) => InCancel(e)'
    BY <2>1 DEF InCancel
  <2> QED BY <1>0, <2>1, <2>2
<1> QED BY <1>1, <1>2, <1>3, <1>4, <1>5 DEF Next, Batch, Terminated

LEMMA CauseNext ==
  ASSUME NetworkInv, KernelInv, GvtInv, CommitInv, SentInv, LifeInv, CauseInv, [Next]_vars
  PROVE  CauseInv'
<1> USE TimeWarpAssumption, NetworkAssumption
<1> SUFFICES ASSUME NEW e \in Event \ Root PROVE CauseOK(e)'
  BY DEF CauseInv
<1> DEFINE f == Parent[e]
<1>e. CauseOK(e) /\ f \in Event
  BY DEF CauseInv
<1>t. TypeOK /\ GvtInv'
  BY GvtNext DEF NetworkInv
\* The two ways in which the parent can change.
<1>1. LocStep(f) \/ \E p \in PE : UpdateGVT(p) /\ f \in Fossils(p, lvt[p])
  BY <1>e, LocLife
<1>2. ASSUME NEW p \in PE, UpdateGVT(p), f \in Fossils(p, lvt[p])
      PROVE  loc'[f] = "committed" /\ e \notin caused'
  BY <1>2, <1>e DEF UpdateGVT
<1>3. loc[f] = "committed" => loc'[f] = "committed"
  BY <1>1, <1>2 DEF LocStep
<1>4. ASSUME e \in caused, e \in caused' PROVE loc'[f] \in {"pevent_q", "undo"}
  <2>1. loc[f] \in {"pevent_q", "undo"} /\ e \in Children(f)
    BY <1>e, <1>4 DEF CauseOK, Children
  <2> QED BY <1>1, <1>2, <1>4, <2>1 DEF LocStep
<1>5. e \in caused' => loc'[f] \in {"pevent_q", "undo"}
  BY <1>4, CausedStep
<1>6. ASSUME e \in caused, e \notin caused'
      PROVE  loc'[f] = "committed" \/ BeingCancelled(e)' \/ ~Exists(e)'
  BY <1>2, <1>6, CausedStep
<1>7. ASSUME Exists(e)'
      PROVE  e \in caused' \/ loc'[f] = "committed" \/ BeingCancelled(e)'
  <2>1. Exists(e) \/ e \in caused'
    BY <1>7, ExistsStep
  <2>2. CASE Exists(e)
    <3>1. e \in caused \/ loc[f] = "committed" \/ BeingCancelled(e)
      BY <1>e, <2>2 DEF CauseOK
    <3>2. CASE BeingCancelled(e)
      BY <1>7, <3>2, CancelStep
    <3> QED BY <1>3, <1>6, <1>7, <3>1, <3>2
  <2> QED BY <2>1, <2>2
<1>8. ASSUME loc'[e] = "committed"
      PROVE  \/ loc'[f] = "committed"
             \/ /\ loc'[f] = "pevent_q" /\ e \in caused'
                /\ \E p \in PE : Sig[f] < GVT_sig'[p]
  <2>0. Sig[f] \in Nat /\ Sig[e] \in Nat /\ Sig[f] < Sig[e]
    BY <1>e, EventAssumption
  \* The parent does not return once the GVT has passed it.
  <2>1. ASSUME NEW p \in PE, Sig[f] < GVT_sig'[p], loc[f] = "pevent_q", e \in caused
        PROVE  loc'[f] = "committed" \/ (loc'[f] = "pevent_q" /\ e \in caused')
    <3>1. loc'[f] # "undo"
      <4>1. GVT_sig'[p] \in Nat
        BY TypeNext DEF NetworkInv, TypeOK
      <4>2. loc'[f] = "undo" => GVT_sig'[p] <= Sig[f]
        BY <1>t, <1>e DEF GvtInv, Floor, Active
      <4> QED BY <2>0, <2>1, <4>1, <4>2
    <3>2. loc'[f] \in {"committed", "pevent_q"}
      BY <1>1, <1>2, <2>1, <3>1 DEF LocStep
    <3>3. e \in caused' \/ loc'[f] = "committed"
      BY <1>2, <2>1, CausedStep
    <3> QED BY <3>2, <3>3
  <2>2. CASE loc[e] = "committed"
    <3>1. CASE loc[f] = "committed"
      BY <1>3, <3>1
    <3>2. CASE loc[f] # "committed"
      <4>1. loc[f] = "pevent_q" /\ e \in caused
        BY <1>e, <2>2, <3>2 DEF CauseOK
      <4>2. PICK p \in PE : Sig[f] < GVT_sig[p]
        BY <1>e, <2>2, <3>2 DEF CauseOK
      <4>3. GVT_sig[p] <= GVT_sig'[p] /\ GVT_sig[p] \in Nat /\ GVT_sig'[p] \in Nat
        BY GvtStep, TypeNext DEF NetworkInv, TypeOK
      <4>4. Sig[f] < GVT_sig'[p]
        BY <2>0, <4>2, <4>3
      <4> QED BY <2>1, <4>1, <4>4
    <3> QED BY <3>1, <3>2
  <2>3. CASE loc[e] # "committed"
    <3>1. PICK p \in PE : UpdateGVT(p) /\ e \in Fossils(p, lvt[p])
      BY <1>8, <2>3, LocLife DEF LocStep
    <3>2. loc[e] = "pevent_q" /\ Sig[e] < lvt[p] /\ ~BeingCancelled(e)
      BY <3>1, FossilsQuiet
    <3>3. e \in caused \/ loc[f] = "committed"
      BY <1>e, <3>2 DEF CauseOK, Exists, Live
    <3>4. lvt[p] \in Nat /\ GVT_sig'[p] = lvt[p] /\ pc[p] = "update"
      BY <1>t, <3>1 DEF UpdateGVT, TypeOK
    <3>5. Sig[f] < GVT_sig'[p]
      BY <2>0, <3>2, <3>4
    <3>6. loc[f] # "undo"
      <4>1. loc[f] = "undo" => lvt[p] <= Sig[f]
        BY <1>e, <3>4 DEF GvtInv, Floor, Active
      <4> QED BY <2>0, <3>4, <3>5, <4>1
    <3>7. e \in caused => loc[f] = "pevent_q"
      BY <1>e, <3>6 DEF CauseOK
    <3> QED BY <1>3, <2>1, <3>3, <3>5, <3>7
  <2> QED BY <2>2, <2>3
<1> QED BY <1>5, <1>7, <1>8 DEF CauseOK

\* What exists was caused by an execution that stands, and nothing is committed
\* before what caused it: a rollback leaves no event of the execution that it
\* undoes behind, and tw_pe_fossil_collect commits none.
THEOREM CommitsAreCaused == Spec => []CommitsCaused
<1>1. Init => CauseInv
  BY CauseInit
<1>2. NetworkInv /\ KernelInv /\ GvtInv /\ CommitInv /\ SentInv /\ LifeInv /\ CauseInv
        /\ [Next]_vars => CauseInv'
  BY CauseNext
<1>3. CauseInv => CommitsCaused
  BY DEF CauseInv, CauseOK, Exists, Live, CommitsCaused
<1> QED BY <1>1, <1>2, <1>3, LifeInvariant, PTL DEF Spec
=============================================================================

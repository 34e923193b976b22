-------------------------- MODULE SchedBatchProofs --------------------------
(***************************************************************************)
(* Proofs about the scheduler of one PE, for every value of the constants: *)
(* any events, any handlers that suspend LPs, any number of buffers.       *)
(*                                                                         *)
(* That no buffer is lost and that nothing outlives the execution that     *)
(* sent it holds although aborts leave last_sig wrong.  What keeps it so   *)
(* is that the batch begins with cancel_q empty and no event in hand       *)
(* (PhaseOK): everything that was sent is then linked to an execution that *)
(* stands (SentOK), so that an event in pq has sent nothing.               *)
(*                                                                         *)
(* The order of the lists holds until an abort (OrderInv): last_sig is     *)
(* that of the head.  Reverse handlers match handlers (PairInv) as long as *)
(* the event that suspended an LP is still in the list of its KP, below    *)
(* all that the LP has skipped since (NoSuspendLeft).                      *)
(***************************************************************************)
EXTENDS SchedBatch, FiniteSetTheorems, SequenceTheorems, WellFoundedInduction, TLAPS

Place == {"none", "net", "pq", "event_q", "anti", "pevent_q", "committed"}

TypeOK ==
  /\ loc \in [Event -> Place]
  /\ pevent_q \in [KP -> Seq(Event)]
  /\ last_sig \in [KP -> Nat]
  /\ caused \subseteq Event /\ cancel_q \subseteq Event
  /\ hand \in Event \cup {NoEvent}
  /\ free \in Nat /\ posted \in Nat /\ num_buffers \in Nat
  /\ suspend_event \in [LP -> Event \cup {NoEvent}] /\ applied \in [Event -> Int]
  /\ GVT_sig \in Nat /\ aborted \in BOOLEAN

\* The list of a KP holds its processed events, each once.
ListOK(k) ==
  /\ \A i \in 1 .. Len(pevent_q[k]) : loc[pevent_q[k][i]] = "pevent_q" /\ Kp[pevent_q[k][i]] = k
  /\ \A i, j \in 1 .. Len(pevent_q[k]) : i # j => pevent_q[k][i] # pevent_q[k][j]

Listed(e) ==
  loc[e] = "pevent_q" => \E i \in 1 .. Len(pevent_q[Kp[e]]) : pevent_q[Kp[e]][i] = e

\* The batch starts with nothing left to cancel and nothing in hand.
PhaseOK ==
  /\ pc \in {"batch", "step2"} => cancel_q = {}
  /\ pc \notin {"event_q", "cancel_q"} => hand = NoEvent
  /\ hand # NoEvent => hand \notin cancel_q
  /\ pc = "event_q" /\ hand # NoEvent => loc[hand] = "event_q"
  /\ pc = "cancel_q" /\ hand # NoEvent => loc[hand] = "pevent_q" /\ hand \notin caused

\* What was sent is linked to an execution that stands, or is being cancelled.
SentOK(c) ==
  /\ c \in caused => c \notin Root \cup Arrival /\ loc[Parent[c]] = "pevent_q" /\ c \notin cancel_q
  /\ c \notin Root \cup Arrival /\ loc[c] # "none"
       => \/ c \in caused \/ c \in cancel_q
          \/ pc = "cancel_q" /\ hand = c
          \/ loc[Parent[c]] = "committed"

Inv ==
  /\ TypeOK
  /\ \A k \in KP : ListOK(k)
  /\ \A e \in Event : Listed(e) /\ SentOK(e)
  /\ PhaseOK
  /\ PoolConserved

OrderOK(k) ==
  LET q == pevent_q[k]
  IN  /\ \A i, j \in 1 .. Len(q) : i <= j => Sig[q[j]] <= Sig[q[i]]
      /\ q # <<>> => last_sig[k] = Sig[q[1]]
      /\ q # <<>> => \A e \in Event : loc[e] = "pq" /\ Kp[e] = k => Sig[q[1]] <= Sig[e]

OrderInv == ~aborted => \A k \in KP : OrderOK(k)

\* Nothing that suspended an LP is committed before it is undone.
NoSuspendLeft == \A l \in LP : suspend_event[l] # NoEvent => loc[suspend_event[l]] # "committed"

SuspendOK(l) == 
  suspend_event[l] # NoEvent => Lp[suspend_event[l]] = l /\ loc[suspend_event[l]] = "pevent_q"

-----------------------------------------------------------------------------
LEMMA NatBounds ==
  ASSUME NEW T \in SUBSET Nat, T # {}
  PROVE  /\ Min(T) \in T /\ \A y \in T : Min(T) <= y
         /\ \A n \in Nat : T \subseteq 0 .. n => Max(T) \in T /\ \A y \in T : y <= Max(T)
<1> DEFINE R == OpToRel(<, Nat)
<1>1. ASSUME NEW U \in SUBSET Nat, U # {} PROVE \E x \in U : \A y \in U : x <= y
  <2>1. PICK x \in U : \A y \in U : <<y, x>> \notin R
    <3> HIDE DEF R
    <3> QED BY <1>1, WFMin, NatLessThanWellFounded DEF R
  <2>2. \A y \in U : ~(y < x)
    BY <2>1 DEF OpToRel
  <2> QED BY <2>2
<1>2. Min(T) \in T /\ \A y \in T : Min(T) <= y
  BY <1>1 DEF Min
<1>3. ASSUME NEW n \in Nat, T \subseteq 0 .. n PROVE Max(T) \in T /\ \A y \in T : y <= Max(T)
  <2> DEFINE U == {n - y : y \in T}
  <2>1. U \in SUBSET Nat /\ U # {}
    <3>1. \A y \in T : n - y \in Nat
      BY <1>3
    <3>2. U \subseteq Nat
      BY <3>1
    <3>3. PICK y \in T : TRUE
      OBVIOUS
    <3>4. n - y \in U
      BY <3>3
    <3> QED BY <3>2, <3>4, Zenon
  <2>2. PICK u \in U : \A v \in U : u <= v
    BY <1>1, <2>1
  <2>3. PICK x \in T : u = n - x
    BY <2>2
  <2>4. ASSUME NEW y \in T PROVE x >= y
    <3>1. n - y \in U
      OBVIOUS
    <3>2. n - x <= n - y
      BY <2>2, <2>3, <3>1
    <3> QED BY <3>2
  <2>5. \E z \in T : \A y \in T : z >= y
    BY <2>4
  <2>6. Max(T) \in T /\ \A y \in T : Max(T) >= y
    <3> HIDE DEF U
    <3> QED BY <2>5, Zenon DEF Max
  <2> QED BY <2>6
<1> QED BY <1>2, <1>3

\* The three things that happen to a list of processed events.
LEMMA Pushed ==
  ASSUME NEW E, NEW q \in Seq(E), NEW e \in E, NEW w, w = <<e>> \o q
  PROVE  /\ w \in Seq(E) /\ w # <<>> /\ Len(w) = Len(q) + 1 /\ w[1] = e
         /\ \A i \in 1 .. Len(q) : i + 1 \in 1 .. Len(w) /\ w[i + 1] = q[i]
         /\ \A i \in 1 .. Len(w) : i # 1 => i - 1 \in 1 .. Len(q) /\ w[i] = q[i - 1]
<1>1. <<e>> \in Seq(E) /\ Len(<<e>>) = 1 /\ <<e>>[1] = e /\ Len(q) \in Nat
  OBVIOUS
<1>2. w \in Seq(E) /\ Len(w) = 1 + Len(q)
      /\ \A i \in 1 .. 1 + Len(q) : w[i] = IF i <= 1 THEN <<e>>[i] ELSE q[i - 1]
  BY <1>1, ConcatProperties
<1>3. w[1] = e /\ w # <<>> /\ Len(w) = Len(q) + 1
  BY <1>1, <1>2
<1>4. ASSUME NEW i \in 1 .. Len(q) PROVE i + 1 \in 1 .. Len(w) /\ w[i + 1] = q[i]
  <2>1. i + 1 \in 1 .. 1 + Len(q) /\ ~(i + 1 <= 1) /\ (i + 1) - 1 = i
    BY <1>1
  <2> QED BY <1>2, <2>1
<1>5. ASSUME NEW i \in 1 .. Len(w), i # 1 PROVE i - 1 \in 1 .. Len(q) /\ w[i] = q[i - 1]
  <2>1. i \in 1 .. 1 + Len(q)
    BY <1>2
  <2>2. ~(i <= 1) /\ i - 1 \in 1 .. Len(q)
    BY <1>1, <1>5, <2>1
  <2> QED BY <1>2, <2>1, <2>2
<1>6. w \in Seq(E)
  BY <1>2
<1> QED BY <1>3, <1>4, <1>5, <1>6

LEMMA Popped ==
  ASSUME NEW E, NEW q \in Seq(E), q # <<>>
  PROVE  /\ Tail(q) \in Seq(E) /\ Len(q) \in Nat \ {0} /\ Len(Tail(q)) = Len(q) - 1
         /\ Head(q) = q[1] /\ Head(q) \in E /\ 1 \in 1 .. Len(q)
         /\ \A i \in 1 .. Len(Tail(q)) : i + 1 \in 1 .. Len(q) /\ Tail(q)[i] = q[i + 1]
         /\ \A i \in 1 .. Len(q) : i # 1 => i - 1 \in 1 .. Len(Tail(q)) /\ Tail(q)[i - 1] = q[i]
<1>1. /\ Tail(q) \in Seq(E) /\ Len(Tail(q)) = Len(q) - 1 /\ Head(q) \in E
      /\ \A i \in 1 .. Len(Tail(q)) : Tail(q)[i] = q[i + 1]
  BY HeadTailProperties
<1>2. Len(q) \in Nat \ {0} /\ Head(q) = q[1]
  BY EmptySeq
<1>3. 1 \in 1 .. Len(q)
  BY <1>2
<1>4. ASSUME NEW i \in 1 .. Len(Tail(q)) PROVE i + 1 \in 1 .. Len(q)
  <2>1. i \in 1 .. Len(q) - 1
    BY <1>1
  <2> QED BY <1>2, <2>1
<1>5. ASSUME NEW i \in 1 .. Len(q), i # 1
      PROVE  i - 1 \in 1 .. Len(Tail(q)) /\ Tail(q)[i - 1] = q[i]
  <2>1. i - 1 \in 1 .. Len(q) - 1 /\ (i - 1) + 1 = i
    BY <1>2, <1>5
  <2>2. i - 1 \in 1 .. Len(Tail(q))
    BY <1>1, <2>1
  <2> QED BY <1>1, <2>1, <2>2
<1> QED BY <1>1, <1>2, <1>3, <1>4, <1>5

LEMMA Cut ==
  ASSUME NEW E, NEW q \in Seq(E), NEW n \in 0 .. Len(q)
  PROVE  /\ SubSeq(q, 1, n) \in Seq(E) /\ Len(SubSeq(q, 1, n)) = n
         /\ \A i \in 1 .. n : i \in 1 .. Len(q) /\ SubSeq(q, 1, n)[i] = q[i]
<1>1. Len(q) \in Nat /\ n \in Nat /\ n <= Len(q)
  OBVIOUS
<1>2. ASSUME NEW i \in 1 .. n PROVE i \in 1 .. Len(q) /\ q[i] \in E
  <2>1. i \in 1 .. Len(q)
    BY <1>1, <1>2
  <2> QED BY <2>1, ElementOfSeq
<1>3. /\ SubSeq(q, 1, n) \in Seq(E) /\ Len(SubSeq(q, 1, n)) = IF 1 <= n THEN n - 1 + 1 ELSE 0
      /\ \A i \in 1 .. n - 1 + 1 : SubSeq(q, 1, n)[i] = q[1 + i - 1]
  BY <1>1, <1>2, SubSeqProperties
<1>4. Len(SubSeq(q, 1, n)) = n
  BY <1>1, <1>3
<1>5. ASSUME NEW i \in 1 .. n PROVE SubSeq(q, 1, n)[i] = q[i]
  <2>1. i \in 1 .. n - 1 + 1 /\ 1 + i - 1 = i
    BY <1>1, <1>5
  <2> QED BY <1>3, <2>1
<1> QED BY <1>2, <1>3, <1>4, <1>5

LEMMA KeptRange ==
  ASSUME NEW q \in Seq(Event), NEW g \in Nat
  PROVE  Kept(q, g) \in 0 .. Len(q)
<1>1. Len(q) \in Nat
  OBVIOUS
<1>2. CASE q = <<>> \/ Sig[q[Len(q)]] >= g
  BY <1>1, <1>2 DEF Kept
<1>3. CASE Sig[q[1]] < g /\ ~(q = <<>> \/ Sig[q[Len(q)]] >= g)
  BY <1>1, <1>3 DEF Kept
<1>4. CASE ~(Sig[q[1]] < g) /\ ~(q = <<>> \/ Sig[q[Len(q)]] >= g)
  <2> DEFINE T == {i \in 1 .. Len(q) : Sig[q[i]] >= g}
  <2>1. q[1] \in Event /\ 1 \in 1 .. Len(q)
    BY <1>4, Popped
  <2>2. Sig[q[1]] \in Nat
    BY <2>1, BatchAssumption
  <2>3. Sig[q[1]] >= g
    BY <1>4, <2>2
  <2>4. 1 \in T /\ T \subseteq 0 .. Len(q) /\ T \in SUBSET Nat /\ T # {}
    BY <1>1, <2>1, <2>3
  <2>5. Kept(q, g) = Max(T)
    BY <1>4 DEF Kept
  <2> HIDE DEF T
  <2>6. Max(T) \in T
    BY <1>1, <2>4, NatBounds
  <2> QED BY <2>4, <2>5, <2>6
<1> QED BY <1>2, <1>3, <1>4

\* The buffers in use, gained and lost.
Live == {e \in Event : loc[e] \in {"pq", "event_q", "anti", "pevent_q"}}

LEMMA LiveInUse ==
  ASSUME TypeOK PROVE Event \ (In("none") \cup In("net") \cup In("committed")) = Live
BY DEF TypeOK, Place, In, Live

LEMMA Apart ==
  ASSUME NEW A, NEW B, IsFiniteSet(A), IsFiniteSet(B), A \cap B = {}
  PROVE  /\ IsFiniteSet(A \cup B) /\ Cardinality(A) \in Nat /\ Cardinality(B) \in Nat
         /\ Cardinality(A \cup B) = Cardinality(A) + Cardinality(B)
<1>1. Cardinality(A \cup B) = Cardinality(A) + Cardinality(B) - Cardinality(A \cap B) /\ IsFiniteSet(A \cup B)
  BY FS_Union
<1>2. Cardinality(A \cap B) = 0
  BY FS_EmptySet
<1>3. Cardinality(A) \in Nat /\ Cardinality(B) \in Nat
  BY FS_CardinalityType
<1> QED BY <1>1, <1>2, <1>3

\* PoolConserved in a step that frees the buffers of A and takes those of B.
LEMMA PoolStep ==
  ASSUME TypeOK, TypeOK', PoolConserved, num_buffers' = num_buffers,
         NEW A, NEW B, A \subseteq Live, B \subseteq Event, B \cap (Live \ A) = {},
         Live' = (Live \ A) \cup B,
         free' + posted' + Cardinality(B) = free + posted + Cardinality(A)
  PROVE  PoolConserved'
<1> USE BatchAssumption
<1>1. Live \subseteq Event /\ IsFiniteSet(Live) /\ IsFiniteSet(A) /\ IsFiniteSet(B) /\ IsFiniteSet(Live \ A)
  <2>1. Live \subseteq Event
    BY DEF Live
  <2> QED BY <2>1, FS_Subset
<1>2. (Live \ A) \cap A = {} /\ (Live \ A) \cup A = Live /\ (Live \ A) \cap B = {}
  OBVIOUS
<1>3. /\ Cardinality(Live) = Cardinality(Live \ A) + Cardinality(A)
      /\ Cardinality(Live \ A) \in Nat /\ Cardinality(A) \in Nat
  <2> HIDE DEF Live
  <2>1. Cardinality((Live \ A) \cup A) = Cardinality(Live \ A) + Cardinality(A)
    BY <1>1, <1>2, Apart
  <2> QED BY <1>1, <1>2, <2>1, FS_CardinalityType
<1>4. Cardinality(Live') = Cardinality(Live \ A) + Cardinality(B) /\ Cardinality(B) \in Nat
  <2> HIDE DEF Live
  <2> QED BY <1>1, <1>2, Apart
<1>5. free + posted + Cardinality(Live) = num_buffers
  BY LiveInUse DEF PoolConserved
<1>6. (Event \ (In("none") \cup In("net") \cup In("committed")))' = Live'
  BY DEF TypeOK, Place, In, Live
<1>7. {free, posted, free', posted', num_buffers} \subseteq Nat
  BY DEF TypeOK
<1>8. free' + posted' + Cardinality(Live') = num_buffers'
  <2> HIDE DEF Live
  <2> QED BY <1>3, <1>4, <1>5, <1>7
<1> QED BY <1>6, <1>8 DEF PoolConserved

-----------------------------------------------------------------------------
LEMMA BatchInit == Init => Inv
<1> SUFFICES ASSUME Init PROVE Inv
  OBVIOUS
<1> USE BatchAssumption
<1>1. IsFiniteSet(Root) /\ Cardinality(Root) \in Nat
  BY FS_Subset, FS_CardinalityType
<1>2. num_buffers \in Nat /\ free \in Nat /\ free + Cardinality(Root) = num_buffers
  BY <1>1 DEF Init
<1>3. TypeOK
  <2>1. loc \in [Event -> Place]
    BY DEF Init, Place
  <2>2. pevent_q \in [KP -> Seq(Event)] /\ last_sig \in [KP -> Nat]
    BY DEF Init
  <2>3. suspend_event \in [LP -> Event \cup {NoEvent}] /\ applied \in [Event -> Int]
    BY DEF Init
  <2> QED BY <1>2, <2>1, <2>2, <2>3 DEF Init, TypeOK
<1>4. \A k \in KP : ListOK(k)
  BY DEF Init, ListOK
<1>5. \A e \in Event : Listed(e) /\ SentOK(e)
  BY DEF Init, Listed, SentOK
<1>6. PhaseOK
  BY DEF Init, PhaseOK
<1>7. PoolConserved
  <2>1. Live = Root
    BY DEF Init, Live
  <2>2. free + posted + Cardinality(Live) = num_buffers
    BY <1>1, <1>2, <2>1 DEF Init
  <2> QED BY <1>3, <2>2, LiveInUse DEF PoolConserved
<1> QED BY <1>3, <1>4, <1>5, <1>6, <1>7 DEF Inv

\* An event in pq has sent nothing when the batch comes to it.
LEMMA SendsNone ==
  ASSUME Inv, pc = "batch", NEW e \in Event, loc[e] = "pq", NEW c \in Sends(e)
  PROVE  c \in Event /\ c \notin Root \cup Arrival /\ Parent[c] = e /\ loc[c] = "none" /\ c # e
<1>1. c \in Event /\ c \notin Root \cup Arrival /\ Parent[c] = e
  BY DEF Sends
<1>2. SentOK(c) /\ cancel_q = {}
  BY <1>1 DEF Inv, PhaseOK
<1>3. loc[c] = "none"
  BY <1>1, <1>2 DEF SentOK
<1> QED BY <1>1, <1>3

LEMMA SameLists ==
  ASSUME Inv, pevent_q' = pevent_q, \A e \in Event : loc'[e] = "pevent_q" <=> loc[e] = "pevent_q"
  PROVE  (\A k \in KP : ListOK(k)') /\ (\A e \in Event : Listed(e)')
<1>1. ASSUME NEW k \in KP PROVE ListOK(k)'
  <2>1. \A i \in 1 .. Len(pevent_q[k]) : pevent_q[k][i] \in Event
    <3>1. pevent_q[k] \in Seq(Event)
      BY DEF Inv, TypeOK
    <3> QED BY <3>1, ElementOfSeq
  <2>2. ListOK(k)
    BY DEF Inv
  <2> QED BY <2>1, <2>2 DEF ListOK
<1>2. ASSUME NEW e \in Event PROVE Listed(e)'
  BY DEF Inv, Listed
<1> QED BY <1>1, <1>2

\* A step that only moves buffers between the pool and MPI, or goes on in the loop.
LEMMA Quiet ==
  ASSUME Inv, UNCHANGED <<queueVars, lpVars, GVT_sig, num_buffers, aborted>>,
         free' \in Nat, posted' \in Nat, free' + posted' = free + posted,
         PhaseOK', pc = "cancel_q" /\ hand # NoEvent => pc' = "cancel_q"
  PROVE  Inv'
<1>1. UNCHANGED <<loc, pevent_q, last_sig, caused, cancel_q, hand, suspend_event, applied>>
  BY DEF queueVars, lpVars
<1>2. TypeOK'
  BY <1>1 DEF Inv, TypeOK
<1>3. (\A k \in KP : ListOK(k)') /\ (\A e \in Event : Listed(e)')
  BY <1>1, SameLists
<1>4. ASSUME NEW c \in Event PROVE SentOK(c)'
  <2>1. SentOK(c)
    BY DEF Inv
  <2>2. pc = "cancel_q" /\ hand = c => pc' = "cancel_q" /\ hand' = c
    BY <1>1, BatchAssumption
  <2> QED BY <1>1, <2>1, <2>2 DEF SentOK
<1>5. PoolConserved'
  <2>1. {free, posted} \subseteq Nat
    BY DEF Inv, TypeOK
  <2>2. Live' = (Live \ {}) \cup {}
    BY <1>1 DEF Live
  <2>3. Cardinality({}) = 0
    BY FS_EmptySet
  <2>4. free' + posted' + Cardinality({}) = free + posted + Cardinality({})
    BY <2>1, <2>3
  <2> QED BY <1>2, <2>2, <2>4, PoolStep DEF Inv
<1> QED BY <1>2, <1>3, <1>4, <1>5 DEF Inv

LEMMA QuietSteps ==
  ASSUME Inv, recv_begin \/ tw_gvt_step1 \/ EventQDone \/ CancelQDone \/ LowBuffers
                \/ BatchDone \/ UNCHANGED vars
  PROVE  Inv'
<1> USE DEF loopVars, extra, poolVars
<1>1. {free, posted} \subseteq Nat /\ PhaseOK
  BY DEF Inv, TypeOK
<1>2. CASE recv_begin
  <2>1. free' \in Nat /\ posted' \in Nat /\ free' + posted' = free + posted
    BY <1>1, <1>2 DEF recv_begin
  <2>2. PhaseOK'
    BY <1>1, <1>2 DEF recv_begin, PhaseOK, queueVars
  <2> QED BY <1>2, <2>1, <2>2, Quiet DEF recv_begin
<1>3. CASE tw_gvt_step1
  <2>1. PhaseOK'
    BY <1>1, <1>3 DEF tw_gvt_step1, PhaseOK, queueVars
  <2> QED BY <1>1, <1>3, <2>1, Quiet DEF tw_gvt_step1
<1>4. CASE EventQDone
  <2>1. PhaseOK'
    BY <1>1, <1>4 DEF EventQDone, PhaseOK, queueVars
  <2> QED BY <1>1, <1>4, <2>1, Quiet DEF EventQDone
<1>5. CASE CancelQDone
  <2>1. PhaseOK'
    BY <1>1, <1>5 DEF CancelQDone, PhaseOK, queueVars
  <2> QED BY <1>1, <1>5, <2>1, Quiet DEF CancelQDone
<1>6. CASE LowBuffers
  <2>1. PhaseOK'
    BY <1>1, <1>6 DEF LowBuffers, ForceUpdate, PhaseOK, queueVars
  <2> QED BY <1>1, <1>6, <2>1, Quiet DEF LowBuffers, ForceUpdate
<1>7. CASE BatchDone
  <2>1. PhaseOK'
    BY <1>1, <1>7 DEF BatchDone, PhaseOK, queueVars
  <2> QED BY <1>1, <1>7, <2>1, Quiet DEF BatchDone
<1>8. CASE UNCHANGED vars
  <2>1. PhaseOK'
    BY <1>1, <1>8 DEF vars, PhaseOK, queueVars
  <2> QED BY <1>1, <1>8, <2>1, Quiet DEF vars
<1> QED BY <1>2, <1>3, <1>4, <1>5, <1>6, <1>7, <1>8

\* One event, e, may go to another place; the lists stay.
LEMMA Moved ==
  ASSUME Inv, NEW e \in Event, NEW l \in Place,
         l = "pevent_q" <=> loc[e] = "pevent_q", loc' = [loc EXCEPT ![e] = l],
         UNCHANGED <<pevent_q, last_sig, caused, lpVars, GVT_sig, num_buffers, aborted>>,
         cancel_q' \subseteq cancel_q, hand' \in Event \cup {NoEvent},
         free' \in Nat, posted' \in Nat,
         free' + posted' + (IF e \in Live' THEN 1 ELSE 0) = free + posted + (IF e \in Live THEN 1 ELSE 0),
         PhaseOK',
         \A c \in Event : SentOK(c) => SentOK(c)'
  PROVE  Inv'
<1> USE BatchAssumption
<1>1. TypeOK'
  BY DEF Inv, TypeOK, lpVars
<1>2. \A f \in Event : loc'[f] = IF f = e THEN l ELSE loc[f]
  BY DEF Inv, TypeOK
<1>3. (\A k \in KP : ListOK(k)') /\ (\A f \in Event : Listed(f)')
  BY <1>2, SameLists
<1>4. PoolConserved'
  <2> DEFINE A == IF e \in Live THEN {e} ELSE {}
             B == IF e \in Live' THEN {e} ELSE {}
  <2>1. A \subseteq Live /\ B \subseteq Event
    OBVIOUS
  <2>2. \A f \in Event : f # e => (f \in Live' <=> f \in Live)
    BY <1>2 DEF Live
  <2>3. Live \subseteq Event /\ Live' \subseteq Event
    BY DEF Live
  <2>4. Live' = (Live \ A) \cup B
    BY <2>2, <2>3
  <2>5. Cardinality(A) = (IF e \in Live THEN 1 ELSE 0) /\ Cardinality(B) = (IF e \in Live' THEN 1 ELSE 0)
    BY FS_EmptySet, FS_Singleton
  <2>6. free' + posted' + Cardinality(B) = free + posted + Cardinality(A)
    BY <2>5
  <2>7. B \cap (Live \ A) = {}
    OBVIOUS
  <2> HIDE DEF A, B
  <2> QED BY <1>1, <2>1, <2>4, <2>6, <2>7, PoolStep DEF Inv
<1> QED BY <1>1, <1>3, <1>4 DEF Inv

LEMMA BatchRecvFinish == ASSUME Inv, NEW e \in Event, recv_finish(e) PROVE Inv'
<1> USE DEF loopVars, extra
<1>1. PICK l \in {"pq", "event_q"} : loc' = [loc EXCEPT ![e] = l]
  BY DEF recv_finish
<1>2. /\ pc \in {"net_read", "step2"} /\ loc[e] = "net" /\ posted > 0 /\ posted' = posted - 1
      /\ UNCHANGED <<pevent_q, last_sig, caused, cancel_q, hand, free, lpVars, pc, GVT_sig, num_buffers, aborted>>
  BY DEF recv_finish
<1>3. \A f \in Event : loc'[f] = IF f = e THEN l ELSE loc[f]
  BY <1>1 DEF Inv, TypeOK
<1>4. e \in Live' /\ e \notin Live
  BY <1>2, <1>3 DEF Live
<1>5. posted' \in Nat /\ free' \in Nat /\ free' + posted' + 1 = free + posted + 0
  BY <1>2 DEF Inv, TypeOK
<1>6. hand = NoEvent /\ PhaseOK'
  BY <1>2 DEF Inv, PhaseOK
<1>7. ASSUME NEW c \in Event, SentOK(c) PROVE SentOK(c)'
  <2>1. Parent[c] \in Event
    BY BatchAssumption
  <2> QED BY <1>2, <1>3, <1>7, <2>1 DEF SentOK
<1>8. free' + posted' + (IF e \in Live' THEN 1 ELSE 0) = free + posted + (IF e \in Live THEN 1 ELSE 0)
  BY <1>4, <1>5
<1>9. l \in Place /\ (l = "pevent_q" <=> loc[e] = "pevent_q") /\ hand' \in Event \cup {NoEvent}
  BY <1>2, <1>6 DEF Place
<1> QED BY <1>1, <1>2, <1>5, <1>6, <1>7, <1>8, <1>9, Moved

LEMMA BatchSchedEvent == ASSUME Inv, NEW e \in Event, SchedEvent(e) PROVE Inv'
<1> USE DEF loopVars, extra, poolVars
<1>1. /\ pc = "event_q" /\ loc[e] = "event_q" /\ hand = NoEvent
      /\ UNCHANGED <<pevent_q, last_sig, caused, cancel_q, free, posted, lpVars, pc, GVT_sig, num_buffers, aborted>>
  BY DEF SchedEvent
<1>2. PICK l \in {"anti", "pq", "event_q"} :
         /\ loc' = [loc EXCEPT ![e] = l]
         /\ hand' = NoEvent \/ (hand' = e /\ e \notin cancel_q /\ l = "event_q")
  <2>1. loc' = loc => loc' = [loc EXCEPT ![e] = "event_q"]
    BY <1>1 DEF Inv, TypeOK
  <2> QED BY <1>1, <2>1 DEF SchedEvent
<1>3. \A f \in Event : loc'[f] = IF f = e THEN l ELSE loc[f]
  BY <1>2 DEF Inv, TypeOK
<1>4. e \in Live' /\ e \in Live
  BY <1>1, <1>3 DEF Live
<1>5. posted' \in Nat /\ free' \in Nat /\ free' + posted' = free + posted
  BY <1>1 DEF Inv, TypeOK
<1>6. PhaseOK'
  BY <1>1, <1>2, <1>3 DEF Inv, PhaseOK
<1>7. ASSUME NEW c \in Event, SentOK(c) PROVE SentOK(c)'
  <2>1. Parent[c] \in Event
    BY BatchAssumption
  <2> QED BY <1>1, <1>3, <1>7, <2>1 DEF SentOK
<1>8. free' + posted' + (IF e \in Live' THEN 1 ELSE 0) = free + posted + (IF e \in Live THEN 1 ELSE 0)
  BY <1>4, <1>5
<1>9. l \in Place /\ (l = "pevent_q" <=> loc[e] = "pevent_q") /\ hand' \in Event \cup {NoEvent}
  BY <1>1, <1>2 DEF Place
<1> QED BY <1>1, <1>2, <1>5, <1>6, <1>7, <1>8, <1>9, Moved

LEMMA BatchEnqueueHand == ASSUME Inv, EnqueueHand PROVE Inv'
<1> USE DEF loopVars, extra, poolVars
<1>1. /\ pc = "event_q" /\ loc[hand] = "event_q" /\ hand \in Event /\ hand' = NoEvent
      /\ loc' = [loc EXCEPT ![hand] = "pq"]
      /\ UNCHANGED <<pevent_q, last_sig, caused, cancel_q, free, posted, lpVars, pc, GVT_sig, num_buffers, aborted>>
  BY DEF EnqueueHand, Inv, PhaseOK, TypeOK
<1>2. PICK e \in Event : e = hand
  BY <1>1
<1>3. \A f \in Event : loc'[f] = IF f = e THEN "pq" ELSE loc[f]
  BY <1>1, <1>2 DEF Inv, TypeOK
<1>4. e \in Live' /\ e \in Live
  BY <1>1, <1>2, <1>3 DEF Live
<1>5. posted' \in Nat /\ free' \in Nat /\ free' + posted' = free + posted
  BY <1>1 DEF Inv, TypeOK
<1>6. PhaseOK'
  BY <1>1 DEF Inv, PhaseOK
<1>7. ASSUME NEW c \in Event, SentOK(c) PROVE SentOK(c)'
  <2>1. Parent[c] \in Event
    BY BatchAssumption
  <2> QED BY <1>1, <1>2, <1>3, <1>7, <2>1 DEF SentOK
<1>8. free' + posted' + (IF e \in Live' THEN 1 ELSE 0) = free + posted + (IF e \in Live THEN 1 ELSE 0)
  BY <1>4, <1>5
<1>9. "pq" \in Place /\ loc[e] # "pevent_q" /\ hand' \in Event \cup {NoEvent} /\ loc' = [loc EXCEPT ![e] = "pq"]
  BY <1>1, <1>2 DEF Place
<1> QED BY <1>1, <1>5, <1>6, <1>7, <1>8, <1>9, Moved

LEMMA BatchSchedCancel == ASSUME Inv, NEW e \in Event, SchedCancel(e) PROVE Inv'
<1> USE DEF loopVars, extra
<1>1. /\ pc = "cancel_q" /\ hand = NoEvent /\ e \in cancel_q /\ cancel_q' = cancel_q \ {e}
      /\ UNCHANGED <<pevent_q, last_sig, caused, posted, lpVars, pc, GVT_sig, num_buffers, aborted>>
  BY DEF SchedCancel
<1>2. e \notin caused
  BY <1>1 DEF Inv, SentOK
<1>3. CASE loc[e] \in {"event_q", "anti", "pq"} /\ loc' = [loc EXCEPT ![e] = "none"] /\ free' = free + 1 /\ UNCHANGED hand
  <2>1. \A f \in Event : loc'[f] = IF f = e THEN "none" ELSE loc[f]
    BY <1>3 DEF Inv, TypeOK
  <2>2. e \notin Live' /\ e \in Live
    BY <1>3, <2>1 DEF Live
  <2>3. posted' \in Nat /\ free' \in Nat /\ free' + posted' + 0 = free + posted + 1
    BY <1>1, <1>3 DEF Inv, TypeOK
  <2>4. PhaseOK'
    BY <1>1, <1>3 DEF Inv, PhaseOK
  <2>5. ASSUME NEW c \in Event, SentOK(c) PROVE SentOK(c)'
    <3>1. Parent[c] \in Event /\ c # NoEvent
      BY BatchAssumption
    <3>2. loc'[Parent[c]] \in {"pevent_q", "committed"} \/ loc[Parent[c]] \in {"pevent_q", "committed"} => loc'[Parent[c]] = loc[Parent[c]]
      BY <1>3, <2>1, <3>1
    <3> QED BY <1>1, <1>2, <2>1, <2>5, <3>1, <3>2 DEF SentOK
  <2>6. free' + posted' + (IF e \in Live' THEN 1 ELSE 0) = free + posted + (IF e \in Live THEN 1 ELSE 0)
    BY <2>2, <2>3
  <2>7. "none" \in Place /\ loc[e] # "pevent_q" /\ hand' \in Event \cup {NoEvent} /\ cancel_q' \subseteq cancel_q
    BY <1>1, <1>3 DEF Place
  <2> QED BY <1>1, <1>3, <2>3, <2>4, <2>5, <2>6, <2>7, Moved
<1>4. CASE loc[e] = "pevent_q" /\ hand' = e /\ UNCHANGED <<loc, free>>
  <2>1. loc' = [loc EXCEPT ![e] = "pevent_q"]
    BY <1>4 DEF Inv, TypeOK
  <2>2. e \in Live' /\ e \in Live
    BY <1>4 DEF Live
  <2>3. posted' \in Nat /\ free' \in Nat /\ free' + posted' = free + posted
    BY <1>1, <1>4 DEF Inv, TypeOK
  <2>4. PhaseOK'
    BY <1>1, <1>2, <1>4 DEF Inv, PhaseOK
  <2>5. ASSUME NEW c \in Event, SentOK(c) PROVE SentOK(c)'
    <3>1. c # NoEvent
      BY BatchAssumption
    <3> QED BY <1>1, <1>2, <1>4, <2>5, <3>1 DEF SentOK
  <2>6. free' + posted' + (IF e \in Live' THEN 1 ELSE 0) = free + posted + (IF e \in Live THEN 1 ELSE 0)
    BY <2>2, <2>3
  <2>7. "pevent_q" \in Place /\ hand' \in Event \cup {NoEvent} /\ cancel_q' \subseteq cancel_q
    BY <1>1, <1>4 DEF Place
  <2> QED BY <1>1, <1>4, <2>1, <2>3, <2>4, <2>5, <2>6, <2>7, Moved
<1> QED BY <1>3, <1>4 DEF SchedCancel

-----------------------------------------------------------------------------
\* The undo of f, the head of the list of k: it frees what D holds, and f too
\* if last; G is the rest of what f had sent.
Undoes(k, f, D, G, last) ==
  /\ k \in KP /\ f \in Event /\ pevent_q[k] \in Seq(Event) /\ pevent_q[k] # <<>> /\ Head(pevent_q[k]) = f
  /\ k = Kp[hand] /\ hand \in Event /\ hand # NoEvent
  /\ f = pevent_q[k][1] /\ loc[f] = "pevent_q" /\ Kp[f] = k
  /\ \A c \in Event : c \in D \cup G <=> c \in caused /\ Parent[c] = f
  /\ D \subseteq Event /\ G \subseteq Event
  /\ \A c \in D : loc[c] = "pq"
  /\ \A c \in G : loc[c] # "pq"
  /\ last <=> pc = "cancel_q" /\ f = hand
  /\ pc = "event_q" => Sig[f] >= Sig[hand]
  /\ pc \in {"event_q", "cancel_q"}
  /\ pevent_q' = [pevent_q EXCEPT ![k] = Tail(pevent_q[k])]
  /\ last_sig' = [last_sig EXCEPT ![k] = IF Tail(pevent_q[k]) = <<>> THEN GVT_sig
                                         ELSE Sig[Head(Tail(pevent_q[k]))]]
  /\ caused' = caused \ (D \cup G)
  /\ cancel_q' = cancel_q \cup G
  /\ \A e \in Event : loc'[e] = IF e = f THEN IF last THEN "none" ELSE "pq"
                                ELSE IF e \in D THEN "none" ELSE loc[e]
  /\ free' = free + Cardinality(D) + (IF last THEN 1 ELSE 0)
  /\ hand' = IF last THEN NoEvent ELSE hand
  /\ applied' = [applied EXCEPT ![f] = IF Reverses(f) THEN @ - 1 ELSE @]
  /\ suspend_event' = [suspend_event EXCEPT ![Lp[f]] = IF @ = f THEN NoEvent ELSE @]
  /\ UNCHANGED <<posted, pc, GVT_sig, num_buffers, aborted>>

LEMMA UndoIs ==
  ASSUME Inv, Undo
  PROVE  \E k, f, D, G : \E last \in BOOLEAN : Undoes(k, f, D, G, last)
<1> USE BatchAssumption
<1> DEFINE k == Kp[hand]
           f == Head(pevent_q[k])
           C == {c \in caused : Parent[c] = f}
           D == {c \in C : loc[c] = "pq"}
           last == (pc = "cancel_q" /\ f = hand)
<1>1. hand \in Event /\ hand # NoEvent /\ k \in KP /\ pevent_q[k] # <<>> /\ pevent_q[k] \in Seq(Event)
  BY DEF Undo, Inv, TypeOK
<1>2. f = pevent_q[k][1] /\ f \in Event /\ 1 \in 1 .. Len(pevent_q[k])
  BY <1>1, Popped
<1>3. loc[f] = "pevent_q" /\ Kp[f] = k
  <2>1. ListOK(k)
    BY <1>1 DEF Inv
  <2> HIDE DEF k, f
  <2> QED BY <1>2, <2>1 DEF ListOK
<1>4. caused \subseteq Event
  BY DEF Inv, TypeOK
<1>5. pc = "event_q" => Sig[f] >= Sig[hand]
  BY DEF Undo, MustUndo
<1>6. pc \in {"event_q", "cancel_q"}
  BY <1>1 DEF Inv, PhaseOK
<1>7. C \ D = {c \in C : loc[c] # "pq"}
  OBVIOUS
<1>8. last \in BOOLEAN
  OBVIOUS
<1>9. Undoes(k, f, D, C \ D, last)
  <2>1. \A c \in Event : c \in D \cup (C \ D) <=> c \in caused /\ Parent[c] = f
    OBVIOUS
  <2>2. caused' = caused \ (D \cup (C \ D)) /\ cancel_q' = cancel_q \cup (C \ D)
    BY DEF Undo
  <2>3. \A e \in Event : loc'[e] = IF e = f THEN IF last THEN "none" ELSE "pq"
                                   ELSE IF e \in D THEN "none" ELSE loc[e]
    BY DEF Undo
  <2>4. /\ pevent_q' = [pevent_q EXCEPT ![k] = Tail(pevent_q[k])]
        /\ last_sig' = [last_sig EXCEPT ![k] = IF Tail(pevent_q[k]) = <<>> THEN GVT_sig
                                               ELSE Sig[Head(Tail(pevent_q[k]))]]
        /\ free' = free + Cardinality(D) + (IF last THEN 1 ELSE 0)
        /\ hand' = IF last THEN NoEvent ELSE hand
    BY DEF Undo
  <2>5. /\ applied' = [applied EXCEPT ![f] = IF Reverses(f) THEN @ - 1 ELSE @]
        /\ suspend_event' = [suspend_event EXCEPT ![Lp[f]] = IF @ = f THEN NoEvent ELSE @]
        /\ UNCHANGED <<posted, pc, GVT_sig, num_buffers, aborted>>
    BY DEF Undo, loopVars, extra
  <2>6. D \subseteq Event /\ C \ D \subseteq Event /\ (\A c \in D : loc[c] = "pq") /\ (\A c \in C \ D : loc[c] # "pq")
    BY <1>4
  <2>7. last <=> pc = "cancel_q" /\ f = hand
    OBVIOUS
  <2> DEFINE G == C \ D
  <2>8. G = C \ D /\ k = Kp[hand] /\ f = Head(pevent_q[k])
    OBVIOUS
  <2> HIDE DEF D, C, last, f, k, G
  <2> QED BY <1>1, <1>2, <1>3, <1>5, <1>6, <2>1, <2>2, <2>3, <2>4, <2>5, <2>6, <2>7, <2>8 DEF Undoes
<1> HIDE DEF D, C, last, f, k
<1> QED BY <1>8, <1>9

LEMMA BatchUndo ==
  ASSUME Inv, NEW k, NEW f, NEW D, NEW G, NEW last \in BOOLEAN, Undoes(k, f, D, G, last),
         TypeOK'
  PROVE  Inv'
<1> USE BatchAssumption
<1> DEFINE q == pevent_q[k]
<1>1. /\ k \in KP /\ f \in Event /\ q \in Seq(Event) /\ q # <<>> /\ f = q[1]
      /\ hand \in Event /\ loc[f] = "pevent_q" /\ Kp[f] = k
      /\ pevent_q'[k] = Tail(q) /\ \A j \in KP : j # k => pevent_q'[j] = pevent_q[j]
  BY DEF Undoes, Inv, TypeOK
<1>2. \A e \in Event : loc'[e] = IF e = f THEN IF last THEN "none" ELSE "pq"
                                 ELSE IF e \in D THEN "none" ELSE loc[e]
  BY DEF Undoes
<1>3. /\ \A e \in Event : loc'[e] = "pevent_q" <=> loc[e] = "pevent_q" /\ e # f
      /\ \A e \in Event : loc'[e] = "committed" <=> loc[e] = "committed"
      /\ \A e \in Event : loc[e] \notin {"pq", "pevent_q"} => loc'[e] = loc[e]
  <2>1. \A c \in D : loc[c] = "pq"
    BY DEF Undoes
  <2> QED BY <1>1, <1>2, <2>1
<1>4. Parent[f] # f \/ f \in Root \cup Arrival
  BY <1>1
<1> HIDE DEF q
<1>5. /\ Tail(q) \in Seq(Event) /\ 1 \in 1 .. Len(q)
      /\ \A i \in 1 .. Len(Tail(q)) : i + 1 \in 1 .. Len(q) /\ Tail(q)[i] = q[i + 1]
      /\ \A i \in 1 .. Len(q) : i # 1 => i - 1 \in 1 .. Len(Tail(q)) /\ Tail(q)[i - 1] = q[i]
  BY <1>1, Popped
<1>6. ASSUME NEW j \in KP PROVE ListOK(j)'
  <2>1. CASE j = k
    <3>1. ListOK(k) /\ q = pevent_q[k]
      BY <1>1 DEF Inv, q
    <3>2. ASSUME NEW i \in 1 .. Len(Tail(q))
          PROVE  loc'[Tail(q)[i]] = "pevent_q" /\ Kp[Tail(q)[i]] = k
      <4>1. i + 1 \in 1 .. Len(q) /\ Tail(q)[i] = q[i + 1] /\ i + 1 # 1
        BY <1>5
      <4>2. q[i + 1] \in Event
        BY <1>1, <4>1, ElementOfSeq
      <4>3. loc[q[i + 1]] = "pevent_q" /\ Kp[q[i + 1]] = k /\ q[i + 1] # q[1]
        BY <1>5, <3>1, <4>1 DEF ListOK
      <4> QED BY <1>1, <1>3, <4>1, <4>2, <4>3
    <3>3. ASSUME NEW i \in 1 .. Len(Tail(q)), NEW m \in 1 .. Len(Tail(q)), i # m
          PROVE  Tail(q)[i] # Tail(q)[m]
      <4>1. i + 1 \in 1 .. Len(q) /\ Tail(q)[i] = q[i + 1] /\ m + 1 \in 1 .. Len(q) /\ Tail(q)[m] = q[m + 1]
        BY <1>5
      <4>2. i + 1 # m + 1
        BY <3>3
      <4> QED BY <3>1, <4>1, <4>2 DEF ListOK
    <3>4. pevent_q'[j] = Tail(q)
      BY <1>1, <2>1
    <3> QED BY <2>1, <3>2, <3>3, <3>4 DEF ListOK
  <2>2. CASE j # k
    <3>1. ListOK(j) /\ pevent_q'[j] = pevent_q[j] /\ pevent_q[j] \in Seq(Event)
      BY <1>1, <2>2 DEF Inv, TypeOK
    <3>2. ASSUME NEW i \in 1 .. Len(pevent_q[j]) PROVE loc'[pevent_q[j][i]] = "pevent_q"
      <4>1. pevent_q[j][i] \in Event
        BY <3>1, ElementOfSeq
      <4>2. loc[pevent_q[j][i]] = "pevent_q" /\ Kp[pevent_q[j][i]] = j
        BY <3>1 DEF ListOK
      <4> QED BY <1>1, <1>3, <2>2, <4>1, <4>2
    <3> QED BY <3>1, <3>2 DEF ListOK
  <2> QED BY <2>1, <2>2
<1>7. ASSUME NEW e \in Event PROVE Listed(e)'
  <2>1. SUFFICES ASSUME loc'[e] = "pevent_q"
                 PROVE  \E i \in 1 .. Len(pevent_q'[Kp[e]]) : pevent_q'[Kp[e]][i] = e
    BY DEF Listed
  <2>2. loc[e] = "pevent_q" /\ e # f /\ Kp[e] \in KP
    BY <1>3, <2>1
  <2>3. PICK i \in 1 .. Len(pevent_q[Kp[e]]) : pevent_q[Kp[e]][i] = e
    BY <2>2 DEF Inv, Listed
  <2>4. CASE Kp[e] = k
    <3>1. i \in 1 .. Len(q) /\ q[i] = e /\ i # 1
      BY <1>1, <2>2, <2>3, <2>4 DEF q
    <3>2. i - 1 \in 1 .. Len(Tail(q)) /\ Tail(q)[i - 1] = e
      BY <1>5, <3>1
    <3> QED BY <1>1, <2>4, <3>2
  <2>5. CASE Kp[e] # k
    BY <1>1, <2>2, <2>3, <2>5
  <2> QED BY <2>4, <2>5
<1>8. PhaseOK'
  <2>1. hand \notin cancel_q /\ pc' = pc /\ pc \in {"event_q", "cancel_q"}
    BY <1>1 DEF Inv, PhaseOK, Undoes
  <2>2. hand \notin G
    <3>1. hand \in G => hand \in caused /\ Parent[hand] = f
      BY <1>1 DEF Undoes
    <3>2. CASE pc = "event_q"
      <4>1. Sig[f] >= Sig[hand]
        BY <3>2 DEF Undoes
      <4>2. hand \in caused => hand \notin Root \cup Arrival
        BY <1>1 DEF Inv, SentOK
      <4>3. hand \notin Root \cup Arrival => Sig[Parent[hand]] < Sig[hand]
        BY <1>1
      <4>4. Sig[f] \in Nat /\ Sig[hand] \in Nat
        BY <1>1
      <4> QED BY <3>1, <4>1, <4>2, <4>3, <4>4
    <3>3. CASE pc = "cancel_q"
      BY <1>1, <3>1, <3>3 DEF Inv, PhaseOK
    <3> QED BY <2>1, <3>2, <3>3
  <2>3. hand \notin cancel_q' /\ hand' = (IF last THEN NoEvent ELSE hand) /\ caused' \subseteq caused
    BY <2>1, <2>2 DEF Undoes
  <2>4. ~last /\ pc = "event_q" => loc'[hand] = "event_q"
    BY <1>1, <1>3 DEF Inv, PhaseOK
  <2>5. ~last /\ pc = "cancel_q" => loc'[hand] = "pevent_q" /\ hand \notin caused
    <3>1. last <=> pc = "cancel_q" /\ f = hand
      BY DEF Undoes
    <3> QED BY <1>1, <1>3, <3>1 DEF Inv, PhaseOK
  <2> QED BY <2>1, <2>3, <2>4, <2>5 DEF PhaseOK
<1>9. ASSUME NEW c \in Event PROVE SentOK(c)'
  <2>1. SentOK(c) /\ Parent[c] \in Event
    BY DEF Inv
  <2>2. /\ caused' = caused \ (D \cup G) /\ cancel_q' = cancel_q \cup G /\ pc' = pc
        /\ hand' = (IF last THEN NoEvent ELSE hand) /\ (last => f = hand)
        /\ (pc = "cancel_q" /\ f = hand => last)
        /\ (c \in D \cup G <=> c \in caused /\ Parent[c] = f)
        /\ (c \in D => loc[c] = "pq")
    BY DEF Undoes
  <2>3. c \in caused' => c \notin Root \cup Arrival /\ loc'[Parent[c]] = "pevent_q" /\ c \notin cancel_q'
    BY <1>3, <2>1, <2>2 DEF SentOK
  <2>4. ASSUME c \notin Root \cup Arrival, loc'[c] # "none"
        PROVE  c \in caused' \/ c \in cancel_q' \/ (pc' = "cancel_q" /\ hand' = c) \/ loc'[Parent[c]] = "committed"
    <3>1. c \notin D /\ (c = f => ~last) /\ loc[c] # "none"
      BY <1>1, <1>2, <2>2, <2>4
    <3>2. c \in caused \/ c \in cancel_q \/ (pc = "cancel_q" /\ hand = c) \/ loc[Parent[c]] = "committed"
      BY <2>1, <2>4, <3>1 DEF SentOK
    <3> QED BY <1>3, <2>1, <2>2, <3>1, <3>2
  <2> QED BY <2>3, <2>4 DEF SentOK
<1>10. PoolConserved'
  <2> DEFINE E == IF last THEN {f} ELSE {}
             A == D \cup E
  <2>1. D \subseteq Event /\ IsFiniteSet(D) /\ IsFiniteSet(E) /\ f \notin D /\ D \cap E = {}
    <3>1. D \subseteq Event /\ f \notin D
      BY <1>1 DEF Undoes
    <3>2. IsFiniteSet(D)
      BY <3>1, FS_Subset
    <3>3. IsFiniteSet({f}) /\ IsFiniteSet({})
      BY FS_EmptySet, FS_Singleton
    <3>4. E \subseteq {f} /\ IsFiniteSet(E)
      BY <3>3
    <3> HIDE DEF E
    <3> QED BY <3>1, <3>2, <3>4
  <2>2. Cardinality(E) = (IF last THEN 1 ELSE 0)
    BY FS_EmptySet, FS_Singleton
  <2>3. Cardinality(A) = Cardinality(D) + Cardinality(E) /\ Cardinality(D) \in Nat
    <3> HIDE DEF E
    <3> QED BY <2>1, Apart
  <2>4. A \subseteq Live
    BY <1>1 DEF Live, Undoes
  <2>5. Live' = (Live \ A) \cup {}
    <3>1. Live \subseteq Event /\ Live' \subseteq Event
      BY DEF Live
    <3>2. ASSUME NEW e \in Event PROVE e \in Live' <=> e \in Live /\ e \notin A
      <4>1. CASE e = f
        BY <1>1, <1>2, <2>1, <4>1 DEF Live
      <4>2. CASE e # f
        <5>1. e \in A <=> e \in D
          BY <4>2
        <5> HIDE DEF A
        <5> QED BY <1>2, <4>2, <5>1 DEF Live
      <4> QED BY <4>1, <4>2
    <3> HIDE DEF A
    <3> QED BY <3>1, <3>2
  <2>6. free' = free + Cardinality(D) + (IF last THEN 1 ELSE 0) /\ posted' = posted /\ num_buffers' = num_buffers
    BY DEF Undoes
  <2>7. Cardinality({}) = 0 /\ {free, posted} \subseteq Nat
    BY FS_EmptySet DEF Inv, TypeOK
  <2>8. free' + posted' + Cardinality({}) = free + posted + Cardinality(A)
    <3> HIDE DEF A, E
    <3>1. CASE last
      BY <2>2, <2>3, <2>6, <2>7, <3>1
    <3>2. CASE ~last
      BY <2>2, <2>3, <2>6, <2>7, <3>2
    <3> QED BY <3>1, <3>2
  <2> HIDE DEF A
  <2> QED BY <2>4, <2>5, <2>6, <2>8, PoolStep DEF Inv
<1> QED BY <1>6, <1>7, <1>8, <1>9, <1>10 DEF Inv

LEMMA UndoType ==
  ASSUME Inv, Undo, NEW k, NEW f, NEW D, NEW G, NEW last \in BOOLEAN, Undoes(k, f, D, G, last)
  PROVE  TypeOK'
<1> USE BatchAssumption
<1>1. k \in KP /\ f \in Event /\ pevent_q[k] \in Seq(Event) /\ pevent_q[k] # <<>> /\ D \subseteq Event /\ G \subseteq Event
  BY DEF Undoes
<1>2. Tail(pevent_q[k]) \in Seq(Event)
  BY <1>1, Popped
<1>3. loc' \in [Event -> Place]
  <2> DEFINE Loc(e, A) == IF e = Head(pevent_q[Kp[hand]])
                          THEN IF pc = "cancel_q" /\ Head(pevent_q[Kp[hand]]) = hand THEN "none" ELSE "pq"
                          ELSE IF e \in A THEN "none" ELSE loc[e]
  <2>1. PICK A : loc' = [e \in Event |-> Loc(e, A)]
    BY DEF Undo
  <2>2. \A e \in Event : Loc(e, A) \in Place
    BY DEF Inv, TypeOK, Place
  <2> HIDE DEF Loc
  <2> QED BY <2>1, <2>2
<1>4. pevent_q' \in [KP -> Seq(Event)]
  BY <1>1, <1>2 DEF Undoes, Inv, TypeOK
<1>5. last_sig' \in [KP -> Nat]
  <2>1. Tail(pevent_q[k]) # <<>> => Head(Tail(pevent_q[k])) \in Event
    BY <1>2, Popped
  <2>2. \A e \in Event : Sig[e] \in Nat
    OBVIOUS
  <2>3. (IF Tail(pevent_q[k]) = <<>> THEN GVT_sig ELSE Sig[Head(Tail(pevent_q[k]))]) \in Nat
    BY <2>1, <2>2 DEF Inv, TypeOK
  <2> QED BY <1>1, <2>3 DEF Undoes, Inv, TypeOK
<1>6. caused' \subseteq Event /\ cancel_q' \subseteq Event /\ hand' \in Event \cup {NoEvent}
  BY <1>1 DEF Undoes, Inv, TypeOK
<1>7. free' \in Nat
  <2>1. Cardinality(D) \in Nat
    BY <1>1, FS_Subset, FS_CardinalityType
  <2>2. free \in Nat /\ free' = free + Cardinality(D) + (IF last THEN 1 ELSE 0)
    BY DEF Undoes, Inv, TypeOK
  <2> QED BY <2>1, <2>2
<1>8. suspend_event' \in [LP -> Event \cup {NoEvent}]
  BY <1>1 DEF Undoes, Inv, TypeOK
<1>9. applied' \in [Event -> Int]
  <2>1. applied \in [Event -> Int] /\ applied[f] \in Int
    BY <1>1 DEF Inv, TypeOK
  <2>2. applied' = [applied EXCEPT ![f] = IF Reverses(f) THEN applied[f] - 1 ELSE applied[f]]
    BY <1>1 DEF Undoes
  <2>3. applied[f] - 1 \in Int
    BY <2>1
  <2>4. CASE Reverses(f)
    BY <2>1, <2>2, <2>3, <2>4
  <2>5. CASE ~Reverses(f)
    BY <2>1, <2>2, <2>5
  <2> QED BY <2>4, <2>5
<1>10. UNCHANGED <<posted, GVT_sig, num_buffers, aborted>>
  BY DEF Undoes
<1> QED BY <1>3, <1>4, <1>5, <1>6, <1>7, <1>8, <1>9, <1>10 DEF Inv, TypeOK

-----------------------------------------------------------------------------
\* A fossil collection: F is committed, and of the list of k the newest n[k] stay.
Collects(F, n) ==
  /\ pc = "step2" /\ F \subseteq Event
  /\ \A k \in KP : n[k] \in 0 .. Len(pevent_q[k]) /\ pevent_q'[k] = SubSeq(pevent_q[k], 1, n[k])
  /\ pevent_q' \in [KP -> Seq(Event)]
  /\ \A f \in F : loc[f] = "pevent_q"
  /\ \A f \in Event : loc[f] = "pevent_q" =>
       (f \in F <=> \E i \in 1 .. Len(pevent_q[Kp[f]]) : n[Kp[f]] < i /\ f = pevent_q[Kp[f]][i])
  /\ \A e \in Event : loc'[e] = IF e \in F THEN "committed" ELSE loc[e]
  /\ loc' \in [Event -> Place]
  /\ GVT_sig' \in Nat /\ pc' \in {"done", "batch"}
  /\ caused' = {c \in caused : Parent[c] \notin F}
  /\ free' = free + Cardinality(F)
  /\ UNCHANGED <<last_sig, cancel_q, hand, posted, lpVars, num_buffers, aborted>>

LEMMA CollectIs == ASSUME Inv, tw_gvt_step2 PROVE \E F, n : Collects(F, n)
<1> USE BatchAssumption
<1> DEFINE g == NewGvt
           F == {f \in In("pevent_q") :
                   \E i \in Kept(pevent_q[Kp[f]], g) + 1 .. Len(pevent_q[Kp[f]]) :
                      f = pevent_q[Kp[f]][i]}
           n == [k \in KP |-> Kept(pevent_q[k], g)]
<1>1. g \in Nat
  <2> DEFINE T == {MaxSig} \cup {Sig[e] : e \in In("pq") \cup In("event_q") \cup In("net")}
  <2>1. T \in SUBSET Nat /\ T # {}
    BY DEF In
  <2>2. g = Min(T)
    BY DEF NewGvt
  <2> HIDE DEF T
  <2> QED BY <2>1, <2>2, NatBounds
<1>2. /\ pc = "step2" /\ GVT_sig' = g /\ pc' \in {"done", "batch"}
      /\ loc' = [e \in Event |-> IF e \in F THEN "committed" ELSE loc[e]]
      /\ pevent_q' = [k \in KP |-> SubSeq(pevent_q[k], 1, Kept(pevent_q[k], g))]
      /\ caused' = {c \in caused : Parent[c] \notin F}
      /\ free' = free + Cardinality(F)
      /\ UNCHANGED <<last_sig, cancel_q, hand, posted, lpVars, num_buffers, aborted>>
  BY DEF tw_gvt_step2, extra
<1> HIDE DEF g
<1>3. ASSUME NEW k \in KP
      PROVE  /\ n[k] = Kept(pevent_q[k], g) /\ n[k] \in 0 .. Len(pevent_q[k])
             /\ pevent_q'[k] = SubSeq(pevent_q[k], 1, n[k]) /\ pevent_q'[k] \in Seq(Event)
             /\ Len(pevent_q[k]) \in Nat
  <2>1. pevent_q[k] \in Seq(Event) /\ Len(pevent_q[k]) \in Nat
    BY DEF Inv, TypeOK
  <2>2. n[k] = Kept(pevent_q[k], g) /\ n[k] \in 0 .. Len(pevent_q[k])
    BY <1>1, <2>1, KeptRange
  <2>3. pevent_q'[k] = SubSeq(pevent_q[k], 1, n[k])
    BY <1>2
  <2> HIDE DEF n
  <2> QED BY <2>1, <2>2, <2>3, Cut
<1>4. pevent_q' \in [KP -> Seq(Event)]
  BY <1>2, <1>3
<1>4a. loc' \in [Event -> Place]
  BY <1>2 DEF Inv, TypeOK, Place
<1>5. F \subseteq Event /\ \A f \in F : loc[f] = "pevent_q"
  BY DEF In
<1>6. ASSUME NEW f \in Event, loc[f] = "pevent_q"
      PROVE  f \in F <=> \E i \in 1 .. Len(pevent_q[Kp[f]]) : n[Kp[f]] < i /\ f = pevent_q[Kp[f]][i]
  <2>1. Kp[f] \in KP
    OBVIOUS
  <2>2. n[Kp[f]] = Kept(pevent_q[Kp[f]], g) /\ n[Kp[f]] \in 0 .. Len(pevent_q[Kp[f]]) /\ Len(pevent_q[Kp[f]]) \in Nat
    BY <1>3, <2>1
  <2>3. f \in F <=> \E i \in n[Kp[f]] + 1 .. Len(pevent_q[Kp[f]]) : f = pevent_q[Kp[f]][i]
    BY <1>6, <2>2 DEF In
  <2>4. ASSUME NEW i PROVE i \in n[Kp[f]] + 1 .. Len(pevent_q[Kp[f]]) <=> i \in 1 .. Len(pevent_q[Kp[f]]) /\ n[Kp[f]] < i
    <3> HIDE DEF n
    <3> QED BY <2>2
  <2> HIDE DEF n, F
  <2> QED BY <2>3, <2>4
<1>7. Collects(F, n)
  <2> HIDE DEF F, n
  <2> QED BY <1>1, <1>2, <1>3, <1>4, <1>4a, <1>5, <1>6 DEF Collects
<1> HIDE DEF F, n
<1> QED BY <1>7

LEMMA BatchCollect == ASSUME Inv, NEW F, NEW n, Collects(F, n) PROVE Inv'
<1> USE BatchAssumption
<1>1. \A e \in Event : loc'[e] = IF e \in F THEN "committed" ELSE loc[e]
  BY DEF Collects
<1>2. F \subseteq Event /\ IsFiniteSet(F) /\ Cardinality(F) \in Nat /\ \A f \in F : loc[f] = "pevent_q"
  <2>1. F \subseteq Event /\ \A f \in F : loc[f] = "pevent_q"
    BY DEF Collects
  <2> QED BY <2>1, FS_Subset, FS_CardinalityType
<1>3. ASSUME NEW k \in KP
      PROVE  /\ pevent_q[k] \in Seq(Event) /\ n[k] \in 0 .. Len(pevent_q[k]) /\ n[k] \in Nat
             /\ pevent_q'[k] \in Seq(Event) /\ Len(pevent_q'[k]) = n[k]
             /\ \A i \in 1 .. n[k] : i \in 1 .. Len(pevent_q[k]) /\ pevent_q'[k][i] = pevent_q[k][i]
  <2>1. pevent_q[k] \in Seq(Event) /\ n[k] \in 0 .. Len(pevent_q[k]) /\ pevent_q'[k] = SubSeq(pevent_q[k], 1, n[k])
    BY DEF Collects, Inv, TypeOK
  <2> QED BY <2>1, Cut
<1>4. TypeOK'
  <2>1. /\ GVT_sig' \in Nat /\ caused' \subseteq caused /\ free' = free + Cardinality(F)
        /\ pevent_q' \in [KP -> Seq(Event)] /\ loc' \in [Event -> Place]
        /\ UNCHANGED <<last_sig, cancel_q, hand, posted, suspend_event, applied, num_buffers, aborted>>
    BY DEF Collects, lpVars
  <2> QED BY <1>2, <2>1 DEF Inv, TypeOK
<1>5. ASSUME NEW k \in KP PROVE ListOK(k)'
  <2>1. ListOK(k)
    BY DEF Inv
  <2>2. ASSUME NEW i \in 1 .. n[k]
        PROVE  loc'[pevent_q'[k][i]] = "pevent_q" /\ Kp[pevent_q'[k][i]] = k
    <3> DEFINE f == pevent_q[k][i]
    <3>1. i \in 1 .. Len(pevent_q[k]) /\ pevent_q'[k][i] = f
      BY <1>3
    <3>2. f \in Event
      BY <1>3, <3>1, ElementOfSeq
    <3>3. loc[f] = "pevent_q" /\ Kp[f] = k
      BY <2>1, <3>1 DEF ListOK
    <3>4. f \notin F
      <4>1. SUFFICES ASSUME f \in F PROVE FALSE
        OBVIOUS
      <4>2. PICK j \in 1 .. Len(pevent_q[k]) : n[k] < j /\ f = pevent_q[k][j]
        <5> HIDE DEF f
        <5>1. \E j \in 1 .. Len(pevent_q[Kp[f]]) : n[Kp[f]] < j /\ f = pevent_q[Kp[f]][j]
          BY <3>2, <3>3, <4>1 DEF Collects
        <5> QED BY <3>3, <5>1
      <4>3. i # j
        BY <1>3, <4>2
      <4> QED BY <2>1, <3>1, <4>2, <4>3 DEF ListOK
    <3> QED BY <1>1, <3>1, <3>2, <3>3, <3>4
  <2>3. ASSUME NEW i \in 1 .. n[k], NEW j \in 1 .. n[k], i # j PROVE pevent_q'[k][i] # pevent_q'[k][j]
    <3>1. /\ i \in 1 .. Len(pevent_q[k]) /\ pevent_q'[k][i] = pevent_q[k][i]
          /\ j \in 1 .. Len(pevent_q[k]) /\ pevent_q'[k][j] = pevent_q[k][j]
      BY <1>3
    <3> QED BY <2>1, <2>3, <3>1 DEF ListOK
  <2>4. Len(pevent_q'[k]) = n[k]
    BY <1>3
  <2> QED BY <2>2, <2>3, <2>4 DEF ListOK
<1>6. ASSUME NEW e \in Event PROVE Listed(e)'
  <2>1. SUFFICES ASSUME loc'[e] = "pevent_q"
                 PROVE  \E i \in 1 .. Len(pevent_q'[Kp[e]]) : pevent_q'[Kp[e]][i] = e
    BY DEF Listed
  <2>2. loc[e] = "pevent_q" /\ e \notin F /\ Kp[e] \in KP
    BY <1>1, <2>1
  <2>3. PICK i \in 1 .. Len(pevent_q[Kp[e]]) : pevent_q[Kp[e]][i] = e
    BY <2>2 DEF Inv, Listed
  <2>4. ~(n[Kp[e]] < i)
    BY <2>2, <2>3 DEF Collects
  <2>5. i \in 1 .. n[Kp[e]]
    BY <1>3, <2>2, <2>3, <2>4
  <2> QED BY <1>3, <2>2, <2>3, <2>5
<1>7. PhaseOK'
  BY DEF Collects, Inv, PhaseOK
<1>8. ASSUME NEW c \in Event PROVE SentOK(c)'
  <2>1. SentOK(c) /\ Parent[c] \in Event
    BY DEF Inv
  <2>2. caused' = {d \in caused : Parent[d] \notin F} /\ cancel_q' = cancel_q /\ pc = "step2"
    BY DEF Collects
  <2>3. c \in caused' => c \in caused /\ loc'[Parent[c]] = loc[Parent[c]]
    BY <1>1, <2>1, <2>2
  <2>4. c \in caused => c \in caused' \/ loc'[Parent[c]] = "committed"
    BY <1>1, <2>1, <2>2
  <2>5. loc[Parent[c]] = "committed" => loc'[Parent[c]] = "committed"
    BY <1>1, <2>1
  <2>6. loc'[c] # "none" => loc[c] # "none"
    BY <1>1, <1>2
  <2>7. c \in caused' => c \notin Root \cup Arrival /\ loc'[Parent[c]] = "pevent_q" /\ c \notin cancel_q'
    BY <2>1, <2>2, <2>3 DEF SentOK
  <2>8. c \notin Root \cup Arrival /\ loc'[c] # "none" => c \in caused' \/ c \in cancel_q' \/ loc'[Parent[c]] = "committed"
    BY <2>1, <2>2, <2>4, <2>5, <2>6 DEF SentOK
  <2> QED BY <2>7, <2>8 DEF SentOK
<1>9. PoolConserved'
  <2>1. F \subseteq Live
    BY <1>2 DEF Live
  <2>2. Live' = (Live \ F) \cup {}
    BY <1>1 DEF Live
  <2>3. free' = free + Cardinality(F) /\ posted' = posted /\ num_buffers' = num_buffers /\ {free, posted} \subseteq Nat
    BY DEF Collects, Inv, TypeOK
  <2>4. Cardinality({}) = 0
    BY FS_EmptySet
  <2>5. free' + posted' + Cardinality({}) = free + posted + Cardinality(F)
    BY <1>2, <2>3, <2>4
  <2> QED BY <1>4, <2>1, <2>2, <2>3, <2>5, PoolStep DEF Inv
<1> QED BY <1>4, <1>5, <1>6, <1>7, <1>8, <1>9 DEF Inv

-----------------------------------------------------------------------------
\* An execution of e, or what counts as one, sends S.
Executes(e, S) ==
  /\ pc = "batch" /\ e \in Event /\ loc[e] = "pq"
  /\ \A f \in Event : loc[f] = "pq" => Sig[e] <= Sig[f]
  /\ S \subseteq Event /\ S \subseteq Sends(e) /\ Cardinality(S) <= free
  /\ \A c \in S : loc[c] = "none" /\ c # e /\ Parent[c] = e /\ c \notin Root \cup Arrival
  /\ loc' \in [Event -> Place] /\ loc'[e] = "pevent_q"
  /\ \A c \in S : \/ loc'[c] = "event_q"
                  \/ loc'[c] = "pq" /\ (Kp[c] # Kp[e] => ~Straggler(c))
  /\ \A c \in Event : c # e /\ c \notin S => loc'[c] = loc[c]
  /\ free' = free - Cardinality(S) /\ caused' = caused \cup S
  /\ last_sig' = [last_sig EXCEPT ![Kp[e]] = Sig[e]]
  /\ pevent_q' = [pevent_q EXCEPT ![Kp[e]] = <<e>> \o pevent_q[Kp[e]]]
  /\ UNCHANGED <<cancel_q, hand, posted, pc, GVT_sig, num_buffers, aborted>>

LEMMA ExecuteIs ==
  ASSUME Inv, NEW e \in Event, Process(e) \/ Suspend(e) \/ Skip(e)
  PROVE  \E S : Executes(e, S)
<1> USE BatchAssumption
<1>1. /\ pc = "batch" /\ loc[e] = "pq" /\ \A f \in Event : loc[f] = "pq" => Sig[e] <= Sig[f]
  BY DEF Process, Suspend, Skip, MayProcess, In
<1>2. /\ last_sig' = [last_sig EXCEPT ![Kp[e]] = Sig[e]]
      /\ pevent_q' = [pevent_q EXCEPT ![Kp[e]] = <<e>> \o pevent_q[Kp[e]]]
      /\ UNCHANGED <<cancel_q, hand, posted, pc, GVT_sig, num_buffers, aborted>>
  BY DEF Process, Suspend, Skip, Executed, extra
<1>3. CASE Process(e)
  <2>1. \A c \in Sends(e) : c \in Event /\ loc[c] = "none" /\ c # e /\ Parent[c] = e /\ c \notin Root \cup Arrival
    BY <1>1, SendsNone
  <2>2. loc' = [c \in Event |-> IF c = e THEN "pevent_q"
                                ELSE IF c \in Sends(e) THEN IF Late(e, c) THEN "event_q" ELSE "pq"
                                ELSE loc[c]]
    BY <1>3 DEF Process
  <2>3. /\ loc' \in [Event -> Place] /\ loc'[e] = "pevent_q"
        /\ \A c \in Event : c # e /\ c \notin Sends(e) => loc'[c] = loc[c]
    BY <2>2 DEF Inv, TypeOK, Place
  <2>4. ASSUME NEW c \in Sends(e)
        PROVE  loc'[c] = "event_q" \/ (loc'[c] = "pq" /\ (Kp[c] # Kp[e] => ~Straggler(c)))
    BY <2>1, <2>2 DEF Late
  <2>5. Cardinality(Sends(e)) <= free /\ free' = free - Cardinality(Sends(e)) /\ caused' = caused \cup Sends(e)
    BY <1>3 DEF Process
  <2>6. Executes(e, Sends(e))
    BY <1>1, <1>2, <2>1, <2>3, <2>4, <2>5 DEF Executes
  <2> QED BY <2>6
<1>4. CASE Suspend(e) \/ Skip(e)
  <2>1. loc' = [loc EXCEPT ![e] = "pevent_q"] /\ UNCHANGED <<free, caused>>
    BY <1>4 DEF Suspend, Skip
  <2>2. Cardinality({}) = 0 /\ free \in Nat
    BY FS_EmptySet DEF Inv, TypeOK
  <2>3. /\ loc' \in [Event -> Place] /\ loc'[e] = "pevent_q"
        /\ \A c \in Event : c # e => loc'[c] = loc[c]
    BY <2>1 DEF Inv, TypeOK, Place
  <2>4. free' = free - Cardinality({}) /\ Cardinality({}) <= free
    BY <2>1, <2>2
  <2>5. Executes(e, {})
    BY <1>1, <1>2, <2>1, <2>3, <2>4 DEF Executes
  <2> QED BY <2>5
<1> QED BY <1>3, <1>4

LEMMA BatchExecute ==
  ASSUME Inv, NEW e, NEW S, Executes(e, S),
         suspend_event' \in [LP -> Event \cup {NoEvent}], applied' \in [Event -> Int]
  PROVE  Inv'
<1> USE BatchAssumption
<1> DEFINE k == Kp[e]
           q == pevent_q[k]
           w == <<e>> \o q
<1>1. /\ pc = "batch" /\ e \in Event /\ k \in KP /\ q \in Seq(Event) /\ loc[e] = "pq" /\ S \subseteq Event
      /\ \A c \in S : loc[c] = "none" /\ c # e
      /\ pevent_q' = [pevent_q EXCEPT ![k] = w]
  BY DEF Executes, Inv, TypeOK
<1>2. /\ w \in Seq(Event) /\ w # <<>> /\ Len(w) = Len(q) + 1 /\ w[1] = e
      /\ \A i \in 1 .. Len(q) : i + 1 \in 1 .. Len(w) /\ w[i + 1] = q[i]
      /\ \A i \in 1 .. Len(w) : i # 1 => i - 1 \in 1 .. Len(q) /\ w[i] = q[i - 1]
  <2>1. w = <<e>> \o q
    OBVIOUS
  <2> HIDE DEF w, q, k
  <2> QED BY <1>1, <2>1, Pushed
<1>3. pevent_q'[k] = w /\ \A j \in KP : j # k => pevent_q'[j] = pevent_q[j]
  BY <1>1 DEF Inv, TypeOK
<1> HIDE DEF w, k, q
<1>4. k = Kp[e] /\ q = pevent_q[k] /\ Len(q) \in Nat
  BY <1>1 DEF k, q
<1>5. /\ \A f \in Event : loc'[f] = "pevent_q" <=> loc[f] = "pevent_q" \/ f = e
      /\ \A f \in Event : loc'[f] = "committed" <=> loc[f] = "committed"
      /\ \A f \in Event : loc'[f] # "none" => loc[f] # "none" \/ f \in S
      /\ \A c \in S : loc'[c] \in {"pq", "event_q"}
      /\ \A f \in Event : f # e /\ f \notin S => loc'[f] = loc[f]
      /\ loc'[e] = "pevent_q"
  <2>1. \A c \in S : loc'[c] \in {"pq", "event_q"}
    BY DEF Executes
  <2>2. \A f \in Event : f # e /\ f \notin S => loc'[f] = loc[f]
    BY DEF Executes
  <2>3. loc'[e] = "pevent_q"
    BY DEF Executes
  <2> QED BY <1>1, <2>1, <2>2, <2>3
<1>6. IsFiniteSet(S) /\ Cardinality(S) \in Nat
  BY <1>1, FS_Subset, FS_CardinalityType
<1>7. TypeOK'
  <2>1. pevent_q' \in [KP -> Seq(Event)]
    BY <1>1, <1>2 DEF Inv, TypeOK
  <2>2. last_sig' \in [KP -> Nat]
    BY <1>1 DEF Executes, Inv, TypeOK
  <2>3. free' \in Nat
    <3>1. free' = free - Cardinality(S) /\ Cardinality(S) <= free
      BY DEF Executes
    <3>2. free \in Nat
      BY DEF Inv, TypeOK
    <3> QED BY <1>6, <3>1, <3>2
  <2>4. loc' \in [Event -> Place] /\ caused' \subseteq Event
    BY DEF Executes, Inv, TypeOK
  <2>5. UNCHANGED <<cancel_q, hand, posted, GVT_sig, num_buffers, aborted>>
    BY DEF Executes
  <2> QED BY <2>1, <2>2, <2>3, <2>4, <2>5 DEF Inv, TypeOK
<1>8. ASSUME NEW j \in KP PROVE ListOK(j)'
  <2>1. ListOK(j) /\ pevent_q[j] \in Seq(Event)
    BY DEF Inv, TypeOK
  <2>2. ASSUME NEW i \in 1 .. Len(pevent_q[j])
        PROVE  /\ pevent_q[j][i] \in Event /\ loc[pevent_q[j][i]] = "pevent_q" /\ Kp[pevent_q[j][i]] = j
               /\ loc'[pevent_q[j][i]] = "pevent_q" /\ pevent_q[j][i] # e
    <3>1. pevent_q[j][i] \in Event
      BY <2>1, ElementOfSeq
    <3>2. loc[pevent_q[j][i]] = "pevent_q" /\ Kp[pevent_q[j][i]] = j
      BY <2>1 DEF ListOK
    <3> QED BY <1>1, <1>5, <3>1, <3>2
  <2>3. CASE j = k
    <3>1. q = pevent_q[j] /\ pevent_q'[j] = w
      BY <1>3, <1>4, <2>3
    <3>2. ASSUME NEW i \in 1 .. Len(w) PROVE loc'[w[i]] = "pevent_q" /\ Kp[w[i]] = j
      <4>1. CASE i = 1
        BY <1>1, <1>2, <1>4, <1>5, <2>3, <4>1
      <4>2. CASE i # 1
        <5>1. i - 1 \in 1 .. Len(q) /\ w[i] = q[i - 1]
          BY <1>2, <4>2
        <5> QED BY <2>2, <3>1, <5>1
      <4> QED BY <4>1, <4>2
    <3>3. ASSUME NEW i \in 1 .. Len(w), NEW m \in 1 .. Len(w), i # m PROVE w[i] # w[m]
      <4>1. CASE i # 1 /\ m # 1
        <5>1. i - 1 \in 1 .. Len(q) /\ w[i] = q[i - 1] /\ m - 1 \in 1 .. Len(q) /\ w[m] = q[m - 1]
          BY <1>2, <4>1
        <5>2. i - 1 # m - 1
          BY <3>3
        <5> QED BY <2>1, <3>1, <5>1, <5>2 DEF ListOK
      <4>2. CASE i = 1
        <5>1. m - 1 \in 1 .. Len(q) /\ w[m] = q[m - 1]
          BY <1>2, <3>3, <4>2
        <5> QED BY <1>2, <2>2, <3>1, <4>2, <5>1
      <4>3. CASE m = 1
        <5>1. i - 1 \in 1 .. Len(q) /\ w[i] = q[i - 1]
          BY <1>2, <3>3, <4>3
        <5> QED BY <1>2, <2>2, <3>1, <4>3, <5>1
      <4> QED BY <4>1, <4>2, <4>3
    <3> QED BY <3>1, <3>2, <3>3 DEF ListOK
  <2>4. CASE j # k
    <3>1. pevent_q'[j] = pevent_q[j]
      BY <1>3, <2>4
    <3> QED BY <2>1, <2>2, <3>1 DEF ListOK
  <2> QED BY <2>3, <2>4
<1>9. ASSUME NEW f \in Event PROVE Listed(f)'
  <2>1. SUFFICES ASSUME loc'[f] = "pevent_q"
                 PROVE  \E i \in 1 .. Len(pevent_q'[Kp[f]]) : pevent_q'[Kp[f]][i] = f
    BY DEF Listed
  <2>2. CASE f = e
    <3>1. 1 \in 1 .. Len(w) /\ w[1] = f
      BY <1>2, <1>4, <2>2
    <3> QED BY <1>3, <1>4, <2>2, <3>1
  <2>3. CASE f # e
    <3>1. loc[f] = "pevent_q" /\ Kp[f] \in KP
      BY <1>5, <2>1, <2>3
    <3>2. PICK i \in 1 .. Len(pevent_q[Kp[f]]) : pevent_q[Kp[f]][i] = f
      BY <3>1 DEF Inv, Listed
    <3>3. CASE Kp[f] = k
      <4>1. i + 1 \in 1 .. Len(w) /\ w[i + 1] = f
        BY <1>2, <1>4, <3>2, <3>3
      <4> QED BY <1>3, <3>3, <4>1
    <3>4. CASE Kp[f] # k
      BY <1>3, <3>1, <3>2, <3>4
    <3> QED BY <3>3, <3>4
  <2> QED BY <2>2, <2>3
<1>10. PhaseOK' /\ cancel_q = {} /\ cancel_q' = {}
  BY DEF Executes, Inv, PhaseOK
<1>11. ASSUME NEW c \in Event PROVE SentOK(c)'
  <2>1. SentOK(c) /\ Parent[c] \in Event /\ caused' = caused \cup S /\ pc = "batch"
    BY DEF Inv, Executes
  <2>2. c \in S => c \notin Root \cup Arrival /\ Parent[c] = e
    BY DEF Executes
  <2>3. c \in caused' => c \notin Root \cup Arrival /\ loc'[Parent[c]] = "pevent_q" /\ c \notin cancel_q'
    BY <1>5, <1>10, <2>1, <2>2 DEF SentOK
  <2>4. c \notin Root \cup Arrival /\ loc'[c] # "none" => c \in caused' \/ loc'[Parent[c]] = "committed"
    BY <1>5, <1>10, <2>1 DEF SentOK
  <2> QED BY <2>3, <2>4 DEF SentOK
<1>12. PoolConserved'
  <2>1. S \cap (Live \ {}) = {}
    BY <1>1 DEF Live
  <2>2. Live' = (Live \ {}) \cup S
    BY <1>1, <1>5 DEF Live
  <2>3. /\ free' = free - Cardinality(S) /\ Cardinality(S) <= free /\ posted' = posted
        /\ num_buffers' = num_buffers /\ {free, posted} \subseteq Nat
    BY DEF Executes, Inv, TypeOK
  <2>4. Cardinality({}) = 0
    BY FS_EmptySet
  <2>5. free' + posted' + Cardinality(S) = free + posted + Cardinality({})
    BY <1>6, <2>3, <2>4
  <2> QED BY <1>1, <1>7, <2>1, <2>2, <2>3, <2>5, PoolStep DEF Inv
<1> QED BY <1>7, <1>8, <1>9, <1>10, <1>11, <1>12 DEF Inv

LEMMA BatchAbort == ASSUME Inv, NEW e \in Event, Abort(e) PROVE Inv'
<1> USE BatchAssumption
<1>1. /\ pc = "batch" /\ loc[e] = "pq" /\ pc' = "net_read" /\ aborted' = TRUE
      /\ UNCHANGED <<pevent_q, caused, hand, posted, GVT_sig, lpVars, num_buffers>>
  BY DEF Abort, MayProcess, ForceUpdate
<1>2. PICK S \in kSubset(free, Sends(e)) :
        LET L == {c \in S : Late(e, c)}
        IN  /\ loc' = [c \in Event |-> IF c \in L THEN "event_q" ELSE loc[c]]
            /\ cancel_q' = cancel_q \cup L
            /\ free' = free - Cardinality(L)
  BY DEF Abort
<1> DEFINE L == {c \in S : Late(e, c)}
<1>3. /\ \A c \in Event : loc'[c] = IF c \in L THEN "event_q" ELSE loc[c]
      /\ loc' = [c \in Event |-> IF c \in L THEN "event_q" ELSE loc[c]]
      /\ cancel_q' = cancel_q \cup L /\ free' = free - Cardinality(L)
  BY <1>2
<1>4. S \subseteq Sends(e) /\ Cardinality(S) = free /\ L \subseteq S
  BY DEF kSubset
<1> HIDE DEF L
<1>5. \A c \in L : c \in Event /\ loc[c] = "none" /\ Parent[c] = e
  BY <1>1, <1>4, SendsNone
<1>6. S \subseteq Event /\ IsFiniteSet(S) /\ IsFiniteSet(L) /\ Cardinality(L) \in Nat /\ Cardinality(L) <= Cardinality(S)
  <2>1. S \subseteq Event
    BY <1>4 DEF Sends
  <2>2. IsFiniteSet(S)
    BY <2>1, FS_Subset
  <2> QED BY <1>4, <2>1, <2>2, FS_Subset, FS_CardinalityType
<1>7. TypeOK'
  <2>1. loc' \in [Event -> Place]
    BY <1>3 DEF Inv, TypeOK, Place
  <2>2. last_sig' \in [KP -> Nat]
    <3> DEFINE q == pevent_q[Kp[e]]
    <3>1. q \in Seq(Event) /\ Kp[e] \in KP
      BY DEF Inv, TypeOK
    <3>2. q # <<>> => Sig[q[Len(q)]] \in Nat
      <4>1. q # <<>> => Len(q) \in 1 .. Len(q)
        BY <3>1, EmptySeq
      <4>2. q # <<>> => q[Len(q)] \in Event
        BY <3>1, <4>1, ElementOfSeq
      <4> QED BY <4>2
    <3>3. (IF q = <<>> THEN GVT_sig ELSE Sig[q[Len(q)]]) \in Nat
      BY <3>2 DEF Inv, TypeOK
    <3>4. last_sig' = [last_sig EXCEPT ![Kp[e]] = IF q = <<>> THEN GVT_sig ELSE Sig[q[Len(q)]]]
      BY DEF Abort
    <3> HIDE DEF q
    <3> QED BY <3>1, <3>3, <3>4 DEF Inv, TypeOK
  <2>3. free' \in Nat
    BY <1>3, <1>4, <1>6 DEF Inv, TypeOK
  <2>4. cancel_q' \subseteq Event
    BY <1>3, <1>5 DEF Inv, TypeOK
  <2> QED BY <1>1, <2>1, <2>2, <2>3, <2>4 DEF Inv, TypeOK, lpVars
<1>8. (\A j \in KP : ListOK(j)') /\ (\A f \in Event : Listed(f)')
  BY <1>1, <1>3, <1>5, SameLists
<1>9. PhaseOK' /\ cancel_q = {} /\ cancel_q' = L
  BY <1>1, <1>3 DEF Inv, PhaseOK
<1>10. ASSUME NEW c \in Event PROVE SentOK(c)'
  <2>1. SentOK(c) /\ Parent[c] \in Event
    BY DEF Inv
  <2>2. /\ loc[Parent[c]] \in {"pevent_q", "committed"} => loc'[Parent[c]] = loc[Parent[c]]
        /\ c \in caused => c \notin L
        /\ loc'[c] # "none" => loc[c] # "none" \/ c \in L
    BY <1>1, <1>3, <1>5, <2>1 DEF SentOK
  <2> QED BY <1>1, <1>9, <2>1, <2>2 DEF SentOK
<1>11. PoolConserved'
  <2>1. L \cap (Live \ {}) = {} /\ L \subseteq Event
    BY <1>5 DEF Live
  <2>2. Live' = (Live \ {}) \cup L
    BY <1>3, <1>5 DEF Live
  <2>3. Cardinality({}) = 0 /\ {free, posted} \subseteq Nat
    BY FS_EmptySet DEF Inv, TypeOK
  <2>4. free' + posted' + Cardinality(L) = free + posted + Cardinality({})
    BY <1>1, <1>3, <1>6, <2>3
  <2> QED BY <1>1, <1>7, <2>1, <2>2, <2>4, PoolStep DEF Inv
<1> QED BY <1>7, <1>8, <1>9, <1>10, <1>11 DEF Inv

-----------------------------------------------------------------------------
LEMMA ExecuteType ==
  ASSUME Inv, NEW e \in Event, Process(e) \/ Suspend(e) \/ Skip(e)
  PROVE  suspend_event' \in [LP -> Event \cup {NoEvent}] /\ applied' \in [Event -> Int]
<1> USE BatchAssumption
<1>1. suspend_event \in [LP -> Event \cup {NoEvent}] /\ applied \in [Event -> Int] /\ applied[e] + 1 \in Int
  BY DEF Inv, TypeOK
<1>2. CASE Process(e)
  BY <1>1, <1>2 DEF Process
<1>3. CASE Suspend(e)
  BY <1>1, <1>3 DEF Suspend
<1>4. CASE Skip(e)
  BY <1>1, <1>4 DEF Skip, lpVars
<1> QED BY <1>2, <1>3, <1>4

LEMMA BatchNext == ASSUME Inv, [Next]_vars PROVE Inv'
<1>1. CASE recv_begin \/ tw_gvt_step1 \/ EventQDone \/ CancelQDone \/ LowBuffers
             \/ BatchDone \/ UNCHANGED vars
  BY <1>1, QuietSteps
<1>2. CASE Undo
  BY <1>2, UndoIs, UndoType, BatchUndo
<1>3. CASE tw_gvt_step2
  BY <1>3, CollectIs, BatchCollect
<1>4. CASE EnqueueHand
  BY <1>4, BatchEnqueueHand
<1>5. ASSUME NEW e \in Event, recv_finish(e) \/ SchedEvent(e) \/ SchedCancel(e) \/ Abort(e)
      PROVE  Inv'
  BY <1>5, BatchRecvFinish, BatchSchedEvent, BatchSchedCancel, BatchAbort
<1>6. ASSUME NEW e \in Event, Process(e) \/ Suspend(e) \/ Skip(e) PROVE Inv'
  <2>1. PICK S : Executes(e, S)
    BY <1>6, ExecuteIs
  <2>2. suspend_event' \in [LP -> Event \cup {NoEvent}] /\ applied' \in [Event -> Int]
    BY <1>6, ExecuteType
  <2> QED BY <2>1, <2>2, BatchExecute
<1> QED BY <1>1, <1>2, <1>3, <1>4, <1>5, <1>6 DEF Next, Loop, Stopped

LEMMA BatchInvariant == Spec => []Inv
<1>1. Inv /\ [Next]_vars => Inv'
  BY BatchNext
<1> QED BY <1>1, BatchInit, PTL DEF Spec

\* Every buffer that tw_eventq_alloc made is in free_q, posted to MPI or in
\* use by one event, through aborts, rollbacks, cancellations and fossil
\* collections, whatever arrives and however few buffers there are.
THEOREM BuffersConserved == Spec => []PoolConserved
<1>1. Inv => PoolConserved
  BY DEF Inv
<1> QED BY <1>1, BatchInvariant, PTL

\* Whatever is in a queue was sent by an execution that stands, or is about
\* to be cancelled: neither tw_event_rollback nor the abort of an event leaves
\* anything behind.
THEOREM SentStaysCaused == Spec => []SentIsCaused
<1>1. Inv => SentIsCaused
  BY DEF Inv, SentOK, SentIsCaused
<1> QED BY <1>1, BatchInvariant, PTL

-----------------------------------------------------------------------------
(***************************************************************************)
(* The order of the lists of processed events, by which stragglers are     *)
(* told: last_sig is that of the head, as long as no event was aborted.    *)
(***************************************************************************)
LEMMA OrderInit == Init => OrderInv
BY DEF Init, OrderInv, OrderOK

LEMMA OrderSame ==
  ASSUME Inv, OrderInv, UNCHANGED <<pevent_q, last_sig, aborted>>,
         \A e \in Event : loc'[e] = "pq" =>
           \/ loc[e] = "pq"
           \/ pevent_q[Kp[e]] # <<>> /\ last_sig[Kp[e]] = Sig[pevent_q[Kp[e]][1]]
                => Sig[pevent_q[Kp[e]][1]] <= Sig[e]
  PROVE  OrderInv'
<1> SUFFICES ASSUME ~aborted, NEW k \in KP PROVE OrderOK(k)'
  BY DEF OrderInv
<1>1. OrderOK(k)
  BY DEF OrderInv
<1>2. ASSUME NEW e \in Event, pevent_q[k] # <<>>, loc'[e] = "pq", Kp[e] = k
      PROVE  Sig[pevent_q[k][1]] <= Sig[e]
  BY <1>1, <1>2 DEF OrderOK
<1> QED BY <1>1, <1>2 DEF OrderOK

LEMMA OrderQuiet ==
  ASSUME Inv, OrderInv,
         \/ recv_begin \/ tw_gvt_step1 \/ EventQDone \/ CancelQDone \/ LowBuffers \/ BatchDone
         \/ UNCHANGED vars \/ EnqueueHand
         \/ \E e \in Event : recv_finish(e) \/ SchedEvent(e) \/ SchedCancel(e)
  PROVE  OrderInv'
<1> USE BatchAssumption DEF extra, queueVars
<1>0. ASSUME NEW e \in Event, ~Straggler(e), pevent_q[Kp[e]] # <<>>,
             last_sig[Kp[e]] = Sig[pevent_q[Kp[e]][1]]
      PROVE  Sig[pevent_q[Kp[e]][1]] <= Sig[e]
  <2>1. last_sig[Kp[e]] \in Nat /\ Sig[e] \in Nat
    BY DEF Inv, TypeOK
  <2> QED BY <1>0, <2>1 DEF Straggler
<1>1. CASE recv_begin \/ tw_gvt_step1 \/ EventQDone \/ CancelQDone \/ LowBuffers \/ BatchDone \/ UNCHANGED vars
  BY <1>1, OrderSame DEF recv_begin, tw_gvt_step1, EventQDone, CancelQDone, LowBuffers, BatchDone, vars
<1>2. CASE EnqueueHand
  <2>1. hand \in Event /\ loc' = [loc EXCEPT ![hand] = "pq"] /\ UNCHANGED <<pevent_q, last_sig, aborted>>
    BY <1>2 DEF EnqueueHand, Inv, TypeOK
  <2>2. \A e \in Event : loc'[e] = "pq" => loc[e] = "pq" \/ e = hand
    BY <2>1 DEF Inv, TypeOK
  <2>3. ASSUME pevent_q[Kp[hand]] # <<>> PROVE Sig[pevent_q[Kp[hand]][1]] <= Sig[hand]
    <3> DEFINE q == pevent_q[Kp[hand]]
    <3>1. q \in Seq(Event)
      BY <2>1 DEF Inv, TypeOK
    <3>2. Head(q) = q[1] /\ Head(q) \in Event
      BY <2>3, <3>1, Popped
    <3>3. Sig[q[1]] \in Nat /\ Sig[hand] \in Nat
      BY <2>1, <3>2
    <3>4. ~(Sig[Head(q)] >= Sig[hand])
      BY <1>2, <2>3 DEF EnqueueHand, MustUndo
    <3> HIDE DEF q
    <3>5. Sig[q[1]] <= Sig[hand]
      BY <3>2, <3>3, <3>4
    <3> QED BY <3>5 DEF q
  <2> QED BY <2>1, <2>2, <2>3, OrderSame
<1>3. ASSUME NEW e \in Event, recv_finish(e) PROVE OrderInv'
  <2>1. \A f \in Event : loc'[f] = "pq" => loc[f] = "pq" \/ (f = e /\ ~Straggler(e))
    BY <1>3 DEF recv_finish, Inv, TypeOK
  <2>2. UNCHANGED <<pevent_q, last_sig, aborted>>
    BY <1>3 DEF recv_finish
  <2> QED BY <1>0, <2>1, <2>2, OrderSame
<1>4. ASSUME NEW e \in Event, SchedEvent(e) PROVE OrderInv'
  <2>1. \A f \in Event : loc'[f] = "pq" => loc[f] = "pq" \/ (f = e /\ ~Straggler(e))
    BY <1>4 DEF SchedEvent, Inv, TypeOK
  <2>2. UNCHANGED <<pevent_q, last_sig, aborted>>
    BY <1>4 DEF SchedEvent
  <2> QED BY <1>0, <2>1, <2>2, OrderSame
<1>5. ASSUME NEW e \in Event, SchedCancel(e) PROVE OrderInv'
  <2>1. \A f \in Event : loc'[f] = "pq" => loc[f] = "pq"
    BY <1>5 DEF SchedCancel, Inv, TypeOK
  <2>2. UNCHANGED <<pevent_q, last_sig, aborted>>
    BY <1>5 DEF SchedCancel
  <2> QED BY <2>1, <2>2, OrderSame
<1> QED BY <1>1, <1>2, <1>3, <1>4, <1>5

LEMMA SigOf ==
  ASSUME Inv, NEW k \in KP, NEW i \in 1 .. Len(pevent_q[k])
  PROVE  pevent_q[k][i] \in Event /\ Sig[pevent_q[k][i]] \in Nat
<1>1. pevent_q[k] \in Seq(Event)
  BY DEF Inv, TypeOK
<1>2. pevent_q[k][i] \in Event
  BY <1>1, ElementOfSeq
<1> QED BY <1>2, BatchAssumption

LEMMA OrderUndo ==
  ASSUME Inv, OrderInv, NEW k, NEW f, NEW D, NEW G, NEW last \in BOOLEAN, Undoes(k, f, D, G, last)
  PROVE  OrderInv'
<1> USE BatchAssumption
<1>1. aborted' = aborted
  BY DEF Undoes
<1> SUFFICES ASSUME ~aborted, NEW j \in KP PROVE OrderOK(j)'
  BY <1>1 DEF OrderInv
<1>2. k \in KP /\ f \in Event /\ Kp[f] = k
  BY DEF Undoes
<1>3. \A e \in Event : loc'[e] = "pq" => loc[e] = "pq" \/ e = f
  BY DEF Undoes
<1>4. OrderOK(j) /\ OrderOK(k)
  BY <1>2 DEF OrderInv
<1> DEFINE q == pevent_q[k]
           t == Tail(q)
<1>5. CASE j # k
  <2>1. pevent_q'[j] = pevent_q[j] /\ last_sig'[j] = last_sig[j]
    BY <1>5 DEF Undoes, Inv, TypeOK
  <2> QED BY <1>2, <1>3, <1>4, <1>5, <2>1 DEF OrderOK
<1>6. CASE j = k
  <2>1. /\ pevent_q'[j] = t /\ q # <<>> /\ q[1] = f
        /\ last_sig'[j] = IF t = <<>> THEN GVT_sig ELSE Sig[Head(t)]
    BY <1>2, <1>6 DEF Undoes, Inv, TypeOK
  <2>2. q \in Seq(Event)
    BY <1>2 DEF Inv, TypeOK
  <2>3. /\ t \in Seq(Event) /\ Len(q) \in Nat \ {0} /\ 1 \in 1 .. Len(q)
        /\ \A i \in 1 .. Len(t) : i + 1 \in 1 .. Len(q) /\ t[i] = q[i + 1]
    <3> HIDE DEF q
    <3> QED BY <2>1, <2>2, Popped
  <2>4. \A i, m \in 1 .. Len(q) : i <= m => Sig[q[m]] <= Sig[q[i]]
    BY <1>4 DEF OrderOK
  <2>5. \A e \in Event : loc[e] = "pq" /\ Kp[e] = k => Sig[f] <= Sig[e]
    BY <1>4, <2>1 DEF OrderOK
  <2>6. ASSUME t # <<>>
        PROVE  Head(t) = t[1] /\ t[1] \in Event /\ Sig[t[1]] <= Sig[f]
    <3> HIDE DEF q, t
    <3>1. Head(t) = t[1] /\ Head(t) \in Event /\ 1 \in 1 .. Len(t)
      BY <2>3, <2>6, Popped
    <3>2. 2 \in 1 .. Len(q) /\ t[1] = q[2]
      BY <2>3, <3>1
    <3> QED BY <2>1, <2>3, <2>4, <3>1, <3>2
  <2> HIDE DEF q, t
  <2>7. ASSUME NEW i \in 1 .. Len(t), NEW m \in 1 .. Len(t), i <= m PROVE Sig[t[m]] <= Sig[t[i]]
    <3>1. /\ i + 1 \in 1 .. Len(q) /\ m + 1 \in 1 .. Len(q) /\ i + 1 <= m + 1
          /\ t[i] = q[i + 1] /\ t[m] = q[m + 1]
      BY <2>3, <2>7
    <3> QED BY <2>4, <3>1
  <2>8. t # <<>> => last_sig'[j] = Sig[t[1]]
    BY <2>1, <2>6
  <2>9. ASSUME t # <<>>, NEW e \in Event, loc'[e] = "pq", Kp[e] = k PROVE Sig[t[1]] <= Sig[e]
    <3>1. Sig[f] <= Sig[e]
      BY <1>2, <1>3, <2>5, <2>9
    <3>2. {Sig[e], Sig[f], Sig[t[1]]} \subseteq Nat
      BY <1>2, <2>6, <2>9
    <3> QED BY <2>6, <2>9, <3>1, <3>2
  <2> QED BY <1>6, <2>1, <2>7, <2>8, <2>9 DEF OrderOK
<1> QED BY <1>5, <1>6

LEMMA OrderCollect ==
  ASSUME Inv, OrderInv, NEW F, NEW n, Collects(F, n) PROVE OrderInv'
<1>1. aborted' = aborted /\ last_sig' = last_sig
  BY DEF Collects
<1> SUFFICES ASSUME ~aborted, NEW k \in KP PROVE OrderOK(k)'
  BY <1>1 DEF OrderInv
<1>2. OrderOK(k)
  BY DEF OrderInv
<1>3. \A e \in Event : loc'[e] = "pq" => loc[e] = "pq"
  BY DEF Collects
<1> DEFINE q == pevent_q[k]
           w == pevent_q'[k]
<1>4. q \in Seq(Event) /\ n[k] \in 0 .. Len(q) /\ w = SubSeq(q, 1, n[k])
  BY DEF Inv, TypeOK, Collects
<1>5. w \in Seq(Event) /\ Len(w) = n[k] /\ \A i \in 1 .. Len(w) : i \in 1 .. Len(q) /\ w[i] = q[i]
  <2> HIDE DEF q, w
  <2> QED BY <1>4, Cut
<1>6. ASSUME w # <<>> PROVE w[1] = q[1] /\ q # <<>>
  <2> HIDE DEF q, w
  <2>1. 1 \in 1 .. Len(w)
    BY <1>5, <1>6, Popped
  <2>2. w[1] = q[1] /\ 1 \in 1 .. Len(q)
    BY <1>5, <2>1
  <2> QED BY <2>2
<1>7. /\ \A i, j \in 1 .. Len(q) : i <= j => Sig[q[j]] <= Sig[q[i]]
      /\ q # <<>> => last_sig[k] = Sig[q[1]]
      /\ q # <<>> => \A e \in Event : loc[e] = "pq" /\ Kp[e] = k => Sig[q[1]] <= Sig[e]
  BY <1>2 DEF OrderOK
<1>8. /\ \A i, j \in 1 .. Len(w) : i <= j => Sig[w[j]] <= Sig[w[i]]
      /\ w # <<>> => last_sig'[k] = Sig[w[1]]
      /\ w # <<>> => \A e \in Event : loc'[e] = "pq" /\ Kp[e] = k => Sig[w[1]] <= Sig[e]
  <2> HIDE DEF q, w
  <2> QED BY <1>1, <1>3, <1>5, <1>6, <1>7
<1> QED BY <1>8 DEF OrderOK

LEMMA OrderExecute ==
  ASSUME Inv, OrderInv, NEW e \in Event, NEW S, Executes(e, S) PROVE OrderInv'
<1> USE BatchAssumption
<1>1. aborted' = aborted /\ S \subseteq Event /\ loc[e] = "pq"
  BY DEF Executes
<1> SUFFICES ASSUME ~aborted, NEW j \in KP PROVE OrderOK(j)'
  BY <1>1 DEF OrderInv
<1>2. OrderOK(j)
  BY DEF OrderInv
<1>3. \A c \in Event : loc'[c] = "pq" => loc[c] = "pq" \/ (c \in S /\ (Kp[c] # Kp[e] => ~Straggler(c)))
  BY DEF Executes
<1>4. ASSUME NEW c \in Event, loc'[c] = "pq" PROVE Sig[e] <= Sig[c]
  <2>1. CASE loc[c] = "pq"
    BY <2>1 DEF Executes
  <2>2. CASE c \in S
    <3>1. Parent[c] = e /\ c \notin Root \cup Arrival
      BY <2>2 DEF Executes
    <3>2. Sig[e] < Sig[c] /\ Sig[e] \in Nat /\ Sig[c] \in Nat
      BY <3>1
    <3> QED BY <3>2
  <2> QED BY <1>3, <1>4, <2>1, <2>2
<1> DEFINE q == pevent_q[j]
           w == <<e>> \o q
<1>5. q \in Seq(Event) /\ Kp[e] \in KP
  BY DEF Inv, TypeOK
<1>6. CASE j # Kp[e]
  <2>1. pevent_q'[j] = q /\ last_sig'[j] = last_sig[j]
    BY <1>6 DEF Executes, Inv, TypeOK
  <2>2. ASSUME q # <<>>, NEW c \in Event, loc'[c] = "pq", Kp[c] = j PROVE Sig[q[1]] <= Sig[c]
    <3>1. CASE loc[c] = "pq"
      BY <1>2, <2>2, <3>1 DEF OrderOK
    <3>2. CASE ~Straggler(c)
      <4>1. last_sig[j] \in Nat /\ Sig[c] \in Nat
        BY DEF Inv, TypeOK
      <4>2. last_sig[j] <= Sig[c]
        BY <2>2, <3>2, <4>1 DEF Straggler
      <4> QED BY <1>2, <2>2, <4>2 DEF OrderOK
    <3> QED BY <1>3, <1>6, <2>2, <3>1, <3>2
  <2> QED BY <1>2, <2>1, <2>2 DEF OrderOK
<1>7. CASE j = Kp[e]
  <2>1. pevent_q'[j] = w /\ last_sig'[j] = Sig[e]
    BY <1>7 DEF Executes, Inv, TypeOK
  <2>2. /\ w \in Seq(Event) /\ w # <<>> /\ w[1] = e
        /\ \A i \in 1 .. Len(w) : i # 1 => i - 1 \in 1 .. Len(q) /\ w[i] = q[i - 1]
    <3>1. w = <<e>> \o q
      OBVIOUS
    <3> HIDE DEF w, q
    <3> QED BY <1>5, <3>1, Pushed
  <2>3. /\ \A i, m \in 1 .. Len(q) : i <= m => Sig[q[m]] <= Sig[q[i]]
        /\ q # <<>> => Sig[q[1]] <= Sig[e]
    BY <1>1, <1>2, <1>7 DEF OrderOK
  <2>4. \A i \in 1 .. Len(q) : Sig[q[i]] \in Nat
    BY SigOf
  <2> HIDE DEF q, w
  <2>5. ASSUME NEW i \in 1 .. Len(q) PROVE Sig[q[i]] <= Sig[e]
    <3>1. 1 \in 1 .. Len(q) /\ 1 <= i /\ q # <<>>
      BY <1>5
    <3>2. Sig[q[i]] <= Sig[q[1]] /\ Sig[q[1]] <= Sig[e]
      BY <2>3, <3>1
    <3>3. Sig[q[i]] \in Nat /\ Sig[q[1]] \in Nat /\ Sig[e] \in Nat
      BY <2>4, <3>1
    <3> QED BY <3>2, <3>3
  <2>6. ASSUME NEW i \in 1 .. Len(w), NEW m \in 1 .. Len(w), i <= m PROVE Sig[w[m]] <= Sig[w[i]]
    <3>1. CASE m = 1
      <4>1. i = 1 /\ Sig[e] \in Nat
        BY <2>6, <3>1
      <4> QED BY <2>2, <3>1, <4>1
    <3>2. CASE m # 1 /\ i = 1
      <4>1. m - 1 \in 1 .. Len(q) /\ w[m] = q[m - 1]
        BY <2>2, <3>2
      <4> QED BY <2>2, <2>5, <3>2, <4>1
    <3>3. CASE m # 1 /\ i # 1
      <4>1. /\ m - 1 \in 1 .. Len(q) /\ w[m] = q[m - 1]
            /\ i - 1 \in 1 .. Len(q) /\ w[i] = q[i - 1]
        BY <2>2, <3>3
      <4>2. i - 1 <= m - 1
        BY <2>6
      <4> QED BY <2>3, <4>1, <4>2
    <3> QED BY <3>1, <3>2, <3>3
  <2> QED BY <1>4, <2>1, <2>2, <2>6 DEF OrderOK
<1> QED BY <1>6, <1>7

LEMMA OrderNext == ASSUME Inv, OrderInv, [Next]_vars PROVE OrderInv'
<1>1. CASE \/ recv_begin \/ tw_gvt_step1 \/ EventQDone \/ CancelQDone \/ LowBuffers \/ BatchDone
           \/ UNCHANGED vars \/ EnqueueHand
           \/ \E e \in Event : recv_finish(e) \/ SchedEvent(e) \/ SchedCancel(e)
  BY <1>1, OrderQuiet
<1>2. CASE Undo
  BY <1>2, UndoIs, OrderUndo
<1>3. CASE tw_gvt_step2
  BY <1>3, CollectIs, OrderCollect
<1>4. ASSUME NEW e \in Event, Abort(e) PROVE OrderInv'
  BY <1>4 DEF Abort, OrderInv
<1>5. ASSUME NEW e \in Event, Process(e) \/ Suspend(e) \/ Skip(e) PROVE OrderInv'
  BY <1>5, ExecuteIs, OrderExecute
<1> QED BY <1>1, <1>2, <1>3, <1>4, <1>5 DEF Next, Loop, Stopped

\* Until an event is aborted, last_sig of a KP tells every straggler: the list
\* of processed events is in order, so that fossil collection may look at its
\* ends only, and nothing in pq precedes what its KP has executed, whatever
\* arrives late and is undone.
THEOREM ListsStayInOrder == Spec => []InOrder
<1>1. OrderInv /\ Inv => InOrder
  <2> SUFFICES ASSUME OrderInv, Inv, ~aborted PROVE InOrder
    BY DEF InOrder
  <2>1. ASSUME NEW k \in KP PROVE /\ OrderOK(k) /\ pevent_q[k] \in Seq(Event)
                                  /\ DOMAIN pevent_q[k] = 1 .. Len(pevent_q[k])
    BY DEF OrderInv, Inv, TypeOK
  <2>2. ASSUME NEW k \in KP, NEW i \in DOMAIN pevent_q[k]
        PROVE  Sig[pevent_q[k][1]] >= Sig[pevent_q[k][i]]
    <3>1. i \in 1 .. Len(pevent_q[k]) /\ 1 \in 1 .. Len(pevent_q[k]) /\ 1 <= i
      BY <2>1
    <3>2. Sig[pevent_q[k][i]] <= Sig[pevent_q[k][1]]
      BY <2>1, <3>1 DEF OrderOK
    <3>3. Sig[pevent_q[k][i]] \in Nat /\ Sig[pevent_q[k][1]] \in Nat
      BY <3>1, SigOf
    <3> QED BY <3>2, <3>3
  <2>3. ASSUME NEW e \in Event, loc[e] = "pq", pevent_q[Kp[e]] # <<>>
        PROVE  Sig[e] >= Sig[pevent_q[Kp[e]][1]]
    <3>1. Kp[e] \in KP /\ Sig[e] \in Nat
      BY BatchAssumption
    <3>2. Sig[pevent_q[Kp[e]][1]] <= Sig[e]
      BY <2>1, <2>3, <3>1 DEF OrderOK
    <3>3. 1 \in 1 .. Len(pevent_q[Kp[e]])
      BY <2>1, <2>3, <3>1, Popped
    <3>4. Sig[pevent_q[Kp[e]][1]] \in Nat
      BY <3>1, <3>3, SigOf
    <3> QED BY <3>1, <3>2, <3>4
  <2> QED BY <2>2, <2>3 DEF InOrder, HeadIsMax, In
<1>2. Inv /\ OrderInv /\ [Next]_vars => OrderInv'
  BY OrderNext
<1> QED BY <1>1, <1>2, OrderInit, BatchInvariant, PTL DEF Spec

-----------------------------------------------------------------------------
(***************************************************************************)
(* Suspended LPs.  Handlers and reverse handlers pair as long as nothing   *)
(* that suspended an LP is committed: the event that suspended it is then  *)
(* in the list, and what was skipped is above it.                          *)
(***************************************************************************)
SkipAt(q, e, s) ==
  \E i, j \in 1 .. Len(q) : q[i] = e /\ q[j] = s /\ (i < j \/ (i = j /\ e \notin OrigRc))

Skipped(e) == SkipAt(pevent_q[Kp[e]], e, suspend_event[Lp[e]])

PairOK(e) ==
  loc[e] # "committed" => applied[e] = IF loc[e] = "pevent_q" /\ ~Skipped(e) THEN 1 ELSE 0

PairInv == (\A l \in LP : SuspendOK(l)) /\ (\A e \in Event : PairOK(e))

\* An event joins or leaves the list at its head.
LEMMA SkipShift ==
  ASSUME NEW q \in Seq(Event), NEW w \in Seq(Event),
         \A i \in 1 .. Len(q) : i + 1 \in 1 .. Len(w) /\ w[i + 1] = q[i],
         \A i \in 1 .. Len(w) : i # 1 => i - 1 \in 1 .. Len(q) /\ q[i - 1] = w[i],
         NEW e, NEW s, e # w[1], s # w[1]
  PROVE  SkipAt(q, e, s) <=> SkipAt(w, e, s)
<1>1. ASSUME SkipAt(q, e, s) PROVE SkipAt(w, e, s)
  <2>1. PICK i \in 1 .. Len(q), j \in 1 .. Len(q) :
               q[i] = e /\ q[j] = s /\ (i < j \/ (i = j /\ e \notin OrigRc))
    BY <1>1 DEF SkipAt
  <2>2. /\ i + 1 \in 1 .. Len(w) /\ w[i + 1] = e /\ j + 1 \in 1 .. Len(w) /\ w[j + 1] = s
        /\ (i + 1 < j + 1 \/ (i + 1 = j + 1 /\ e \notin OrigRc))
    BY <2>1
  <2> QED BY <2>2 DEF SkipAt
<1>2. ASSUME SkipAt(w, e, s) PROVE SkipAt(q, e, s)
  <2>1. PICK i \in 1 .. Len(w), j \in 1 .. Len(w) :
               w[i] = e /\ w[j] = s /\ (i < j \/ (i = j /\ e \notin OrigRc))
    BY <1>2 DEF SkipAt
  <2>2. i # 1 /\ j # 1
    BY <2>1
  <2>3. /\ i - 1 \in 1 .. Len(q) /\ q[i - 1] = e /\ j - 1 \in 1 .. Len(q) /\ q[j - 1] = s
        /\ (i - 1 < j - 1 \/ (i - 1 = j - 1 /\ e \notin OrigRc))
    BY <2>1, <2>2
  <2> QED BY <2>3 DEF SkipAt
<1> QED BY <1>1, <1>2

\* The head is skipped by whatever suspended its LP before.
LEMMA SkipHead ==
  ASSUME NEW w \in Seq(Event), w # <<>>, \A i, j \in 1 .. Len(w) : i # j => w[i] # w[j], NEW s
  PROVE  /\ SkipAt(w, w[1], s) <=> \/ s = w[1] /\ w[1] \notin OrigRc
                                   \/ \E j \in 1 .. Len(w) : j # 1 /\ w[j] = s
         /\ \A e : e # w[1] => ~SkipAt(w, e, w[1])
         /\ \A e : ~SkipAt(w, e, NoEvent)
<1>1. 1 \in 1 .. Len(w) /\ Len(w) \in Nat /\ \A i \in 1 .. Len(w) : w[i] = w[1] => i = 1
  BY Popped
<1>2. ASSUME SkipAt(w, w[1], s)
      PROVE  (s = w[1] /\ w[1] \notin OrigRc) \/ \E j \in 1 .. Len(w) : j # 1 /\ w[j] = s
  <2>1. PICK i \in 1 .. Len(w), j \in 1 .. Len(w) :
               w[i] = w[1] /\ w[j] = s /\ (i < j \/ (i = j /\ w[1] \notin OrigRc))
    BY <1>2 DEF SkipAt
  <2>2. i = 1
    BY <1>1, <2>1
  <2> QED BY <2>1, <2>2
<1>3. ASSUME s = w[1], w[1] \notin OrigRc PROVE SkipAt(w, w[1], s)
  BY <1>1, <1>3 DEF SkipAt
<1>4. ASSUME NEW j \in 1 .. Len(w), j # 1, w[j] = s PROVE SkipAt(w, w[1], s)
  <2>1. 1 < j
    BY <1>4
  <2> QED BY <1>1, <1>4, <2>1 DEF SkipAt
<1>5. ASSUME NEW e, e # w[1], SkipAt(w, e, w[1]) PROVE FALSE
  <2>1. PICK i \in 1 .. Len(w), j \in 1 .. Len(w) :
               w[i] = e /\ w[j] = w[1] /\ (i < j \/ (i = j /\ e \notin OrigRc))
    BY <1>5 DEF SkipAt
  <2>2. j = 1
    BY <1>1, <2>1
  <2>3. i = 1
    BY <2>1, <2>2
  <2> QED BY <1>5, <2>1, <2>3
<1>6. ASSUME NEW e, SkipAt(w, e, NoEvent) PROVE FALSE
  <2>1. PICK j \in 1 .. Len(w) : w[j] = NoEvent
    BY <1>6 DEF SkipAt
  <2>2. w[j] \in Event
    BY ElementOfSeq
  <2> QED BY <2>1, <2>2, BatchAssumption
<1>7. SkipAt(w, w[1], s) <=> \/ s = w[1] /\ w[1] \notin OrigRc
                             \/ \E j \in 1 .. Len(w) : j # 1 /\ w[j] = s
  BY <1>2, <1>3, <1>4
<1> QED BY <1>5, <1>6, <1>7

\* What an LP that is suspended waits for is in the list of its KP.
LEMMA SuspendListed ==
  ASSUME Inv, PairInv, NEW e \in Event, suspend_event[Lp[e]] # NoEvent
  PROVE  LET s == suspend_event[Lp[e]]
         IN  /\ s \in Event /\ Lp[s] = Lp[e] /\ Kp[s] = Kp[e] /\ loc[s] = "pevent_q"
             /\ \E j \in 1 .. Len(pevent_q[Kp[e]]) : pevent_q[Kp[e]][j] = s
<1> DEFINE s == suspend_event[Lp[e]]
<1>1. Lp[e] \in LP /\ s \in Event
  BY BatchAssumption DEF Inv, TypeOK
<1>2. Lp[s] = Lp[e] /\ loc[s] = "pevent_q"
  BY <1>1 DEF PairInv, SuspendOK
<1>3. Kp[s] = Kp[e]
  BY <1>1, <1>2, BatchAssumption
<1>4. Listed(s)
  BY <1>1 DEF Inv
<1> HIDE DEF s
<1>5. \E j \in 1 .. Len(pevent_q[Kp[e]]) : pevent_q[Kp[e]][j] = s
  BY <1>2, <1>3, <1>4 DEF Listed
<1> QED BY <1>1, <1>2, <1>3, <1>5 DEF s

LEMMA PairSame ==
  ASSUME Inv, PairInv, UNCHANGED <<pevent_q, suspend_event, applied>>,
         \A e \in Event : /\ loc'[e] = "pevent_q" <=> loc[e] = "pevent_q"
                          /\ loc'[e] = "committed" <=> loc[e] = "committed"
  PROVE  PairInv'
<1>1. ASSUME NEW l \in LP PROVE SuspendOK(l)'
  <2>1. SuspendOK(l) /\ suspend_event[l] \in Event \cup {NoEvent}
    BY DEF PairInv, Inv, TypeOK
  <2> QED BY <2>1 DEF SuspendOK
<1>2. ASSUME NEW e \in Event PROVE PairOK(e)'
  <2>1. PairOK(e) /\ (Skipped(e)' <=> Skipped(e))
    BY DEF PairInv, Skipped, SkipAt
  <2> QED BY <2>1 DEF PairOK
<1> QED BY <1>1, <1>2 DEF PairInv

LEMMA PairQuiet ==
  ASSUME Inv, PairInv,
         \/ recv_begin \/ tw_gvt_step1 \/ EventQDone \/ CancelQDone \/ LowBuffers \/ BatchDone
         \/ UNCHANGED vars \/ EnqueueHand
         \/ \E e \in Event : recv_finish(e) \/ SchedEvent(e) \/ SchedCancel(e) \/ Abort(e)
  PROVE  PairInv'
<1> USE BatchAssumption DEF queueVars, lpVars
<1>1. CASE recv_begin \/ tw_gvt_step1 \/ EventQDone \/ CancelQDone \/ LowBuffers \/ BatchDone \/ UNCHANGED vars
  <2>1. UNCHANGED <<loc, pevent_q, suspend_event, applied>>
    BY <1>1 DEF recv_begin, tw_gvt_step1, EventQDone, CancelQDone, LowBuffers, BatchDone, vars
  <2> QED BY <2>1, PairSame
<1>2. CASE EnqueueHand
  <2>1. hand \in Event /\ loc' = [loc EXCEPT ![hand] = "pq"] /\ UNCHANGED <<pevent_q, suspend_event, applied>>
    BY <1>2 DEF EnqueueHand, Inv, TypeOK
  <2>2. loc[hand] = "event_q"
    BY <1>2 DEF EnqueueHand, Inv, PhaseOK
  <2>3. \A e \in Event : loc'[e] = IF e = hand THEN "pq" ELSE loc[e]
    BY <2>1 DEF Inv, TypeOK
  <2> QED BY <2>1, <2>2, <2>3, PairSame
<1>3. ASSUME NEW e \in Event, recv_finish(e) PROVE PairInv'
  <2>1. /\ \A f \in Event : loc'[f] = loc[f] \/ (f = e /\ loc[f] = "net" /\ loc'[f] \in {"pq", "event_q"})
        /\ UNCHANGED <<pevent_q, suspend_event, applied>>
    BY <1>3 DEF recv_finish, Inv, TypeOK
  <2> QED BY <2>1, PairSame
<1>4. ASSUME NEW e \in Event, SchedEvent(e) PROVE PairInv'
  <2>1. /\ \A f \in Event : loc'[f] = loc[f] \/ (f = e /\ loc[f] = "event_q" /\ loc'[f] \in {"pq", "anti"})
        /\ UNCHANGED <<pevent_q, suspend_event, applied>>
    BY <1>4 DEF SchedEvent, Inv, TypeOK
  <2> QED BY <2>1, PairSame
<1>5. ASSUME NEW e \in Event, SchedCancel(e) PROVE PairInv'
  <2>1. /\ \A f \in Event : loc'[f] = loc[f]
                            \/ (f = e /\ loc[f] \in {"event_q", "anti", "pq"} /\ loc'[f] = "none")
        /\ UNCHANGED <<pevent_q, suspend_event, applied>>
    BY <1>5 DEF SchedCancel, Inv, TypeOK
  <2> QED BY <2>1, PairSame
<1>6. ASSUME NEW e \in Event, Abort(e) PROVE PairInv'
  <2>1. pc = "batch" /\ loc[e] = "pq" /\ UNCHANGED <<pevent_q, suspend_event, applied>>
    BY <1>6 DEF Abort, MayProcess
  <2>2. PICK S \in kSubset(free, Sends(e)) :
          loc' = [c \in Event |-> IF c \in {d \in S : Late(e, d)} THEN "event_q" ELSE loc[c]]
    BY <1>6 DEF Abort
  <2>3. S \subseteq Sends(e)
    BY DEF kSubset
  <2>4. \A c \in S : loc[c] = "none"
    BY <2>1, <2>3, SendsNone
  <2>5. \A f \in Event : loc'[f] = loc[f] \/ (loc[f] = "none" /\ loc'[f] = "event_q")
    BY <2>2, <2>4
  <2> QED BY <2>1, <2>5, PairSame
<1> QED BY <1>1, <1>2, <1>3, <1>4, <1>5, <1>6

\* tw_event_rollback calls the reverse handler just when the handler ran.
LEMMA ReversesPairs ==
  ASSUME Inv, PairInv, NEW f \in Event, pevent_q[Kp[f]] # <<>>, f = pevent_q[Kp[f]][1]
  PROVE  Reverses(f) <=> ~Skipped(f)
<1> DEFINE q == pevent_q[Kp[f]]
           s == suspend_event[Lp[f]]
<1>1. Kp[f] \in KP /\ q \in Seq(Event) /\ ListOK(Kp[f])
  BY BatchAssumption DEF Inv, TypeOK
<1>2. \A i, j \in 1 .. Len(q) : i # j => q[i] # q[j]
  BY <1>1 DEF ListOK
<1>3. s # NoEvent => \E j \in 1 .. Len(q) : q[j] = s
  BY SuspendListed
<1>4. Skipped(f) <=> SkipAt(q, q[1], s)
  BY DEF Skipped
<1>5. Reverses(f) <=> s = NoEvent \/ (s = f /\ f \in OrigRc)
  BY DEF Reverses
<1>6. q # <<>> /\ f = q[1] /\ NoEvent \notin Event
  BY BatchAssumption
<1> HIDE DEF q, s
<1>7. CASE s = NoEvent
  BY <1>1, <1>2, <1>4, <1>5, <1>6, <1>7, SkipHead
<1>8. CASE s = f
  <2>1. 1 \in 1 .. Len(q) /\ \A i \in 1 .. Len(q) : q[i] = f => i = 1
    <3>1. 1 \in 1 .. Len(q)
      BY <1>1, <1>6, Popped
    <3> QED BY <1>2, <1>6, <3>1
  <2>2. SkipAt(q, q[1], s) <=> f \notin OrigRc
    <3>1. ASSUME f \notin OrigRc PROVE SkipAt(q, f, f)
      BY <1>6, <2>1, <3>1 DEF SkipAt
    <3>2. ASSUME SkipAt(q, f, f) PROVE f \notin OrigRc
      <4>1. PICK i \in 1 .. Len(q), j \in 1 .. Len(q) :
                   q[i] = f /\ q[j] = f /\ (i < j \/ (i = j /\ f \notin OrigRc))
        BY <3>2 DEF SkipAt
      <4>2. i = 1 /\ j = 1
        BY <2>1, <4>1
      <4> QED BY <4>1, <4>2
    <3> QED BY <1>6, <1>8, <3>1, <3>2
  <2> QED BY <1>4, <1>5, <1>6, <1>8, <2>2
<1>9. CASE s # NoEvent /\ s # f
  <2>1. \E j \in 1 .. Len(q) : j # 1 /\ q[j] = s
    BY <1>3, <1>6, <1>9
  <2>2. SkipAt(q, q[1], s)
    BY <1>1, <1>2, <1>6, <2>1, SkipHead
  <2> QED BY <1>4, <1>5, <1>9, <2>2
<1> QED BY <1>7, <1>8, <1>9

LEMMA PairUndo ==
  ASSUME Inv, PairInv, NEW k, NEW f, NEW D, NEW G, NEW last \in BOOLEAN, Undoes(k, f, D, G, last)
  PROVE  PairInv'
<1> USE BatchAssumption
<1> DEFINE q == pevent_q[k]
           t == Tail(q)
<1>1. /\ k \in KP /\ f \in Event /\ Kp[f] = k /\ loc[f] = "pevent_q"
      /\ q \in Seq(Event) /\ q # <<>> /\ f = q[1]
  BY DEF Undoes
<1>2. pevent_q'[k] = t /\ \A j \in KP : j # k => pevent_q'[j] = pevent_q[j]
  BY <1>1 DEF Undoes, Inv, TypeOK
<1>3. /\ loc'[f] \in {"none", "pq"}
      /\ \A e \in Event : e # f => \/ loc'[e] = loc[e]
                                   \/ loc[e] = "pq" /\ loc'[e] = "none"
  BY <1>1 DEF Undoes
<1>4. /\ applied'[f] = IF Reverses(f) THEN applied[f] - 1 ELSE applied[f]
      /\ \A e \in Event : e # f => applied'[e] = applied[e]
  BY <1>1 DEF Undoes, Inv, TypeOK
<1>5. \A l \in LP : suspend_event'[l] = IF l = Lp[f] /\ suspend_event[l] = f THEN NoEvent ELSE suspend_event[l]
  BY <1>1 DEF Undoes, Inv, TypeOK
<1>6. \A l \in LP : suspend_event[l] = f => l = Lp[f]
  BY <1>1 DEF PairInv, SuspendOK
<1>7. ASSUME NEW l \in LP PROVE SuspendOK(l)'
  <2>1. SUFFICES ASSUME suspend_event'[l] # NoEvent
                 PROVE  Lp[suspend_event'[l]] = l /\ loc'[suspend_event'[l]] = "pevent_q"
    BY DEF SuspendOK
  <2>2. suspend_event'[l] = suspend_event[l] /\ suspend_event[l] # f /\ suspend_event[l] \in Event
    BY <1>5, <1>6, <2>1 DEF Inv, TypeOK
  <2>3. Lp[suspend_event[l]] = l /\ loc[suspend_event[l]] = "pevent_q"
    BY <2>1, <2>2 DEF PairInv, SuspendOK
  <2> QED BY <1>3, <2>2, <2>3
<1>8. PairOK(f)'
  <2>1. applied[f] = IF ~Skipped(f) THEN 1 ELSE 0
    BY <1>1 DEF PairInv, PairOK
  <2>2. Reverses(f) <=> ~Skipped(f)
    BY <1>1, ReversesPairs
  <2>3. applied'[f] = 0
    BY <1>4, <2>1, <2>2
  <2> QED BY <1>3, <2>3 DEF PairOK
<1>9. ASSUME NEW e \in Event, e # f PROVE PairOK(e)'
  <2>1. PairOK(e) /\ applied'[e] = applied[e] /\ Lp[e] \in LP /\ Kp[e] \in KP
    BY <1>4, <1>9 DEF PairInv
  <2>2. ASSUME loc[e] = "pevent_q" PROVE Skipped(e)' <=> Skipped(e)
    <3>1. CASE Kp[e] # k
      <4>1. Lp[e] # Lp[f]
        BY <1>1, <3>1
      <4>2. suspend_event'[Lp[e]] = suspend_event[Lp[e]] /\ pevent_q'[Kp[e]] = pevent_q[Kp[e]]
        BY <1>2, <1>5, <2>1, <3>1, <4>1
      <4> QED BY <4>2 DEF Skipped, SkipAt
    <3>2. CASE Kp[e] = k
      <4> DEFINE u == suspend_event[Lp[e]]
                 v == suspend_event'[Lp[e]]
      <4>1. (Skipped(e)' <=> SkipAt(t, e, v)) /\ (Skipped(e) <=> SkipAt(q, e, u))
        <5>1. pevent_q'[Kp[e]] = t /\ pevent_q[Kp[e]] = q
          BY <1>2, <3>2
        <5>2. Skipped(e)' <=> SkipAt(pevent_q'[Kp[e]], e, v)
          BY DEF Skipped, SkipAt
        <5>3. Skipped(e) <=> SkipAt(pevent_q[Kp[e]], e, u)
          BY DEF Skipped
        <5> HIDE DEF q, t, u, v
        <5> QED BY <5>1, <5>2, <5>3
      <4>2. \A i, j \in 1 .. Len(q) : i # j => q[i] # q[j]
        BY <1>1 DEF Inv, ListOK
      <4>3. /\ t \in Seq(Event)
            /\ \A i \in 1 .. Len(t) : i + 1 \in 1 .. Len(q) /\ q[i + 1] = t[i]
            /\ \A i \in 1 .. Len(q) : i # 1 => i - 1 \in 1 .. Len(t) /\ t[i - 1] = q[i]
        <5> HIDE DEF q
        <5> QED BY <1>1, Popped
      <4>4. v = IF u = f THEN NoEvent ELSE u
        BY <1>5, <1>6, <2>1
      <4> HIDE DEF q, t, u, v
      <4>5. CASE u = f
        <5>1. ~SkipAt(q, e, u)
          BY <1>1, <1>9, <4>2, <4>5, SkipHead
        <5>2. ~SkipAt(t, e, v)
          <6>1. v = NoEvent
            BY <4>4, <4>5
          <6>2. NoEvent # q[1]
            BY <1>1
          <6>3. ~SkipAt(q, e, NoEvent)
            BY <1>1, <4>2, SkipHead
          <6> QED BY <1>1, <1>9, <4>3, <6>1, <6>2, <6>3, SkipShift
        <5> QED BY <4>1, <5>1, <5>2
      <4>6. CASE u # f
        <5>1. SkipAt(t, e, u) <=> SkipAt(q, e, u)
          BY <1>1, <1>9, <4>3, <4>6, SkipShift
        <5> QED BY <4>1, <4>4, <4>6, <5>1
      <4> QED BY <4>5, <4>6
    <3> QED BY <3>1, <3>2
  <2>3. loc'[e] = loc[e] \/ (loc[e] = "pq" /\ loc'[e] = "none")
    BY <1>3, <1>9
  <2> QED BY <2>1, <2>2, <2>3 DEF PairOK
<1> QED BY <1>7, <1>8, <1>9 DEF PairInv

LEMMA PairCollect ==
  ASSUME Inv, PairInv, NoSuspendLeft', NEW F, NEW n, Collects(F, n)
  PROVE  PairInv'
<1> USE BatchAssumption
<1>1. suspend_event' = suspend_event /\ applied' = applied
  BY DEF Collects, lpVars
<1>2. \A e \in Event : loc'[e] = IF e \in F THEN "committed" ELSE loc[e]
  BY DEF Collects
<1>3. ASSUME NEW l \in LP, suspend_event[l] # NoEvent
      PROVE  /\ suspend_event[l] \in Event /\ suspend_event[l] \notin F
             /\ Lp[suspend_event[l]] = l /\ loc[suspend_event[l]] = "pevent_q"
  <2>1. suspend_event[l] \in Event
    BY <1>3 DEF Inv, TypeOK
  <2>2. Lp[suspend_event[l]] = l /\ loc[suspend_event[l]] = "pevent_q"
    BY <1>3 DEF PairInv, SuspendOK
  <2>3. loc'[suspend_event[l]] # "committed"
    BY <1>1, <1>3 DEF NoSuspendLeft
  <2> QED BY <1>2, <2>1, <2>2, <2>3
<1>4. ASSUME NEW l \in LP PROVE SuspendOK(l)'
  BY <1>1, <1>2, <1>3 DEF SuspendOK
<1>5. ASSUME NEW e \in Event PROVE PairOK(e)'
  <2>1. PairOK(e) /\ Lp[e] \in LP /\ Kp[e] \in KP
    BY DEF PairInv
  <2>2. ASSUME loc[e] = "pevent_q", e \notin F PROVE Skipped(e)' <=> Skipped(e)
    <3> DEFINE q == pevent_q[Kp[e]]
               w == pevent_q'[Kp[e]]
               u == suspend_event[Lp[e]]
               m == n[Kp[e]]
    <3>1. (Skipped(e)' <=> SkipAt(w, e, u)) /\ (Skipped(e) <=> SkipAt(q, e, u))
      BY <1>1 DEF Skipped, SkipAt
    <3>2. q \in Seq(Event) /\ m \in 0 .. Len(q) /\ w = SubSeq(q, 1, m)
      BY <2>1 DEF Inv, TypeOK, Collects
    <3>3. \A i \in 1 .. Len(q) : q[i] = e => ~(m < i)
      BY <2>2 DEF Collects
    <3>4. \A i \in 1 .. Len(q) : q[i] = u => ~(m < i)
      <4>1. CASE u = NoEvent
        <5>1. \A i \in 1 .. Len(q) : q[i] \in Event
          BY <3>2, ElementOfSeq
        <5> QED BY <4>1, <5>1
      <4>2. CASE u # NoEvent
        <5>1. u \in Event /\ u \notin F /\ loc[u] = "pevent_q" /\ Lp[u] = Lp[e]
          BY <1>3, <2>1, <4>2
        <5>2. Kp[u] = Kp[e]
          BY <5>1
        <5> QED BY <5>1, <5>2 DEF Collects
      <4> QED BY <4>1, <4>2
    <3> HIDE DEF q, w, u, m
    <3>5. Len(w) = m /\ Len(q) \in Nat /\ \A i \in 1 .. m : i \in 1 .. Len(q) /\ w[i] = q[i]
      BY <3>2, Cut
    <3>6. ASSUME SkipAt(w, e, u) PROVE SkipAt(q, e, u)
      BY <3>5, <3>6 DEF SkipAt
    <3>7. ASSUME SkipAt(q, e, u) PROVE SkipAt(w, e, u)
      <4>1. PICK i \in 1 .. Len(q), j \in 1 .. Len(q) :
                   q[i] = e /\ q[j] = u /\ (i < j \/ (i = j /\ e \notin OrigRc))
        BY <3>7 DEF SkipAt
      <4>2. i \in 1 .. m /\ j \in 1 .. m
        BY <3>2, <3>3, <3>4, <3>5, <4>1
      <4>3. w[i] = e /\ w[j] = u
        BY <3>5, <4>1, <4>2
      <4> QED BY <3>5, <4>1, <4>2, <4>3 DEF SkipAt
    <3> QED BY <3>1, <3>6, <3>7
  <2> QED BY <1>1, <1>2, <2>1, <2>2 DEF PairOK
<1> QED BY <1>4, <1>5 DEF PairInv

LEMMA PairExecute ==
  ASSUME Inv, PairInv, NEW e \in Event, Process(e) \/ Suspend(e) \/ Skip(e), NEW S, Executes(e, S)
  PROVE  PairInv'
<1>0. NoEvent \notin Event
  BY BatchAssumption
<1> DEFINE k == Kp[e]
           q == pevent_q[k]
           w == <<e>> \o q
           z == suspend_event[Lp[e]]
<1>1. /\ k \in KP /\ Lp[e] \in LP /\ q \in Seq(Event) /\ loc[e] = "pq" /\ loc'[e] = "pevent_q"
      /\ \A c \in S : loc[c] = "none" /\ loc'[c] \in {"pq", "event_q"}
      /\ \A c \in Event : c # e /\ c \notin S => loc'[c] = loc[c]
  BY BatchAssumption DEF Executes, Inv, TypeOK
<1>2. pevent_q'[k] = w /\ \A j \in KP : j # k => pevent_q'[j] = pevent_q[j]
  BY <1>1 DEF Executes, Inv, TypeOK
<1>3. /\ w \in Seq(Event) /\ w # <<>> /\ w[1] = e
      /\ \A i \in 1 .. Len(q) : i + 1 \in 1 .. Len(w) /\ w[i + 1] = q[i]
      /\ \A i \in 1 .. Len(w) : i # 1 => i - 1 \in 1 .. Len(q) /\ w[i] = q[i - 1]
  <2>1. w = <<e>> \o q
    OBVIOUS
  <2> HIDE DEF w, q, k
  <2> QED BY <1>1, <2>1, Pushed
<1>4. \A i, j \in 1 .. Len(w) : i # j => w[i] # w[j]
  <2>1. ListOK(k)'
    <3>1. Inv'
      BY ExecuteType, BatchExecute
    <3> QED BY <1>1, <3>1 DEF Inv
  <2> HIDE DEF w, q, k
  <2> QED BY <1>2, <2>1 DEF ListOK
\* The events of the LP that suspend it, or find it suspended.
<1>5. /\ \A l \in LP : l # Lp[e] => suspend_event'[l] = suspend_event[l]
      /\ \A c \in Event : c # e => applied'[c] = applied[c]
      /\ \/ z = NoEvent /\ suspend_event'[Lp[e]] = NoEvent /\ applied'[e] = applied[e] + 1
         \/ z = NoEvent /\ suspend_event'[Lp[e]] = e
              /\ applied'[e] = IF e \in OrigRc THEN applied[e] + 1 ELSE applied[e]
         \/ z # NoEvent /\ suspend_event'[Lp[e]] = z /\ applied'[e] = applied[e]
  <2>1. CASE Process(e)
    BY <1>1, <2>1, BatchAssumption DEF Process, Suspended, Inv, TypeOK
  <2>2. CASE Suspend(e)
    BY <1>1, <2>2, BatchAssumption DEF Suspend, Suspended, Inv, TypeOK
  <2>3. CASE Skip(e)
    BY <1>1, <2>3 DEF Skip, Suspended, lpVars
  <2> QED BY <2>1, <2>2, <2>3
<1>6. ASSUME NEW l \in LP, suspend_event[l] # NoEvent
      PROVE  /\ suspend_event[l] \in Event /\ Lp[suspend_event[l]] = l /\ suspend_event[l] # e
             /\ loc[suspend_event[l]] = "pevent_q" /\ loc'[suspend_event[l]] = "pevent_q"
  <2>1. suspend_event[l] \in Event /\ Lp[suspend_event[l]] = l /\ loc[suspend_event[l]] = "pevent_q"
    BY <1>6, BatchAssumption DEF PairInv, SuspendOK, Inv, TypeOK
  <2> QED BY <1>1, <2>1
<1>7. ASSUME NEW l \in LP PROVE SuspendOK(l)'
  <2>1. suspend_event'[l] = suspend_event[l] \/ (l = Lp[e] /\ suspend_event'[l] = e) \/ suspend_event'[l] = NoEvent
    BY <1>5
  <2> QED BY <1>1, <1>6, <2>1 DEF SuspendOK
<1>8. PairOK(e)'
  <2> DEFINE v == suspend_event'[Lp[e]]
  <2>1. applied[e] = 0
    BY <1>1 DEF PairInv, PairOK
  <2>2. Skipped(e)' <=> SkipAt(w, w[1], v)
    <3>1. Skipped(e)' <=> SkipAt(pevent_q'[k], e, v)
      BY DEF Skipped, SkipAt
    <3> HIDE DEF w, q, k, v
    <3> QED BY <1>2, <1>3, <3>1
  <2>3. SkipAt(w, w[1], v) <=> \/ v = w[1] /\ w[1] \notin OrigRc
                               \/ \E j \in 1 .. Len(w) : j # 1 /\ w[j] = v
    <3> HIDE DEF w, q, k
    <3>1. w \in Seq(Event) /\ w # <<>>
      BY <1>3
    <3>2. ASSUME NEW s
          PROVE  SkipAt(w, w[1], s) <=> \/ s = w[1] /\ w[1] \notin OrigRc
                                        \/ \E j \in 1 .. Len(w) : j # 1 /\ w[j] = s
      BY <1>4, <3>1, SkipHead
    <3> QED BY <3>2
  <2>4. z # NoEvent => \E j \in 1 .. Len(q) : q[j] = z
    BY SuspendListed
  <2>5. z # NoEvent => z # e
    BY <1>1, <1>6
  <2>6. applied'[e] = IF Skipped(e)' THEN 0 ELSE 1
    <3> HIDE DEF w, q, k
    <3>1. CASE v = NoEvent
      <4>1. ~\E j \in 1 .. Len(w) : w[j] = v
        <5>1. \A j \in 1 .. Len(w) : w[j] \in Event
          BY <1>3, ElementOfSeq
        <5> QED BY <1>0, <3>1, <5>1
      <4>2. ~Skipped(e)'
        BY <1>3, <2>2, <2>3, <3>1, <4>1
      <4>3. applied'[e] = applied[e] + 1
        BY <1>0, <1>5, <3>1
      <4> QED BY <2>1, <4>2, <4>3
    <3>2. CASE v = e
      <4>1. ~\E j \in 1 .. Len(w) : j # 1 /\ w[j] = v
        <5>1. 1 \in 1 .. Len(w)
          BY <1>3, Popped
        <5> QED BY <1>3, <1>4, <3>2, <5>1
      <4>2. Skipped(e)' <=> e \notin OrigRc
        BY <1>3, <2>2, <2>3, <3>2, <4>1
      <4>3. applied'[e] = IF e \in OrigRc THEN applied[e] + 1 ELSE applied[e]
        BY <1>0, <1>5, <2>5, <3>2
      <4> QED BY <2>1, <4>2, <4>3
    <3>3. CASE v = z /\ z # NoEvent
      <4>1. PICK j \in 1 .. Len(q) : q[j] = z
        BY <2>4, <3>3
      <4>2. j + 1 \in 1 .. Len(w) /\ w[j + 1] = v /\ j + 1 # 1
        BY <1>3, <3>3, <4>1
      <4>3. Skipped(e)'
        BY <2>2, <2>3, <4>2
      <4>4. applied'[e] = applied[e]
        BY <1>5, <2>5, <3>3
      <4> QED BY <2>1, <4>3, <4>4
    <3> QED BY <1>5, <3>1, <3>2, <3>3
  <2> QED BY <1>1, <2>6 DEF PairOK
<1>9. ASSUME NEW c \in Event, c # e PROVE PairOK(c)'
  <2>1. PairOK(c) /\ applied'[c] = applied[c] /\ Lp[c] \in LP /\ Kp[c] \in KP
    BY <1>5, <1>9, BatchAssumption DEF PairInv
  <2>2. ASSUME loc[c] = "pevent_q" PROVE Skipped(c)' <=> Skipped(c)
    <3> DEFINE u == suspend_event[Lp[c]]
               v == suspend_event'[Lp[c]]
    <3>0. (Skipped(c)' <=> SkipAt(pevent_q'[Kp[c]], c, v)) /\ (Skipped(c) <=> SkipAt(pevent_q[Kp[c]], c, u))
      BY DEF Skipped, SkipAt
    <3>1. CASE Kp[c] # k
      <4>1. Lp[c] # Lp[e]
        BY <3>1, BatchAssumption
      <4>2. v = u /\ pevent_q'[Kp[c]] = pevent_q[Kp[c]]
        BY <1>2, <1>5, <2>1, <3>1, <4>1
      <4> HIDE DEF u, v
      <4> QED BY <3>0, <4>2
    <3>2. CASE Kp[c] = k
      <4>1. u # e
        BY <1>0, <1>6, <2>1
      <4>2. v = u \/ (u = NoEvent /\ v = e)
        BY <1>5, <2>1
      <4>3. pevent_q'[Kp[c]] = w /\ pevent_q[Kp[c]] = q
        BY <1>2, <3>2
      <4> HIDE DEF w, q, k, u, v
      <4>4. SkipAt(q, c, u) <=> SkipAt(w, c, u)
        <5>1. \A i \in 1 .. Len(w) : i # 1 => i - 1 \in 1 .. Len(q) /\ q[i - 1] = w[i]
          BY <1>3
        <5> QED BY <1>1, <1>3, <1>9, <4>1, <5>1, SkipShift
      <4>5. CASE v = u
        BY <3>0, <4>3, <4>4, <4>5
      <4>6. CASE u = NoEvent /\ v = e
        <5>1. ~SkipAt(w, c, NoEvent) /\ ~SkipAt(w, c, w[1])
          BY <1>3, <1>4, <1>9, SkipHead
        <5> QED BY <1>3, <3>0, <4>3, <4>4, <4>6, <5>1
      <4> QED BY <4>2, <4>5, <4>6
    <3> QED BY <3>1, <3>2
  <2>3. \/ loc'[c] = loc[c]
        \/ loc[c] = "none" /\ loc'[c] \in {"pq", "event_q"}
    BY <1>1, <1>9
  <2> QED BY <2>1, <2>2, <2>3 DEF PairOK
<1> QED BY <1>7, <1>8, <1>9 DEF PairInv

LEMMA PairInit == Init => PairInv
<1> SUFFICES ASSUME Init PROVE PairInv
  OBVIOUS
<1>1. \A l \in LP : SuspendOK(l)
  BY DEF Init, SuspendOK
<1>2. \A e \in Event : PairOK(e)
  BY DEF Init, PairOK
<1> QED BY <1>1, <1>2 DEF PairInv

LEMMA PairNext == ASSUME Inv, PairInv, NoSuspendLeft', [Next]_vars PROVE PairInv'
<1>1. CASE \/ recv_begin \/ tw_gvt_step1 \/ EventQDone \/ CancelQDone \/ LowBuffers \/ BatchDone
           \/ UNCHANGED vars \/ EnqueueHand
           \/ \E e \in Event : recv_finish(e) \/ SchedEvent(e) \/ SchedCancel(e) \/ Abort(e)
  BY <1>1, PairQuiet
<1>2. CASE Undo
  BY <1>2, UndoIs, PairUndo
<1>3. CASE tw_gvt_step2
  BY <1>3, CollectIs, PairCollect
<1>4. ASSUME NEW e \in Event, Process(e) \/ Suspend(e) \/ Skip(e) PROVE PairInv'
  BY <1>4, ExecuteIs, PairExecute
<1> QED BY <1>1, <1>2, <1>3, <1>4 DEF Next, Loop, Stopped

\* While nothing that suspended an LP is committed, what is undone had just the
\* handlers run that are now reversed: an event that found its LP suspended,
\* or suspended it, is reversed as it was executed, whatever is undone,
\* cancelled, aborted and executed anew in between.
THEOREM ReversesMatchHandlers == Spec /\ []NoSuspendLeft => []HandlersPaired
<1>1. Inv /\ PairInv => HandlersPaired
  <2> SUFFICES ASSUME Inv, PairInv, NEW e \in Event, loc[e] # "committed"
               PROVE  LET q == pevent_q[Kp[e]]
                          sk == \E i, j \in DOMAIN q : /\ q[i] = e /\ q[j] = suspend_event[Lp[e]]
                                                       /\ i < j \/ (i = j /\ e \notin OrigRc)
                      IN  applied[e] = IF loc[e] = "pevent_q" /\ ~sk THEN 1 ELSE 0
    BY DEF HandlersPaired
  <2>1. pevent_q[Kp[e]] \in Seq(Event)
    BY BatchAssumption DEF Inv, TypeOK
  <2>2. DOMAIN pevent_q[Kp[e]] = 1 .. Len(pevent_q[Kp[e]])
    BY <2>1
  <2> QED BY <2>2 DEF PairInv, PairOK, Skipped, SkipAt
<1>2. Inv /\ PairInv /\ NoSuspendLeft' /\ [Next]_vars => PairInv'
  BY PairNext
<1> QED BY <1>1, <1>2, PairInit, BatchInvariant, PTL DEF Spec

\* A model that never calls tw_lp_suspend.
NeverSuspends == \A m \in Models : \A e \in Event : m[e] = e

\* With handlers that never suspend their LP no assumption is needed.
THEOREM PairedWithoutSuspend == NeverSuspends => (Spec => []HandlersPaired)
<1> SUFFICES ASSUME NeverSuspends PROVE Spec => []HandlersPaired
  OBVIOUS
<1> DEFINE Awake == misses \in Models /\ \A l \in LP : suspend_event[l] = NoEvent
<1>1. Init => Awake
  BY DEF Init
<1>2. Inv /\ Awake /\ [Next]_vars => Awake'
  <2> SUFFICES ASSUME Inv, Awake, [Next]_vars PROVE Awake'
    OBVIOUS
  <2>1. misses' = misses
    BY DEF Next, Loop, Stopped, recv_finish, recv_begin, tw_gvt_step1, SchedEvent, Undo, EnqueueHand,
           EventQDone, SchedCancel, CancelQDone, tw_gvt_step2, LowBuffers, Process, Suspend, Skip,
           Executed, Abort, BatchDone, extra, vars
  <2>2. ASSUME NEW e \in Event PROVE ~Suspend(e)
    BY DEF Suspend, Expected, NeverSuspends
  <2>3. CASE Undo
    <3>1. PICK k, f, D, G : \E last \in BOOLEAN : Undoes(k, f, D, G, last)
      BY <2>3, UndoIs
    <3>2. suspend_event' = [suspend_event EXCEPT ![Lp[f]] = IF @ = f THEN NoEvent ELSE @]
      BY <3>1 DEF Undoes
    <3>3. \A l \in LP : suspend_event'[l] = NoEvent
      BY <3>2 DEF Inv, TypeOK
    <3> QED BY <2>1, <3>3
  <2>4. CASE ~Undo
    <3>1. suspend_event' = suspend_event
      BY <2>2, <2>4
         DEF Next, Loop, Stopped, recv_finish, recv_begin, tw_gvt_step1, SchedEvent, EnqueueHand,
             EventQDone, SchedCancel, CancelQDone, tw_gvt_step2, LowBuffers, Process, Skip,
             Abort, BatchDone, lpVars, vars
    <3> QED BY <2>1, <3>1
  <2> QED BY <2>3, <2>4
<1>3. Awake => NoSuspendLeft
  BY DEF NoSuspendLeft
<1> HIDE DEF Awake
<1>4. Spec => []NoSuspendLeft
  BY <1>1, <1>2, <1>3, BatchInvariant, PTL DEF Spec
<1> QED BY <1>4, ReversesMatchHandlers, PTL
=============================================================================

------------------------- MODULE ConservativeProofs -------------------------
(***************************************************************************)
(* Proof that the conservative scheduler executes no event late, for every *)
(* value of the constants, as long as no event waits in outq while the GVT *)
(* is computed (Drained).  That condition is the whole gap: the run on a   *)
(* full posted_sends shows an event executed late without it.              *)
(*                                                                         *)
(* Between two computations of the GVT all that is executed is below       *)
(* GVT + lookahead, and all that is sent is not, as its sender was not     *)
(* below GVT.  A new GVT keeps this if nothing is between two PEs when it  *)
(* is computed, and if no event that has still to be sent is nearer than   *)
(* the lookahead to it (Unborn).                                           *)
(***************************************************************************)
EXTENDS Conservative, FiniteSetTheorems, SequenceTheorems, WellFoundedInduction, TLAPS

\* No event waits in outq while the GVT is computed.
Drained == \A p \in PE : pc[p] = "lvt" => outq[p] = <<>>

TypeOK ==
  /\ loc \in [Event -> {"none", "outq", "net", "event_q", "pq", "done"}]
  /\ outq \in [PE -> Seq(Event)]
  /\ posted \subseteq Event
  /\ last \in [KP -> Nat]
  /\ GVT \in [PE -> Nat] /\ gvt_sig \in Nat
  /\ pc \in [PE -> {"net_read", "step2", "lvt", "update", "batch", "end"}]

\* outq lists the events that its PE has still to send, each once.
OutqOK(p) ==
  /\ \A i \in 1 .. Len(outq[p]) : loc[outq[p][i]] = "outq" /\ Src(outq[p][i]) = p
  /\ \A i, j \in 1 .. Len(outq[p]) : i # j => outq[p][i] # outq[p][j]

\* A PE adopts the last GVT before it goes on; while a new one is computed no
\* event is between two PEs.
PhaseOK(p) ==
  /\ pc[p] # "update" => GVT[p] = gvt_sig
  /\ pc[p] = "lvt" => /\ \A q \in PE : pc[q] = "lvt"
                      /\ \A e \in Event : loc[e] \notin {"outq", "net"}

\* GVT, and GVT + lookahead, separate the events.
EventOK(e) ==
  /\ loc[e] = "outq" => \E i \in 1 .. Len(outq[Src(e)]) : outq[Src(e)][i] = e
  /\ loc[e] # "event_q"
  /\ loc[e] = "none" <=> e \notin Root /\ loc[Parent[e]] # "done"
  /\ loc[e] \in {"none", "outq", "net"} => gvt_sig + Lookahead <= Ts[e]
  /\ loc[e] = "pq" \/ e \in posted => gvt_sig <= Ts[e]
  /\ loc[e] = "done" => Ts[e] < gvt_sig + Lookahead /\ Sig[e] <= last[Kp[e]]

LastOK(k) ==
  last[k] = 0 \/ \E d \in Event : loc[d] = "done" /\ Kp[d] = k /\ Sig[d] = last[k]

Inv ==
  /\ TypeOK
  /\ gvt_sig <= End
  /\ \A p \in PE : OutqOK(p) /\ PhaseOK(p)
  /\ \A e \in Event : EventOK(e)
  /\ \A k \in KP : LastOK(k)
  /\ NeverLate

-----------------------------------------------------------------------------
LEMMA LeastNat ==
  ASSUME NEW T \in SUBSET Nat, T # {}
  PROVE  Min(T) \in T /\ \A y \in T : Min(T) <= y
<1> DEFINE R == OpToRel(<, Nat)
<1>1. PICK n \in T : \A y \in T : <<y, n>> \notin R
  <2> HIDE DEF R
  <2> QED BY WFMin, NatLessThanWellFounded DEF R
<1>2. \A y \in T : ~(y < n)
  BY <1>1 DEF OpToRel
<1>3. \A y \in T : n <= y
  BY <1>2
<1> QED BY <1>3 DEF Min

\* The event that the batch takes is below GVT + lookahead.
LEMMA Chosen ==
  ASSUME TypeOK, NEW p \in PE, MayProcess(p), NEW e \in Event, IsLeast(p, e)
  PROVE  Ts[e] < GVT[p] + Lookahead
<1> USE ConservativeAssumption
<1> DEFINE T == {End} \cup {Ts[f] : f \in In(p, "pq")}
<1>1. T \subseteq Nat /\ End \in T
  BY DEF In
<1>2. PqMin(p) \in T /\ PqMin(p) # End /\ PqMin(p) < GVT[p] + Lookahead
  <2>1. PqMin(p) = Min(T) /\ Min(T) \in T
    BY <1>1, LeastNat DEF PqMin
  <2>2. PqMin(p) < End /\ PqMin(p) < GVT[p] + Lookahead
    BY DEF MayProcess
  <2> HIDE DEF T
  <2> QED BY <1>1, <2>1, <2>2
<1>3. PICK f \in In(p, "pq") : PqMin(p) = Ts[f]
  BY <1>2
<1>4. f \in Event /\ Sig[e] <= Sig[f]
  BY <1>3 DEF In, IsLeast
<1>5. Ts[e] <= Ts[f]
  BY <1>4
<1> QED BY <1>2, <1>3, <1>4, <1>5 DEF TypeOK

LEMMA GvtValueBound ==
  ASSUME TypeOK, NEW g \in Nat, g <= End,
         \A e \in Event : loc[e] \in {"pq", "event_q", "outq"} \/ e \in posted => g <= Ts[e]
  PROVE  /\ GvtValue \in Nat /\ g <= GvtValue /\ GvtValue <= End
         /\ \A e \in Event : loc[e] \in {"pq", "event_q", "outq"} \/ e \in posted => GvtValue <= Ts[e]
<1> USE ConservativeAssumption
<1> DEFINE A == {f \in Event : loc[f] \in {"pq", "event_q", "outq"}}
           T == {End} \cup {Ts[e] : e \in posted} \cup {Ts[e] : e \in A}
<1>1. posted \subseteq Event /\ A \subseteq Event /\ End \in T
  BY DEF TypeOK
<1>2. T \subseteq Nat
  BY <1>1
<1>3. GvtValue = Min(T) /\ Min(T) \in T /\ \A y \in T : Min(T) <= y
  BY <1>1, <1>2, LeastNat DEF GvtValue
<1>4. \A y \in T : g <= y
  BY <1>1
<1> HIDE DEF T
<1>5. GvtValue \in Nat /\ g <= GvtValue /\ GvtValue <= End
  BY <1>1, <1>2, <1>3, <1>4
<1>6. ASSUME NEW e \in Event, loc[e] \in {"pq", "event_q", "outq"} \/ e \in posted
      PROVE  GvtValue <= Ts[e]
  <2>1. Ts[e] \in T
    BY <1>6 DEF T
  <2> QED BY <1>3, <2>1
<1> QED BY <1>5, <1>6

\* When nothing is between two PEs, what has not been sent yet is at least the
\* lookahead above what is to be executed.
LEMMA Unborn ==
  ASSUME TypeOK, \A e \in Event : EventOK(e) /\ loc[e] \notin {"outq", "net"},
         NEW g \in Nat, \A e \in Event : loc[e] = "pq" => g <= Ts[e],
         NEW x \in Event, loc[x] = "none"
  PROVE  g + Lookahead <= Ts[x]
<1> USE ConservativeAssumption
<1> DEFINE B == {e \in Event : loc[e] = "none" /\ Ts[e] < g + Lookahead}
           T == {Ts[e] : e \in B}
<1>1. SUFFICES ASSUME x \in B PROVE FALSE
  OBVIOUS
<1>2. T \in SUBSET Nat /\ T # {}
  BY <1>1
<1>3. Min(T) \in T /\ \A y \in T : Min(T) <= y
  BY <1>2, LeastNat
<1>4. PICK e \in B : Ts[e] = Min(T)
  BY <1>3
<1>5. e \in Event \ Root /\ loc[Parent[e]] # "done" /\ Parent[e] \in Event
  BY <1>4 DEF EventOK
<1>6. Ts[Parent[e]] + Lookahead <= Ts[e] /\ Ts[Parent[e]] < Ts[e]
  BY <1>5, LookaheadAssumption
<1>7. loc[Parent[e]] \in {"none", "pq"}
  BY <1>5 DEF TypeOK, EventOK
<1>8. CASE loc[Parent[e]] = "pq"
  <2>1. g <= Ts[Parent[e]]
    BY <1>5, <1>8
  <2> QED BY <1>4, <1>5, <1>6, <2>1
<1>9. CASE loc[Parent[e]] = "none"
  <2>1. Parent[e] \in B
    BY <1>4, <1>5, <1>6, <1>9
  <2>2. Ts[Parent[e]] \in T
    BY <2>1
  <2>3. Min(T) <= Ts[Parent[e]]
    BY <1>3, <2>2
  <2> HIDE DEF T
  <2> QED BY <1>4, <1>5, <1>6, <2>3
<1> QED BY <1>7, <1>8, <1>9

-----------------------------------------------------------------------------
\* Steps that move no event and change no bound.
LEMMA SameEvents ==
  ASSUME Inv, UNCHANGED <<loc, outq, last, gvt_sig>>, posted' \subseteq posted
  PROVE  /\ \A e \in Event : EventOK(e)'
         /\ \A k \in KP : LastOK(k)'
         /\ NeverLate'
<1>1. \A e \in Event : EventOK(e)'
  BY DEF Inv, EventOK, Src
<1>2. \A k \in KP : LastOK(k)'
  BY DEF Inv, LastOK
<1>3. NeverLate'
  BY DEF Inv, NeverLate, InPast
<1> QED BY <1>1, <1>2, <1>3

LEMMA OutqHead ==
  ASSUME Inv, NEW p \in PE, outq[p] # <<>>
  PROVE  Head(outq[p]) \in Event /\ loc[Head(outq[p])] = "outq" /\ Src(Head(outq[p])) = p
<1>1. outq[p] \in Seq(Event)
  BY DEF Inv, TypeOK
<1>2. Head(outq[p]) = outq[p][1] /\ Len(outq[p]) \in Nat \ {0} /\ Head(outq[p]) \in Event
  BY <1>1, EmptySeq, HeadTailProperties
<1>3. 1 \in 1 .. Len(outq[p])
  BY <1>2
<1>4. loc[outq[p][1]] = "outq" /\ Src(outq[p][1]) = p
  BY <1>3 DEF Inv, OutqOK
<1> QED BY <1>2, <1>4

LEMMA ConsInit == Init => Inv
<1> SUFFICES ASSUME Init PROVE Inv
  OBVIOUS
<1> USE ConservativeAssumption
<1>1. TypeOK
  BY DEF Init, TypeOK
<1>2. gvt_sig <= End
  BY DEF Init
<1>3. \A p \in PE : OutqOK(p) /\ PhaseOK(p)
  BY DEF Init, OutqOK, PhaseOK
<1>4. ASSUME NEW e \in Event PROVE EventOK(e)
  <2>1. e \notin Root => Lookahead <= Ts[e]
    BY LookaheadAssumption
  <2> QED BY <2>1 DEF Init, EventOK
<1>5. \A k \in KP : LastOK(k)
  BY DEF Init, LastOK
<1>6. NeverLate
  BY DEF Init, NeverLate, InPast
<1> QED BY <1>1, <1>2, <1>3, <1>4, <1>5, <1>6 DEF Inv

LEMMA ConsSendBegin == ASSUME Inv, NEW p \in PE, SendBegin(p) PROVE Inv'
<1> USE ConservativeAssumption
<1> DEFINE o == outq[p]
           e == Head(outq[p])
<1>1. /\ pc[p] \in {"net_read", "step2", "batch"} /\ outq[p] # <<>>
      /\ outq' = [outq EXCEPT ![p] = Tail(outq[p])]
      /\ posted' = posted \cup {e}
      /\ loc' = [loc EXCEPT ![e] = "net"]
      /\ UNCHANGED <<last, GVT, gvt_sig, pc>>
  BY DEF SendBegin, Serviced, gvtVars
<1>2. o \in Seq(Event) /\ o # <<>> /\ o = outq[p] /\ e = o[1] /\ Len(o) \in Nat \ {0}
  BY <1>1, EmptySeq DEF Inv, TypeOK
<1>3. e \in Event /\ loc[e] = "outq" /\ Src(e) = p
  BY <1>2 DEF Inv, OutqOK
<1>4. /\ Tail(o) \in Seq(Event) /\ Len(Tail(o)) = Len(o) - 1
      /\ \A i \in 1 .. Len(Tail(o)) : Tail(o)[i] = o[i + 1]
  BY <1>2, HeadTailProperties
<1> HIDE DEF o, e
<1>5. TypeOK'
  BY <1>1, <1>2, <1>3, <1>4 DEF Inv, TypeOK
<1>6. ASSUME NEW q \in PE PROVE OutqOK(q)'
  <2>1. CASE q = p
    <3>1. outq'[q] = Tail(o)
      BY <1>1, <1>2, <2>1 DEF Inv, TypeOK
    <3>2. ASSUME NEW i \in 1 .. Len(Tail(o))
          PROVE  Tail(o)[i] = o[i + 1] /\ i + 1 \in 1 .. Len(o) /\ i + 1 # 1
      <4>1. Tail(o)[i] = o[i + 1]
        BY <1>4
      <4>2. Len(Tail(o)) = Len(o) - 1 /\ Len(o) \in Nat
        BY <1>2, <1>4
      <4>3. i \in 1 .. Len(o) - 1
        BY <4>2
      <4> QED BY <4>1, <4>2, <4>3
    <3>3. /\ \A i \in 1 .. Len(o) : loc[o[i]] = "outq" /\ Src(o[i]) = p
          /\ \A i, j \in 1 .. Len(o) : i # j => o[i] # o[j]
      BY <1>2 DEF Inv, OutqOK
    <3>4. ASSUME NEW i \in 1 .. Len(Tail(o))
          PROVE  loc'[Tail(o)[i]] = "outq" /\ Src(Tail(o)[i]) = p
      <4>1. o[i + 1] # e /\ loc[o[i + 1]] = "outq" /\ Src(o[i + 1]) = p /\ o[i + 1] \in Event
        BY <1>2, <3>2, <3>3
      <4> QED BY <1>1, <3>2, <4>1 DEF Inv, TypeOK
    <3>5. ASSUME NEW i \in 1 .. Len(Tail(o)), NEW j \in 1 .. Len(Tail(o)), i # j
          PROVE  Tail(o)[i] # Tail(o)[j]
      <4>1. i + 1 # j + 1
        BY <3>5
      <4> QED BY <3>2, <3>3, <4>1
    <3> QED BY <2>1, <3>1, <3>4, <3>5 DEF OutqOK, Src
  <2>2. CASE q # p
    <3>1. outq'[q] = outq[q] /\ outq[q] \in Seq(Event)
      BY <1>1, <2>2 DEF Inv, TypeOK
    <3>2. ASSUME NEW i \in 1 .. Len(outq[q])
          PROVE  outq[q][i] \in Event /\ outq[q][i] # e /\ loc[outq[q][i]] = "outq" /\ Src(outq[q][i]) = q
      BY <1>3, <2>2, <3>1 DEF Inv, OutqOK
    <3>3. ASSUME NEW i \in 1 .. Len(outq[q]) PROVE loc'[outq[q][i]] = "outq"
      BY <1>1, <3>2 DEF Inv, TypeOK
    <3>4. \A i, j \in 1 .. Len(outq[q]) : i # j => outq[q][i] # outq[q][j]
      BY DEF Inv, OutqOK
    <3> QED BY <3>1, <3>2, <3>3, <3>4 DEF OutqOK, Src
  <2> QED BY <2>1, <2>2
<1>7. ASSUME NEW q \in PE PROVE PhaseOK(q)'
  <2>1. pc[q] # "lvt"
    BY <1>1 DEF Inv, PhaseOK
  <2> QED BY <1>1, <2>1 DEF Inv, PhaseOK
<1>8. ASSUME NEW f \in Event PROVE EventOK(f)'
  <2>1. CASE f = e
    <3>2. loc'[f] = "net" /\ Parent[f] \in Event
      BY <1>1, <1>3, <2>1 DEF Inv, TypeOK
    <3>3. e \in Root \/ loc[Parent[e]] = "done"
      BY <1>3 DEF Inv, EventOK
    <3>4. f \in Root \/ loc'[Parent[f]] = "done"
      BY <1>1, <1>3, <2>1, <3>2, <3>3 DEF Inv, TypeOK
    <3>5. gvt_sig + Lookahead <= Ts[f] /\ gvt_sig <= Ts[f]
      BY <1>3, <2>1 DEF Inv, EventOK, TypeOK
    <3> QED BY <1>1, <3>2, <3>4, <3>5 DEF EventOK
  <2>2. CASE f # e
    <3>1. loc'[f] = loc[f] /\ (f \in posted' <=> f \in posted)
      BY <1>1, <2>2 DEF Inv, TypeOK
    <3>2. loc'[Parent[f]] = "done" <=> loc[Parent[f]] = "done"
      BY <1>1, <1>3 DEF Inv, TypeOK
    <3>3. ASSUME loc[f] = "outq"
          PROVE  \E i \in 1 .. Len(outq'[Src(f)]) : outq'[Src(f)][i] = f
      <4>1. PICK i \in 1 .. Len(outq[Src(f)]) : outq[Src(f)][i] = f
        BY <3>3 DEF Inv, EventOK
      <4>2. CASE Src(f) = p
        <5>1. i # 1 /\ i - 1 \in 1 .. Len(Tail(o)) /\ Tail(o)[i - 1] = f /\ i \in Nat
          <6>1. i \in 1 .. Len(o) /\ o[i] = f
            BY <1>2, <4>1, <4>2
          <6>2. i # 1
            BY <1>2, <2>2, <6>1
          <6>3. i - 1 \in 1 .. Len(Tail(o)) /\ (i - 1) + 1 = i
            BY <1>2, <1>4, <6>1, <6>2
          <6> QED BY <1>4, <6>1, <6>2, <6>3
        <5>2. outq'[Src(f)] = Tail(o)
          BY <1>1, <1>2, <4>2 DEF Inv, TypeOK
        <5> QED BY <5>1, <5>2
      <4>3. CASE Src(f) # p
        <5>1. Src(f) \in PE /\ outq'[Src(f)] = outq[Src(f)]
          BY <1>1, <4>3 DEF Inv, TypeOK, Src
        <5> QED BY <4>1, <5>1
      <4> QED BY <4>2, <4>3
    <3>4. EventOK(f) /\ gvt_sig' = gvt_sig /\ last' = last
      BY <1>1 DEF Inv
    <3>5. loc'[f] = "none" <=> f \notin Root /\ loc'[Parent[f]] # "done"
      BY <3>1, <3>2, <3>4 DEF EventOK
    <3> QED BY <3>1, <3>3, <3>4, <3>5 DEF EventOK, Src
  <2> QED BY <2>1, <2>2
<1>9. ASSUME NEW k \in KP PROVE LastOK(k)'
  <2>1. \A d \in Event : loc[d] = "done" => loc'[d] = "done"
    BY <1>1, <1>3 DEF Inv, TypeOK
  <2> QED BY <1>1, <2>1 DEF Inv, LastOK
<1>10. NeverLate'
  <2>1. \A f \in Event : loc'[f] # "done" => loc[f] # "done"
    BY <1>1, <1>3 DEF Inv, TypeOK
  <2> QED BY <1>1, <2>1 DEF Inv, NeverLate, InPast
<1>11. (gvt_sig <= End)'
  BY <1>1 DEF Inv
<1> QED BY <1>5, <1>6, <1>7, <1>8, <1>9, <1>10, <1>11 DEF Inv

LEMMA ConsRecvFinish == ASSUME Inv, NEW p \in PE, RecvFinish(p) PROVE Inv'
<1> USE ConservativeAssumption
<1>1. PICK e \in In(p, "net") : loc' = [loc EXCEPT ![e] = Arrives(e)]
  BY DEF RecvFinish
<1>2. pc[p] \in {"net_read", "step2"} /\ UNCHANGED <<outq, posted, last, GVT, gvt_sig, pc>>
  BY DEF RecvFinish, netVars, gvtVars
<1>3. e \in Event /\ loc[e] = "net"
  BY <1>1 DEF In
<1>4. loc' = [loc EXCEPT ![e] = "pq"]
  BY <1>1, <1>3 DEF Inv, NeverLate, Arrives
<1>5. TypeOK'
  BY <1>2, <1>4 DEF Inv, TypeOK
<1>6. ASSUME NEW q \in PE PROVE OutqOK(q)'
  <2>1. ASSUME NEW i \in 1 .. Len(outq[q]) PROVE loc'[outq[q][i]] = "outq"
    <3>1. outq[q] \in Seq(Event)
      BY DEF Inv, TypeOK
    <3>2. outq[q][i] \in Event
      BY <3>1, <2>1, ElementOfSeq
    <3>3. loc[outq[q][i]] = "outq"
      BY <2>1 DEF Inv, OutqOK
    <3> QED BY <1>3, <1>4, <3>2, <3>3 DEF Inv, TypeOK
  <2> QED BY <1>2, <2>1 DEF Inv, OutqOK, Src
<1>7. ASSUME NEW q \in PE PROVE PhaseOK(q)'
  <2>1. pc[q] # "lvt"
    BY <1>2 DEF Inv, PhaseOK
  <2> QED BY <1>2, <2>1 DEF Inv, PhaseOK
<1>8. ASSUME NEW f \in Event PROVE EventOK(f)'
  <2>1. EventOK(f) /\ Parent[f] \in Event
    BY DEF Inv
  <2>2. loc'[Parent[f]] = "done" <=> loc[Parent[f]] = "done"
    BY <1>3, <1>4, <2>1 DEF Inv, TypeOK
  <2>3. CASE f = e
    <3>1. loc'[f] = "pq" /\ loc[f] = "net"
      BY <1>3, <1>4, <2>3 DEF Inv, TypeOK
    <3>2. f \in Root \/ loc'[Parent[f]] = "done"
      BY <2>1, <2>2, <3>1 DEF EventOK
    <3>3. gvt_sig <= Ts[f]
      BY <2>1, <3>1 DEF EventOK, Inv, TypeOK
    <3> QED BY <1>2, <3>1, <3>2, <3>3 DEF EventOK
  <2>4. CASE f # e
    <3>1. loc'[f] = loc[f]
      BY <1>4, <2>4 DEF Inv, TypeOK
    <3>2. loc'[f] = "none" <=> f \notin Root /\ loc'[Parent[f]] # "done"
      BY <2>1, <2>2, <3>1 DEF EventOK
    <3> QED BY <1>2, <2>1, <3>1, <3>2 DEF EventOK, Src
  <2> QED BY <2>3, <2>4
<1>9. ASSUME NEW k \in KP PROVE LastOK(k)'
  <2>1. \A d \in Event : loc[d] = "done" => loc'[d] = "done"
    BY <1>3, <1>4 DEF Inv, TypeOK
  <2> QED BY <1>2, <2>1 DEF Inv, LastOK
<1>10. NeverLate'
  <2>1. \A f \in Event : loc'[f] # "done" => loc[f] # "done"
    BY <1>3, <1>4 DEF Inv, TypeOK
  <2> QED BY <1>2, <2>1 DEF Inv, NeverLate, InPast
<1>11. (gvt_sig <= End)'
  BY <1>2 DEF Inv
<1> QED BY <1>5, <1>6, <1>7, <1>8, <1>9, <1>10, <1>11 DEF Inv

LEMMA ConsUpdateGVT == ASSUME Inv, NEW p \in PE, UpdateGVT(p) PROVE Inv'
<1> USE ConservativeAssumption
<1>1. /\ pc[p] = "update" /\ UNCHANGED <<loc, outq, posted, last, gvt_sig>>
      /\ GVT' = [GVT EXCEPT ![p] = gvt_sig]
      /\ \E s \in {"end", "batch"} : pc' = [pc EXCEPT ![p] = s]
  BY DEF UpdateGVT, netVars
<1>2. TypeOK' /\ (gvt_sig <= End)'
  BY <1>1 DEF Inv, TypeOK
<1>3. ASSUME NEW q \in PE PROVE OutqOK(q)' /\ PhaseOK(q)'
  <2>1. OutqOK(q)'
    BY <1>1 DEF Inv, OutqOK, Src
  <2>2. pc[q] # "lvt" /\ pc'[q] # "lvt"
    BY <1>1 DEF Inv, PhaseOK, TypeOK
  <2>3. pc'[q] # "update" => GVT'[q] = gvt_sig
    BY <1>1 DEF Inv, PhaseOK, TypeOK
  <2> QED BY <1>1, <2>1, <2>2, <2>3 DEF PhaseOK
<1> QED BY <1>1, <1>2, <1>3, SameEvents DEF Inv

\* A step within the loop of a PE: nothing moves, and no GVT is computed.
LEMMA ConsQuiet ==
  ASSUME Inv, NEW p \in PE, pc[p] \in {"net_read", "step2", "batch"},
         UNCHANGED <<loc, outq, last, GVT, gvt_sig>>, posted' \subseteq posted,
         \E s \in {"net_read", "step2", "batch"} : pc' = [pc EXCEPT ![p] = s]
  PROVE  Inv'
<1>1. TypeOK' /\ (gvt_sig <= End)'
  BY DEF Inv, TypeOK
<1>2. ASSUME NEW q \in PE PROVE OutqOK(q)' /\ PhaseOK(q)'
  <2>1. OutqOK(q)'
    BY DEF Inv, OutqOK, Src
  <2>2. pc[q] # "lvt" /\ pc'[q] # "lvt"
    BY DEF Inv, PhaseOK, TypeOK
  <2>3. pc'[q] # "update" => GVT[q] = gvt_sig
    BY DEF Inv, PhaseOK, TypeOK
  <2> QED BY <2>1, <2>2, <2>3 DEF PhaseOK
<1> QED BY <1>1, <1>2, SameEvents DEF Inv

LEMMA ConsLoop == ASSUME Inv, NEW p \in PE, Loop(p) PROVE Inv'
<1>1. /\ pc[p] = "net_read" /\ UNCHANGED <<outq, posted, last, GVT, gvt_sig>>
      /\ \E s \in {"step2", "batch"} : pc' = [pc EXCEPT ![p] = s]
      /\ loc' = [e \in Event |-> IF e \in In(p, "event_q") THEN "pq" ELSE loc[e]]
  BY DEF Loop, netVars
<1>2. In(p, "event_q") = {}
  BY DEF In, Inv, EventOK
<1>3. loc' = loc
  BY <1>1, <1>2 DEF Inv, TypeOK
<1> QED BY <1>1, <1>3, ConsQuiet

LEMMA ConsSendFinish == ASSUME Inv, NEW p \in PE, SendFinish(p) PROVE Inv'
<1>1. /\ pc[p] \in {"net_read", "step2", "batch"} /\ posted' \subseteq posted
      /\ UNCHANGED <<loc, outq, last, GVT, gvt_sig, pc>>
  BY DEF SendFinish, gvtVars
<1>2. pc' = [pc EXCEPT ![p] = pc[p]]
  BY <1>1 DEF Inv, TypeOK
<1> QED BY <1>1, <1>2, ConsQuiet

LEMMA ConsBatchDone == ASSUME Inv, NEW p \in PE, BatchDone(p) PROVE Inv'
BY ConsQuiet DEF BatchDone, netVars, gvtVars

\* Here the sends that are still to be posted matter.
LEMMA ConsAllreduceWhite == ASSUME Inv, AllreduceWhite, Drained' PROVE Inv'
<1> USE ConservativeAssumption
<1>1. /\ \A p \in PE : pc[p] = "step2" /\ pc'[p] = "lvt"
      /\ pc' = [p \in PE |-> "lvt"]
      /\ \A e \in Event : loc[e] # "net"
      /\ UNCHANGED <<loc, outq, posted, last, GVT, gvt_sig>>
  BY DEF AllreduceWhite, netVars, gvtVars
<1>2. TypeOK' /\ (gvt_sig <= End)'
  BY <1>1 DEF Inv, TypeOK
<1>3. ASSUME NEW e \in Event PROVE loc[e] # "outq"
  <2>1. Src(e) \in PE
    BY DEF Src
  <2>2. outq[Src(e)] = <<>>
    BY <1>1, <2>1 DEF Drained
  <2> QED BY <2>2 DEF Inv, EventOK
<1>4. ASSUME NEW q \in PE PROVE OutqOK(q)' /\ PhaseOK(q)'
  <2>1. OutqOK(q)'
    BY <1>1 DEF Inv, OutqOK, Src
  <2>2. (pc[q] # "update" => GVT[q] = gvt_sig)'
    BY <1>1 DEF Inv, PhaseOK
  <2>3. (\A r \in PE : pc[r] = "lvt")' /\ \A e \in Event : loc'[e] \notin {"outq", "net"}
    BY <1>1, <1>3
  <2> QED BY <2>1, <2>2, <2>3 DEF PhaseOK
<1> QED BY <1>1, <1>2, <1>4, SameEvents DEF Inv

LEMMA ConsAllreduceMin == ASSUME Inv, AllreduceMin PROVE Inv'
<1> USE ConservativeAssumption
<1>1. /\ \A p \in PE : pc[p] = "lvt" /\ pc'[p] = "update"
      /\ pc' = [p \in PE |-> "update"] /\ gvt_sig' = GvtValue
      /\ UNCHANGED <<loc, outq, posted, last, GVT>>
  BY DEF AllreduceMin, netVars
<1>2. \A e \in Event : EventOK(e) /\ loc[e] \notin {"outq", "net"}
  BY <1>1 DEF Inv, PhaseOK
<1>3. \A e \in Event : loc[e] \in {"pq", "event_q", "outq"} \/ e \in posted => gvt_sig <= Ts[e]
  BY <1>2 DEF EventOK
<1>4. /\ gvt_sig' \in Nat /\ gvt_sig <= gvt_sig' /\ gvt_sig' <= End
      /\ \A e \in Event : loc[e] \in {"pq", "event_q", "outq"} \/ e \in posted => gvt_sig' <= Ts[e]
  BY <1>1, <1>3, GvtValueBound DEF Inv, TypeOK
<1>5. TypeOK' /\ (gvt_sig <= End)'
  BY <1>1, <1>4 DEF Inv, TypeOK
<1>6. ASSUME NEW q \in PE PROVE OutqOK(q)' /\ PhaseOK(q)'
  <2>1. OutqOK(q)'
    BY <1>1 DEF Inv, OutqOK, Src
  <2>2. pc'[q] = "update"
    BY <1>1
  <2> QED BY <2>1, <2>2 DEF PhaseOK
<1>7. ASSUME NEW e \in Event PROVE EventOK(e)'
  <2>1. EventOK(e) /\ gvt_sig \in Nat /\ Ts[e] \in Nat /\ Lookahead \in Nat
    BY <1>2 DEF Inv, TypeOK
  <2>2. loc[e] = "none" => gvt_sig' + Lookahead <= Ts[e]
    BY <1>2, <1>4, Unborn DEF Inv
  <2>3. loc[e] = "done" => Ts[e] < gvt_sig' + Lookahead
    BY <1>4, <2>1 DEF EventOK
  <2> QED BY <1>1, <1>2, <1>4, <2>1, <2>2, <2>3 DEF EventOK, Src
<1>8. \A k \in KP : LastOK(k)'
  BY <1>1 DEF Inv, LastOK
<1>9. NeverLate'
  BY <1>1 DEF Inv, NeverLate, InPast
<1> QED BY <1>5, <1>6, <1>7, <1>8, <1>9 DEF Inv

-----------------------------------------------------------------------------
\* A listing of a finite set without repetitions leaves nothing out.
LEMMA Listing ==
  ASSUME NEW R, IsFiniteSet(R), NEW s \in Injection(1 .. Cardinality(R), R)
  PROVE  /\ s \in Seq(R) /\ Len(s) = Cardinality(R)
         /\ \A r \in R : \E i \in 1 .. Len(s) : s[i] = r
<1> DEFINE n == Cardinality(R)
<1>1. n \in Nat
  BY FS_CardinalityType
<1>2. s \in Injection(1 .. n, R) /\ s \in [1 .. n -> R]
  BY DEF Injection
<1>3. IsFiniteSet(1 .. n) /\ Cardinality(1 .. n) = n
  BY <1>1, FS_Interval
<1>4. s \in Surjection(1 .. n, R)
  BY <1>2, <1>3, FS_Injection
<1>5. \A r \in R : \E i \in 1 .. n : s[i] = r
  BY <1>4 DEF Surjection
<1> HIDE DEF n
<1>6. s \in Seq(R) /\ Len(s) = n
  BY <1>1, <1>2
<1> QED BY <1>5, <1>6 DEF n

\* What an execution of e on p does, when nothing is late: remote are the
\* events it sends to other PEs, s the order in which they enter outq.
Sent(e) == {c \in Event \ Root : Parent[c] = e}

Chooses(p, e) ==
  /\ loc[e] = "pq" /\ Dst(e) = p /\ Ts[e] < gvt_sig + Lookahead
  /\ \A f \in Event : loc[f] = "pq" /\ Dst(f) = p => Sig[e] <= Sig[f]
  /\ \A c \in Sent(e) : loc[c] = "none" /\ Src(c) = p

Moves(e, remote) ==
  /\ loc'[e] = "done" /\ last' = [last EXCEPT ![Kp[e]] = Sig[e]]
  /\ remote \subseteq Sent(e)
  /\ \A c \in remote : loc'[c] = "outq" /\ Dst(c) # Dst(e)
  /\ \A c \in Sent(e) \ remote : loc'[c] = "pq"
  /\ \A f \in Event : f # e /\ f \notin Sent(e) => loc'[f] = loc[f]

Sends(p, remote, s) ==
  /\ s \in Seq(remote)
  /\ \A i, j \in 1 .. Len(s) : i # j => s[i] # s[j]
  /\ \A r \in remote : \E i \in 1 .. Len(s) : s[i] = r
  /\ outq' = [outq EXCEPT ![p] = outq[p] \o s]

LEMMA Executed ==
  ASSUME Inv, NEW p \in PE, Process(p)
  PROVE  \E e \in Event : \E remote, s : Chooses(p, e) /\ Moves(e, remote) /\ Sends(p, remote, s)
<1> USE ConservativeAssumption
<1>1. PICK e \in Event :
        LET sent == {c \in Event \ Root : Parent[c] = e}
            remote == {c \in sent : Dst(c) # p}
        IN  /\ IsLeast(p, e)
            /\ last' = [last EXCEPT ![Kp[e]] = Sig[e]]
            /\ loc' = [f \in Event |->
                         IF f = e THEN "done"
                         ELSE IF f \in remote THEN "outq"
                         ELSE IF f \in sent THEN Arrives(f) ELSE loc[f]]
            /\ \E s \in [1 .. Cardinality(remote) -> remote] :
                 /\ \A i, j \in DOMAIN s : i # j => s[i] # s[j]
                 /\ outq' = [outq EXCEPT ![p] = @ \o s]
  BY DEF Process
<1> DEFINE sent == {c \in Event \ Root : Parent[c] = e}
           remote == {c \in sent : Dst(c) # p}
<1>2. PICK s \in [1 .. Cardinality(remote) -> remote] :
        /\ \A i, j \in DOMAIN s : i # j => s[i] # s[j]
        /\ outq' = [outq EXCEPT ![p] = outq[p] \o s]
  BY <1>1
<1>3. IsFiniteSet(remote) /\ remote \in SUBSET Event
  BY FS_Subset
<1>4. /\ s \in Seq(remote) /\ Len(s) = Cardinality(remote)
      /\ \A r \in remote : \E i \in 1 .. Len(s) : s[i] = r
  <2>1. s \in Injection(1 .. Cardinality(remote), remote)
    <3> HIDE DEF remote
    <3> QED BY <1>2 DEF Injection, IsInjective
  <2>2. IsFiniteSet(remote)
    BY <1>3
  <2> HIDE DEF remote
  <2> QED BY <2>1, <2>2, Listing
<1>5. \A i, j \in 1 .. Len(s) : i # j => s[i] # s[j]
  BY <1>2, <1>4
<1>6. loc[e] = "pq" /\ Dst(e) = p /\ \A f \in Event : loc[f] = "pq" /\ Dst(f) = p => Sig[e] <= Sig[f]
  BY <1>1 DEF IsLeast, In
<1>7. Ts[e] < gvt_sig + Lookahead
  <2>1. GVT[p] = gvt_sig /\ MayProcess(p)
    BY DEF Process, Inv, PhaseOK
  <2> QED BY <1>1, <2>1, Chosen DEF Inv
<1>8. ASSUME NEW c \in sent PROVE loc[c] = "none" /\ Src(c) = p /\ ~InPast(c)
  <2>1. loc[c] = "none"
    BY <1>6 DEF Inv, EventOK
  <2> QED BY <1>6, <2>1 DEF Inv, NeverLate, Src, Dst
<1>9. Sent(e) = sent /\ e \notin sent /\ remote \subseteq sent
  BY <1>6, <1>8 DEF Sent
<1>10. /\ loc'[e] = "done"
       /\ \A c \in remote : loc'[c] = "outq" /\ Dst(c) # Dst(e)
       /\ \A c \in sent \ remote : loc'[c] = "pq"
       /\ \A f \in Event : f # e /\ f \notin sent => loc'[f] = loc[f]
  BY <1>1, <1>6, <1>8, <1>9 DEF Arrives
<1>11. Moves(e, remote)
  <2> HIDE DEF sent, remote
  <2> QED BY <1>1, <1>9, <1>10 DEF Moves
<1>12. Chooses(p, e)
  <2> HIDE DEF sent
  <2> QED BY <1>6, <1>7, <1>8, <1>9 DEF Chooses
<1>13. Sends(p, remote, s)
  <2> HIDE DEF remote
  <2> QED BY <1>2, <1>4, <1>5 DEF Sends
<1> HIDE DEF remote
<1> QED BY <1>11, <1>12, <1>13

LEMMA ConsProcess == ASSUME Inv, NEW p \in PE, Process(p) PROVE Inv'
<1> USE ConservativeAssumption
<1>1. PICK e \in Event : \E remote, s : Chooses(p, e) /\ Moves(e, remote) /\ Sends(p, remote, s)
  BY Executed
<1>2. PICK remote, s : Chooses(p, e) /\ Moves(e, remote) /\ Sends(p, remote, s)
  BY <1>1
<1>3. /\ pc[p] = "batch" /\ UNCHANGED <<posted, GVT, gvt_sig, pc>>
      /\ loc' \in [Event -> {"none", "outq", "net", "event_q", "pq", "done"}]
  <2>1. pc[p] = "batch" /\ UNCHANGED <<posted, GVT, gvt_sig, pc>>
    BY DEF Process, gvtVars
  <2>2. \A f : loc[f] # "event_q" => Arrives(f) \in {"event_q", "pq"}
    BY DEF Arrives
  <2>3. loc' \in [Event -> {"none", "outq", "net", "event_q", "pq", "done"}]
    BY <2>2 DEF Process, Inv, TypeOK, Arrives
  <2> QED BY <2>1, <2>3
<1>4. /\ Sent(e) \subseteq Event /\ remote \subseteq Event /\ e \notin Sent(e)
      /\ \A c \in Sent(e) : loc[c] = "none" /\ loc'[c] \in {"outq", "pq"}
      /\ \A f \in Event : loc[f] = "done" => loc'[f] = "done"
      /\ \A f \in Event : loc'[f] = "done" /\ f # e => loc[f] = "done"
  <2>1. Sent(e) \subseteq Event
    BY DEF Sent
  <2> QED BY <1>2, <2>1 DEF Chooses, Moves
<1>5. /\ outq[p] \in Seq(Event) /\ s \in Seq(remote) /\ s \in Seq(Event)
      /\ Len(outq[p]) \in Nat /\ Len(s) \in Nat
  <2>1. s \in Seq(remote) /\ outq[p] \in Seq(Event)
    BY <1>2 DEF Sends, Inv, TypeOK
  <2>2. s \in Seq(Event)
    BY <1>4, <2>1
  <2> QED BY <2>1, <2>2, LenProperties
<1> DEFINE o == outq[p]
           n == Len(outq[p])
           w == outq[p] \o s
<1>6. /\ w \in Seq(Event) /\ Len(w) = n + Len(s) /\ outq' = [outq EXCEPT ![p] = w]
      /\ \A i \in 1 .. n + Len(s) : w[i] = IF i <= n THEN o[i] ELSE s[i - n]
  BY <1>2, <1>5, ConcatProperties DEF Sends
<1>7. outq'[p] = w /\ \A q \in PE : q # p => outq'[q] = outq[q]
  BY <1>6 DEF Inv, TypeOK
<1> HIDE DEF w, o, n
<1>8. n \in Nat /\ o = outq[p] /\ n = Len(o)
  BY <1>5 DEF o, n
\* Each place of w is one of outq or one of s.
<1>9. ASSUME NEW i \in 1 .. Len(w)
      PROVE  /\ i <= n => i \in 1 .. n /\ w[i] = o[i]
             /\ ~(i <= n) => i - n \in 1 .. Len(s) /\ w[i] = s[i - n]
  <2>1. i \in 1 .. n + Len(s)
    BY <1>6
  <2>2. CASE i <= n
    BY <1>5, <1>6, <1>8, <2>1, <2>2
  <2>3. CASE ~(i <= n)
    <3>1. i - n \in 1 .. Len(s)
      BY <1>5, <1>8, <2>1, <2>3
    <3> QED BY <1>6, <2>1, <2>3, <3>1
  <2> QED BY <2>2, <2>3
<1>10. /\ \A i \in 1 .. n : i \in 1 .. Len(w) /\ w[i] = o[i]
       /\ \A i \in 1 .. Len(s) : n + i \in 1 .. Len(w) /\ w[n + i] = s[i]
  <2>1. ASSUME NEW i \in 1 .. n PROVE i \in 1 .. Len(w) /\ w[i] = o[i]
    <3>1. i \in 1 .. n + Len(s) /\ i <= n
      BY <1>5, <1>8
    <3> QED BY <1>6, <3>1
  <2>2. ASSUME NEW i \in 1 .. Len(s) PROVE n + i \in 1 .. Len(w) /\ w[n + i] = s[i]
    <3>1. n \in Nat /\ Len(s) \in Nat
      BY <1>5, <1>8
    <3>2. n + i \in 1 .. n + Len(s)
      BY <2>2, <3>1
    <3>3. ~(n + i <= n) /\ (n + i) - n = i
      BY <2>2, <3>1
    <3> QED BY <1>6, <3>2, <3>3
  <2> QED BY <2>1, <2>2
<1>11. ASSUME NEW i \in 1 .. n
       PROVE  o[i] \in Event /\ loc[o[i]] = "outq" /\ loc'[o[i]] = "outq" /\ Src(o[i]) = p
  <2>1. o[i] \in Event
    BY <1>5, <1>8, ElementOfSeq
  <2>2. loc[o[i]] = "outq" /\ Src(o[i]) = p
    BY <1>8 DEF Inv, OutqOK
  <2>3. o[i] # e /\ o[i] \notin Sent(e)
    BY <1>2, <2>2 DEF Chooses
  <2> QED BY <1>2, <2>1, <2>2, <2>3 DEF Moves
<1>12. ASSUME NEW i \in 1 .. Len(s)
       PROVE  s[i] \in remote /\ loc[s[i]] = "none" /\ loc'[s[i]] = "outq" /\ Src(s[i]) = p
  <2>1. s[i] \in remote
    BY <1>5, ElementOfSeq
  <2> QED BY <1>2, <2>1 DEF Moves, Chooses
<1>12a. ASSUME NEW i \in 1 .. Len(w)
      PROVE  /\ loc'[w[i]] = "outq" /\ Src(w[i]) = p
             /\ loc[w[i]] = "outq" <=> i <= n
  <2>1. CASE i <= n
    <3>1. i \in 1 .. n /\ w[i] = o[i]
      BY <1>9, <2>1
    <3> QED BY <1>11, <2>1, <3>1
  <2>2. CASE ~(i <= n)
    <3>1. i - n \in 1 .. Len(s) /\ w[i] = s[i - n]
      BY <1>9, <2>2
    <3>2. loc[s[i - n]] = "none" /\ loc'[s[i - n]] = "outq" /\ Src(s[i - n]) = p
      BY <1>12, <3>1
    <3> QED BY <2>2, <3>1, <3>2
  <2> QED BY <2>1, <2>2
<1>13. TypeOK'
  BY <1>2, <1>3, <1>6 DEF Inv, TypeOK, Moves
<1>14. ASSUME NEW q \in PE PROVE OutqOK(q)'
  <2>1. CASE q = p
    <3>1. ASSUME NEW i \in 1 .. Len(w) PROVE loc'[w[i]] = "outq" /\ Src(w[i]) = p
      BY <1>12a
    <3>2. ASSUME NEW i \in 1 .. Len(w), NEW j \in 1 .. Len(w), i # j PROVE w[i] # w[j]
      <4>1. CASE i <= n /\ j <= n
        <5>1. i \in 1 .. n /\ j \in 1 .. n /\ w[i] = o[i] /\ w[j] = o[j]
          BY <1>9, <4>1
        <5> QED BY <1>8, <3>2, <5>1 DEF Inv, OutqOK
      <4>2. CASE ~(i <= n) /\ ~(j <= n)
        <5>1. i - n \in 1 .. Len(s) /\ j - n \in 1 .. Len(s) /\ w[i] = s[i - n] /\ w[j] = s[j - n]
          BY <1>9, <4>2
        <5>2. i - n # j - n
          BY <1>8, <3>2
        <5> QED BY <1>2, <5>1, <5>2 DEF Sends
      <4>3. CASE i <= n /\ ~(j <= n)
        <5>1. loc[w[i]] = "outq" /\ loc[w[j]] # "outq"
          BY <1>12a, <4>3
        <5> QED BY <5>1
      <4>4. CASE ~(i <= n) /\ j <= n
        <5>1. loc[w[i]] # "outq" /\ loc[w[j]] = "outq"
          BY <1>12a, <4>4
        <5> QED BY <5>1
      <4> QED BY <4>1, <4>2, <4>3, <4>4
    <3> QED BY <1>7, <2>1, <3>1, <3>2 DEF OutqOK, Src
  <2>2. CASE q # p
    <3>1. outq'[q] = outq[q] /\ outq[q] \in Seq(Event)
      BY <1>7, <2>2 DEF Inv, TypeOK
    <3>2. ASSUME NEW i \in 1 .. Len(outq[q]) PROVE loc'[outq[q][i]] = "outq"
      <4>1. outq[q][i] \in Event
        BY <3>1, ElementOfSeq
      <4>2. loc[outq[q][i]] = "outq"
        BY DEF Inv, OutqOK
      <4> QED BY <1>2, <4>1, <4>2 DEF Chooses, Moves
    <3> QED BY <3>1, <3>2 DEF Inv, OutqOK, Src
  <2> QED BY <2>1, <2>2
<1>15. ASSUME NEW q \in PE PROVE PhaseOK(q)'
  <2>1. pc[q] # "lvt"
    BY <1>3 DEF Inv, PhaseOK
  <2> QED BY <1>3, <2>1 DEF Inv, PhaseOK
\* No KP's last event gets smaller, and no event is behind the new one.
<1>16. /\ \A k \in KP : last[k] <= last'[k] /\ last[k] \in Nat
       /\ last'[Kp[e]] = Sig[e] /\ \A k \in KP : k # Kp[e] => last'[k] = last[k]
  <2>1. last' = [last EXCEPT ![Kp[e]] = Sig[e]] /\ last \in [KP -> Nat]
    BY <1>2 DEF Moves, Inv, TypeOK
  <2>2. ~InPast(e)
    BY <1>2 DEF Chooses, Inv, NeverLate
  <2>3. last[Kp[e]] <= Sig[e]
    BY <2>1, <2>2 DEF InPast
  <2> QED BY <2>1, <2>3
<1>17. NeverLate'
  <2>1. SUFFICES ASSUME NEW f \in Event, loc'[f] # "done" PROVE ~(last'[Kp[f]] > Sig[f])
    BY DEF NeverLate, InPast
  <2>2. f # e /\ loc[f] # "done" /\ ~InPast(f)
    BY <1>2, <1>4, <2>1 DEF Moves, Inv, NeverLate
  <2>3. CASE Kp[f] # Kp[e]
    BY <1>16, <2>2, <2>3 DEF InPast
  <2>4. CASE Kp[f] = Kp[e]
    <3>1. loc[f] \in {"none", "outq", "net", "pq"}
      BY <2>2 DEF Inv, TypeOK, EventOK
    <3>2. CASE loc[f] = "pq"
      <4>1. Sig[e] <= Sig[f]
        BY <1>2, <2>4, <3>2 DEF Chooses, Dst
      <4> QED BY <1>16, <2>4, <4>1
    <3>3. CASE loc[f] \in {"none", "outq", "net"}
      <4>1. gvt_sig + Lookahead <= Ts[f] /\ Ts[e] < gvt_sig + Lookahead
        BY <1>2, <3>3 DEF Chooses, Inv, EventOK
      <4>2. Ts[e] < Ts[f]
        BY <4>1 DEF Inv, TypeOK
      <4>3. Sig[e] < Sig[f]
        BY <4>2
      <4> QED BY <1>16, <2>4, <4>3
    <3> QED BY <3>1, <3>2, <3>3
  <2> QED BY <2>3, <2>4
<1>18. ASSUME NEW k \in KP PROVE LastOK(k)'
  <2>1. CASE k = Kp[e]
    BY <1>2, <1>16, <2>1 DEF LastOK, Moves
  <2>2. CASE k # Kp[e]
    BY <1>4, <1>16, <2>2 DEF LastOK, Inv
  <2> QED BY <2>1, <2>2
<1>19. ASSUME NEW f \in Event PROVE EventOK(f)'
  <2>1. EventOK(f) /\ Parent[f] \in Event /\ Ts[f] \in Nat /\ Sig[f] \in Nat /\ gvt_sig \in Nat /\ Kp[f] \in KP
    BY DEF Inv, TypeOK
  <2>2. CASE f = e
    <3>1. loc'[f] = "done" /\ loc[f] = "pq" /\ Ts[f] < gvt_sig + Lookahead
      BY <1>2, <2>2 DEF Moves, Chooses
    <3>2. f \in Root \/ loc'[Parent[f]] = "done"
      BY <1>4, <2>1, <3>1 DEF EventOK
    <3>3. gvt_sig <= Ts[f] /\ Sig[f] <= last'[Kp[f]]
      BY <1>16, <2>1, <2>2, <3>1 DEF EventOK
    <3> QED BY <1>3, <3>1, <3>2, <3>3 DEF EventOK
  <2>3. CASE f \in Sent(e)
    <3>1. loc'[f] \in {"outq", "pq"} /\ loc[f] = "none" /\ Src(f) = p
      BY <1>2, <1>4, <2>3 DEF Chooses
    <3>2. loc'[Parent[f]] = "done"
      BY <1>2, <2>3 DEF Moves, Sent
    <3>3. gvt_sig + Lookahead <= Ts[f] /\ gvt_sig <= Ts[f]
      BY <2>1, <3>1 DEF EventOK
    <3>4. ASSUME loc'[f] = "outq" PROVE \E i \in 1 .. Len(outq'[Src(f)]) : outq'[Src(f)][i] = f
      <4>1. f \in remote
        BY <1>2, <2>3, <3>4 DEF Moves
      <4>2. PICK i \in 1 .. Len(s) : s[i] = f
        BY <1>2, <4>1 DEF Sends
      <4> QED BY <1>7, <1>10, <3>1, <4>2
    <3> QED BY <1>3, <3>1, <3>2, <3>3, <3>4 DEF EventOK, Src
  <2>4. CASE f # e /\ f \notin Sent(e)
    <3>1. loc'[f] = loc[f]
      BY <1>2, <2>4 DEF Moves
    <3>2. f \in Root \/ Parent[f] # e
      BY <2>4 DEF Sent
    <3>3. f \in Root \/ (loc'[Parent[f]] = "done" <=> loc[Parent[f]] = "done")
      BY <1>4, <2>1, <3>2
    <3>4. loc'[f] = "none" <=> f \notin Root /\ loc'[Parent[f]] # "done"
      BY <2>1, <3>1, <3>3 DEF EventOK
    <3>5. loc[f] = "done" => Sig[f] <= last'[Kp[f]]
      <4>1. last[Kp[f]] <= last'[Kp[f]] /\ last[Kp[f]] \in Nat /\ last'[Kp[f]] \in Nat
        BY <1>13, <1>16, <2>1 DEF TypeOK
      <4>2. loc[f] = "done" => Sig[f] <= last[Kp[f]]
        BY <2>1 DEF EventOK
      <4> QED BY <2>1, <4>1, <4>2
    <3>6. ASSUME loc[f] = "outq" PROVE \E i \in 1 .. Len(outq'[Src(f)]) : outq'[Src(f)][i] = f
      <4>1. Src(f) \in PE
        BY <2>1 DEF Src
      <4>2. PICK i \in 1 .. Len(outq[Src(f)]) : outq[Src(f)][i] = f
        BY <2>1, <3>6 DEF EventOK
      <4>3. CASE Src(f) = p
        <5>1. i \in 1 .. n /\ o[i] = f
          BY <1>8, <4>2, <4>3
        <5> QED BY <1>7, <1>10, <4>3, <5>1
      <4>4. CASE Src(f) # p
        BY <1>7, <4>1, <4>2, <4>4
      <4> QED BY <4>3, <4>4
    <3> QED BY <1>3, <2>1, <3>1, <3>4, <3>5, <3>6 DEF EventOK, Src
  <2> QED BY <2>2, <2>3, <2>4
<1>20. (gvt_sig <= End)'
  BY <1>3 DEF Inv
<1> QED BY <1>13, <1>14, <1>15, <1>17, <1>18, <1>19, <1>20 DEF Inv

-----------------------------------------------------------------------------
LEMMA ConsNext == ASSUME Inv, [Next]_vars, Drained' PROVE Inv'
<1>1. CASE UNCHANGED vars
  <2>1. UNCHANGED <<loc, outq, posted, last, GVT, gvt_sig, pc>>
    BY <1>1 DEF vars, netVars, gvtVars
  <2>2. TypeOK' /\ (gvt_sig <= End)' /\ \A p \in PE : OutqOK(p)' /\ PhaseOK(p)'
    BY <2>1 DEF Inv, TypeOK, OutqOK, PhaseOK, Src
  <2> QED BY <2>1, <2>2, SameEvents DEF Inv
<1>2. ASSUME NEW p \in PE,
             SendBegin(p) \/ SendFinish(p) \/ RecvFinish(p) \/ Loop(p)
               \/ UpdateGVT(p) \/ Process(p) \/ BatchDone(p)
      PROVE  Inv'
  BY <1>2, ConsSendBegin, ConsSendFinish, ConsRecvFinish, ConsLoop, ConsUpdateGVT,
     ConsProcess, ConsBatchDone
<1>3. CASE AllreduceWhite
  BY <1>3, ConsAllreduceWhite
<1>4. CASE AllreduceMin
  BY <1>4, ConsAllreduceMin
<1> QED BY <1>1, <1>2, <1>3, <1>4 DEF Next, Ended

LEMMA ConsInvariant == Spec /\ []Drained => []Inv
<1>1. Inv /\ [Next]_vars /\ Drained' => Inv'
  BY ConsNext
<1> QED BY <1>1, ConsInit, PTL DEF Spec

\* No event reaches a KP, or is sent to it, behind what the KP has executed: a
\* PE that executes everything below GVT + g_tw_lookahead never overtakes an
\* event, whatever the network delays, provided no event waits in outq when
\* tw_gvt_step2 computes the GVT.
THEOREM NothingLate == Spec /\ []Drained => []NeverLate
<1>1. Inv => NeverLate
  BY DEF Inv
<1> QED BY <1>1, ConsInvariant, PTL

\* Then the error of the batch loop, "Found KP last time > current event time",
\* is never reached.
THEOREM NoErrorExit == Spec /\ []Drained => []NoPastEvent
<1>1. Inv => NoPastEvent
  BY DEF Inv, NeverLate, NoPastEvent, IsLeast, In
<1> QED BY <1>1, ConsInvariant, PTL

\* Then the conservative scheduler, like the optimistic one, implements the
\* simulation: an execution is for good, and every KP executes its events in
\* the order of their signatures.
THEOREM ConservativeSimulates == Spec /\ []Drained => IsSimulation
<1> DEFINE done == {e \in Event : loc[e] = "done"}
<1>1. Init => S!Init
  BY DEF Init, S!Init
<1>2. ASSUME Inv, [Next]_vars, Inv' PROVE S!Commit \/ UNCHANGED done
  <2>1. CASE loc' = loc
    BY <2>1
  <2>2. ASSUME NEW f \in Event, NEW v, v # "done", loc[f] # "done", loc' = [loc EXCEPT ![f] = v]
        PROVE  UNCHANGED done
    BY <1>2, <2>2 DEF Inv, TypeOK
  <2>3. ASSUME NEW p \in PE, SendBegin(p) PROVE UNCHANGED done
    <3>1. Head(outq[p]) \in Event /\ loc[Head(outq[p])] = "outq"
      BY <1>2, <2>3, OutqHead DEF SendBegin, Serviced
    <3> QED BY <2>2, <2>3, <3>1 DEF SendBegin
  <2>4. ASSUME NEW p \in PE, RecvFinish(p) PROVE UNCHANGED done
    <3>1. PICK e \in In(p, "net") : loc' = [loc EXCEPT ![e] = Arrives(e)]
      BY <2>4 DEF RecvFinish
    <3> QED BY <2>2, <3>1 DEF In, Arrives
  <2>5. ASSUME NEW p \in PE, Loop(p) PROVE UNCHANGED done
    <3>1. In(p, "event_q") = {}
      BY <1>2 DEF In, Inv, EventOK
    <3> QED BY <1>2, <2>1, <2>5, <3>1 DEF Loop, Inv, TypeOK
  <2>6. ASSUME NEW p \in PE, Process(p) PROVE S!Commit
    <3>1. PICK e \in Event : \E remote, s : Chooses(p, e) /\ Moves(e, remote) /\ Sends(p, remote, s)
      BY <1>2, <2>6, Executed
    <3>2. PICK remote : Chooses(p, e) /\ Moves(e, remote)
      BY <3>1
    <3>3. ASSUME NEW f \in Event PROVE loc'[f] = "done" <=> f = e \/ loc[f] = "done"
      BY <3>2 DEF Moves, Chooses
    <3>4. done \subseteq done' /\ done' \subseteq Event /\ done' \ done \subseteq {e}
      BY <3>3
    <3>5. ASSUME NEW f \in done, Kp[e] = Kp[f] PROVE Sig[f] <= Sig[e]
      <4>1. f \in Event /\ Sig[f] <= last[Kp[e]]
        BY <1>2, <3>5 DEF Inv, EventOK
      <4>2. ~InPast(e)
        BY <1>2, <3>2 DEF Inv, NeverLate, Chooses
      <4>3. Sig[f] \in Nat /\ Sig[e] \in Nat /\ last[Kp[e]] \in Nat
        BY <1>2, <4>1, ConservativeAssumption DEF Inv, TypeOK
      <4> QED BY <4>1, <4>2, <4>3 DEF InPast
    <3> QED BY <3>4, <3>5 DEF S!Commit
  <2>7. CASE UNCHANGED vars \/ AllreduceWhite \/ AllreduceMin
    BY <2>7 DEF vars, AllreduceWhite, AllreduceMin
  <2>8. ASSUME NEW p \in PE, SendFinish(p) \/ UpdateGVT(p) \/ BatchDone(p) PROVE UNCHANGED done
    BY <2>8 DEF SendFinish, UpdateGVT, BatchDone
  <2> QED BY <1>2, <2>3, <2>4, <2>5, <2>6, <2>7, <2>8 DEF Next, Ended
<1> QED BY <1>1, <1>2, ConsInvariant, PTL DEF Spec, IsSimulation, S!Spec

-----------------------------------------------------------------------------
(***************************************************************************)
(* Drained holds when the posted sends have room for all that a PE sends.  *)
(***************************************************************************)
Remote(p) == {e \in Event \ Root : Src(e) = p /\ Dst(e) # p}

Room == \A p \in PE : Cardinality(Remote(p)) <= SendBuffer

\* Only remote events enter outq and posted, each of them once.
PostedOK(e) ==
  /\ loc[e] = "outq" => e \notin posted
  /\ loc[e] = "none" => e \notin posted
  /\ loc[e] = "outq" \/ e \in posted => e \in Remote(Src(e))

PostedInv == \A e \in Event : PostedOK(e)

LEMMA PostedInit == Init => PostedInv
BY DEF Init, PostedInv, PostedOK

LEMMA PostedNext == ASSUME Inv, PostedInv, [Next]_vars PROVE PostedInv'
<1> USE ConservativeAssumption
<1> SUFFICES ASSUME NEW f \in Event PROVE PostedOK(f)'
  BY DEF PostedInv
<1>1. PostedOK(f) /\ Remote(Src(f))' = Remote(Src(f))
  BY DEF PostedInv, Remote, Src, Dst
<1>2. ASSUME posted' \subseteq posted, loc'[f] \in {"none", "outq"} => loc'[f] = loc[f]
      PROVE  PostedOK(f)'
  BY <1>1, <1>2 DEF PostedOK
<1>3. ASSUME NEW p \in PE, SendBegin(p) PROVE PostedOK(f)'
  <2> DEFINE e == Head(outq[p])
  <2>2. e \in Event /\ loc[e] = "outq"
    BY <1>3, OutqHead DEF SendBegin, Serviced
  <2>4. posted' = posted \cup {e} /\ loc' = [loc EXCEPT ![e] = "net"]
    BY <1>3 DEF SendBegin
  <2> HIDE DEF e
  <2>5. loc'[f] = IF f = e THEN "net" ELSE loc[f]
    BY <2>2, <2>4 DEF Inv, TypeOK
  <2> QED BY <1>1, <2>2, <2>4, <2>5 DEF PostedOK
<1>4. ASSUME NEW p \in PE, RecvFinish(p) PROVE PostedOK(f)'
  <2>1. PICK e \in In(p, "net") : loc' = [loc EXCEPT ![e] = Arrives(e)]
    BY <1>4 DEF RecvFinish
  <2>2. loc'[f] \in {"none", "outq"} => loc'[f] = loc[f]
    BY <2>1 DEF Arrives, Inv, TypeOK
  <2> QED BY <1>2, <1>4, <2>2 DEF RecvFinish, netVars
<1>5. ASSUME NEW p \in PE, Loop(p) PROVE PostedOK(f)'
  <2>1. loc'[f] \in {"none", "outq"} => loc'[f] = loc[f]
    BY <1>5 DEF Loop
  <2> QED BY <1>2, <1>5, <2>1 DEF Loop, netVars
<1>6. ASSUME NEW p \in PE, Process(p) PROVE PostedOK(f)'
  <2>1. PICK e \in Event : \E remote, s : Chooses(p, e) /\ Moves(e, remote) /\ Sends(p, remote, s)
    BY <1>6, Executed
  <2>2. PICK remote : Chooses(p, e) /\ Moves(e, remote)
    BY <2>1
  <2>3. posted' = posted
    BY <1>6 DEF Process
  <2>4. CASE f \notin remote
    <3>1. loc'[f] \in {"none", "outq"} => loc'[f] = loc[f]
      BY <2>2, <2>4 DEF Moves
    <3> QED BY <1>2, <2>3, <3>1
  <2>5. CASE f \in remote
    <3>1. loc'[f] = "outq" /\ loc[f] = "none" /\ Src(f) = p /\ Dst(f) # p /\ f \notin Root
      BY <2>2, <2>5 DEF Moves, Chooses, Sent
    <3>2. f \notin posted /\ f \in Remote(Src(f))
      BY <1>1, <3>1 DEF PostedOK, Remote
    <3> QED BY <1>1, <2>3, <3>1, <3>2 DEF PostedOK
  <2> QED BY <2>4, <2>5
<1>7. CASE UNCHANGED vars \/ AllreduceWhite \/ AllreduceMin
  BY <1>2, <1>7 DEF vars, AllreduceWhite, AllreduceMin, netVars
<1>8. ASSUME NEW p \in PE, SendFinish(p) \/ UpdateGVT(p) \/ BatchDone(p) PROVE PostedOK(f)'
  BY <1>2, <1>8 DEF SendFinish, UpdateGVT, BatchDone, netVars
<1> QED BY <1>3, <1>4, <1>5, <1>6, <1>7, <1>8 DEF Next, Ended

\* A full posted_sends then holds all that the PE will ever send.
LEMMA RoomDrains == ASSUME Room, Inv, PostedInv, Drained, [Next]_vars PROVE Drained'
<1> USE ConservativeAssumption
<1> SUFFICES ASSUME NEW p \in PE, pc'[p] = "lvt" PROVE outq'[p] = <<>>
  BY DEF Drained
<1>1. ASSUME AllreduceWhite PROVE outq[p] = <<>>
  <2>1. SUFFICES ASSUME outq[p] # <<>> PROVE FALSE
    OBVIOUS
  <2>2. Cardinality(PostedBy(p)) = SendBuffer
    BY <1>1, <2>1 DEF AllreduceWhite, Serviced
  <2>6. PICK e \in Event : loc[e] = "outq" /\ Src(e) = p
    BY <2>1, OutqHead
  <2>7. e \notin PostedBy(p) /\ e \in Remote(p)
    BY <2>6 DEF PostedInv, PostedOK, PostedBy
  <2>8. PostedBy(p) \subseteq Remote(p)
    BY DEF PostedInv, PostedOK, PostedBy, Inv, TypeOK
  <2>9. IsFiniteSet(Remote(p))
    BY FS_Subset DEF Remote
  <2>10. IsFiniteSet(PostedBy(p)) /\ Cardinality(PostedBy(p)) < Cardinality(Remote(p))
    <3>1. PostedBy(p) # Remote(p)
      BY <2>7
    <3>2. /\ IsFiniteSet(PostedBy(p)) /\ Cardinality(PostedBy(p)) <= Cardinality(Remote(p))
          /\ Cardinality(PostedBy(p)) = Cardinality(Remote(p)) => PostedBy(p) = Remote(p)
      BY <2>8, <2>9, FS_Subset
    <3>3. Cardinality(PostedBy(p)) \in Nat /\ Cardinality(Remote(p)) \in Nat
      BY <2>9, <3>2, FS_CardinalityType
    <3> QED BY <3>1, <3>2, <3>3
  <2>11. Cardinality(PostedBy(p)) \in Nat /\ Cardinality(Remote(p)) \in Nat /\ Cardinality(Remote(p)) <= SendBuffer
    BY <2>9, <2>10, FS_CardinalityType DEF Room
  <2> QED BY <2>2, <2>10, <2>11
<1>2. CASE AllreduceWhite
  BY <1>1, <1>2 DEF AllreduceWhite, netVars
<1>3. CASE UNCHANGED vars
  BY <1>3 DEF Drained, vars, netVars
<1>4. ASSUME NEW q \in PE, Process(q) \/ Loop(q) \/ BatchDone(q) \/ SendBegin(q) \/ SendFinish(q)
                            \/ RecvFinish(q) \/ UpdateGVT(q)
      PROVE  FALSE
  <2>2. pc[q] # "lvt" /\ pc[p] # "lvt"
    BY <1>4 DEF Process, Loop, BatchDone, SendBegin, SendFinish, RecvFinish, UpdateGVT, Inv, PhaseOK
  <2>3. CASE p = q
    BY <1>4, <2>2, <2>3 DEF Process, Loop, BatchDone, SendBegin, SendFinish, RecvFinish, UpdateGVT, Inv, TypeOK
  <2>4. CASE p # q
    BY <1>4, <2>2, <2>4 DEF Process, Loop, BatchDone, SendBegin, SendFinish, RecvFinish, UpdateGVT, Inv, TypeOK
  <2> QED BY <2>3, <2>4
<1>5. ~AllreduceMin
  BY DEF AllreduceMin
<1> QED BY <1>2, <1>3, <1>4, <1>5 DEF Next, Ended

\* With room in posted_sends for every event that a PE sends to others, which
\* send_buffer can be set to give, the conservative scheduler needs no further
\* condition.
THEOREM RoomSuffices == Room => (Spec => []NeverLate /\ IsSimulation)
<1>1. Room /\ Inv /\ PostedInv /\ Drained /\ [Next]_vars => Drained'
  BY RoomDrains
<1>2. Inv /\ PostedInv /\ [Next]_vars => PostedInv'
  BY PostedNext
<1>3. Inv /\ [Next]_vars /\ Drained' => Inv'
  BY ConsNext
<1>4. Init => Drained
  BY DEF Init, Drained
<1>5. Room /\ Spec => []Drained
  <2> SUFFICES ASSUME Room PROVE Spec => []Drained
    OBVIOUS
  <2>1. Inv /\ PostedInv /\ Drained /\ [Next]_vars => Drained'
    BY <1>1
  <2> QED BY <1>2, <1>3, <1>4, <2>1, ConsInit, PostedInit, PTL DEF Spec
<1> QED BY <1>5, NothingLate, ConservativeSimulates, PTL
=============================================================================

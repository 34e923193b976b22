--------------------------- MODULE GvtHookProofs ---------------------------
(***************************************************************************)
(* Proofs about the GVT hook, for any PEs, KPs, events and times.          *)
(*                                                                         *)
(* That a hook set for a time comes at that time rests on one fact: no PE  *)
(* executes an event at or past the trigger (TimeOK).  A hook called for   *)
(* by event handlers is kept by a single sig_at per PE, so the proof needs *)
(* the callers to be on one KP (OneCaller): the events of a KP are         *)
(* executed and undone in order (OrderOK), so that at most one request is  *)
(* outstanding and sig_at is that one's (CalledOK).                        *)
(***************************************************************************)
EXTENDS GvtHook, WellFoundedInduction, TLAPS

Place == {"none", "net", "pq", "done", "committed"}

HookTypeOK ==
  /\ loc \in [Event -> Place] /\ sig_at \in [PE -> Nat]
  /\ called \subseteq Calls
  /\ called # {} => status = "model_call"

\* What was sent was sent by an event that is executed, and is committed after it.
LifeOK(c) ==
  c \notin Root => /\ loc[c] # "none" => loc[Parent[c]] \in {"done", "committed"}
                   /\ loc[c] = "committed" => loc[Parent[c]] = "committed"

\* Nothing in pq precedes what its KP has executed.
OrderOK ==
  \A e, f \in Event : loc[e] = "done" /\ loc[f] = "pq" /\ Kp[e] = Kp[f] => Sig[e] < Sig[f]

LifeInv == HookTypeOK /\ (\A c \in Event : LifeOK(c)) /\ OrderOK

\* No PE has executed an event at or past the time that was set.
TimeOK == status = "timestamp" => \A e \in Event : loc[e] = "done" => Sig[e] < sig_at[Pe[e]]

\* A request that is not committed is what sig_at of its PE says, and sig_at
\* says nothing else.
CalledOK ==
  /\ \A e \in called : /\ loc[e] \in {"done", "committed"}
                       /\ loc[e] = "done" => sig_at[Pe[e]] = Sig[e] + 1
  /\ status = "model_call" =>
       \A p \in PE : sig_at[p] # MaxSig =>
         \E e \in called : Pe[e] = p /\ loc[e] = "done" /\ sig_at[p] = Sig[e] + 1

\* The LPs that call tw_trigger_gvt_hook_now are on one KP.
OneCaller == \A e, f \in Calls : Kp[e] = Kp[f]

-----------------------------------------------------------------------------
LEMMA NatMin ==
  ASSUME NEW T \in SUBSET Nat, T # {}
  PROVE  Min(T) \in T /\ Min(T) \in Nat /\ \A y \in T : Min(T) <= y
<1> DEFINE R == OpToRel(<, Nat)
<1>1. PICK x \in T : \A y \in T : <<y, x>> \notin R
  <2> HIDE DEF R
  <2> QED BY WFMin, NatLessThanWellFounded DEF R
<1>2. \A y \in T : ~(y < x)
  BY <1>1 DEF OpToRel
<1>3. \A y \in T : x <= y
  BY <1>2
<1> QED BY <1>3 DEF Min

\* The new GVT is not past the trigger of any PE, nor past what is not executed.
LEMMA GvtBound ==
  ASSUME HookTypeOK
  PROVE  /\ NewGvt \in Nat /\ NewGvt <= MaxSig
         /\ \A e \in Event : loc[e] \in {"pq", "net"} => NewGvt <= Sig[e]
         /\ status # "disabled" => \A p \in PE : NewGvt <= sig_at[p]
<1> DEFINE T == {MaxSig} \cup {Sig[e] : e \in {f \in Event : loc[f] \in {"pq", "net"}}}
                  \cup {sig_at[p] : p \in {q \in PE : status # "disabled"}}
<1>1. T \in SUBSET Nat /\ MaxSig \in T
  BY HookAssumption DEF HookTypeOK
<1>2. NewGvt = Min(T)
  BY DEF NewGvt
<1>3. /\ \A e \in Event : loc[e] \in {"pq", "net"} => Sig[e] \in T
      /\ status # "disabled" => \A p \in PE : sig_at[p] \in T
  OBVIOUS
<1> HIDE DEF T
<1>4. Min(T) \in Nat /\ \A y \in T : Min(T) <= y
  BY <1>1, NatMin
<1> QED BY <1>1, <1>2, <1>3, <1>4

LEMMA LeastIs ==
  ASSUME NEW p \in PE, NEW e \in In(p, "pq"), Sig[e] = Least(p)
  PROVE  \A f \in Event : loc[f] = "pq" /\ Pe[f] = p => Sig[e] <= Sig[f]
<1> DEFINE T == {MaxSig} \cup {Sig[f] : f \in In(p, "pq")}
<1>1. T \in SUBSET Nat /\ T # {} /\ Least(p) = Min(T)
  BY HookAssumption DEF In, Least
<1>2. \A f \in Event : loc[f] = "pq" /\ Pe[f] = p => Sig[f] \in T
  BY DEF In
<1> HIDE DEF T
<1>3. \A y \in T : Min(T) <= y
  BY <1>1, NatMin
<1> QED BY <1>1, <1>2, <1>3

\* What a straggler undoes is not before it, follows what it undoes on its KP,
\* and is either executed or was sent by another event that is undone.
LEMMA UndoneIs ==
  ASSUME HookTypeOK, NEW e \in Event, NEW U, U = Undone(e)
  PROVE  /\ U \subseteq Event
         /\ \A f \in Event : loc[f] = "done" /\ Kp[f] = Kp[e] /\ Sig[f] >= Sig[e] => f \in U
         /\ \A f \in U : Sig[f] >= Sig[e] /\ loc[f] \notin {"none", "committed"}
         /\ \A f \in U : loc[f] = "done" \/ (f \notin Root /\ Parent[f] \in U)
         /\ \A f, x \in Event : x \in U /\ loc[x] = "done" /\ loc[f] = "done" /\ Kp[f] = Kp[x] /\ Sig[f] > Sig[x]
                                  => f \in U
         /\ \A f \in Event : f \notin Root /\ Parent[f] \in U /\ loc[f] \notin {"none", "committed"} => f \in U
<1> USE HookAssumption
<1> DEFINE late == {f \in Event : loc[f] = "done" /\ Kp[f] = Kp[e] /\ Sig[f] >= Sig[e]}
           C == {X \in SUBSET Event : late \subseteq X /\ Closed(X)}
           All == {f \in Event : Sig[f] >= Sig[e] /\ loc[f] \notin {"none", "committed"}}
           I == {f \in Event : \A X \in C : f \in X}
<1>1. All \in C
  <2>1. late \subseteq All
    OBVIOUS
  <2>2. Closed(All)
    <3> SUFFICES ASSUME NEW f \in Event, loc[f] \notin {"none", "committed"}, f \notin All, NEW x \in All
                 PROVE  ~(Kp[f] = Kp[x] /\ Sig[f] > Sig[x]) /\ ~(f \notin Root /\ Parent[f] = x)
      BY DEF Closed
    <3>1. ~(Sig[f] >= Sig[e]) /\ Sig[x] >= Sig[e] /\ {Sig[f], Sig[x], Sig[e]} \subseteq Nat /\ x \in Event
      OBVIOUS
    <3>2. f \notin Root /\ Parent[f] = x => Sig[x] < Sig[f]
      OBVIOUS
    <3> HIDE DEF All
    <3> QED BY <3>1, <3>2
  <2> QED BY <2>1, <2>2
<1>2. I \in C
  <2>1. late \subseteq I
    OBVIOUS
  <2>2. Closed(I)
    <3> SUFFICES ASSUME NEW f \in Event, loc[f] \notin {"none", "committed"}, f \notin I, NEW x \in I
                 PROVE  /\ ~(loc[f] = "done" /\ Kp[f] = Kp[x] /\ Sig[f] > Sig[x] /\ loc[x] = "done")
                        /\ ~(f \notin Root /\ Parent[f] = x)
      BY DEF Closed
    <3>1. PICK X \in C : f \notin X
      OBVIOUS
    <3>2. Closed(X) /\ x \in X
      OBVIOUS
    <3> HIDE DEF C, I
    <3> QED BY <3>1, <3>2 DEF Closed
  <2> QED BY <2>1, <2>2
<1>3. U \in C /\ \A Y \in C : U \subseteq Y
  <2>1. \A Y \in C : I \subseteq Y
    OBVIOUS
  <2>2. U = CHOOSE X \in C : \A Y \in C : X \subseteq Y
    BY DEF Undone
  <2> HIDE DEF C, I
  <2> QED BY <1>2, <2>1, <2>2
<1>4. U \subseteq Event /\ late \subseteq U /\ Closed(U) /\ U \subseteq All
  BY <1>1, <1>3
<1>5. ASSUME NEW f \in U PROVE loc[f] = "done" \/ (f \notin Root /\ Parent[f] \in U)
  <2> SUFFICES ASSUME loc[f] # "done", ~(f \notin Root /\ Parent[f] \in U) PROVE FALSE
    OBVIOUS
  <2>1. late \subseteq U \ {f}
    BY <1>4
  <2>2. Closed(U \ {f})
    <3> SUFFICES ASSUME NEW g \in Event, loc[g] \notin {"none", "committed"}, g \notin U \ {f}, NEW x \in U \ {f}
                 PROVE  /\ ~(loc[g] = "done" /\ Kp[g] = Kp[x] /\ Sig[g] > Sig[x] /\ loc[x] = "done")
                        /\ ~(g \notin Root /\ Parent[g] = x)
      BY DEF Closed
    <3>1. CASE g = f
      BY <3>1
    <3>2. CASE g \notin U
      BY <1>4, <3>2 DEF Closed
    <3> QED BY <3>1, <3>2
  <2>3. U \ {f} \in C
    BY <1>4, <2>1, <2>2
  <2> HIDE DEF C
  <2> QED BY <1>3, <2>3
<1>6. \A f \in Event : loc[f] = "done" /\ Kp[f] = Kp[e] /\ Sig[f] >= Sig[e] => f \in U
  BY <1>4
<1>7. \A f \in U : Sig[f] >= Sig[e] /\ loc[f] \notin {"none", "committed"}
  BY <1>4
<1>8. /\ \A f, x \in Event : x \in U /\ loc[x] = "done" /\ loc[f] = "done" /\ Kp[f] = Kp[x] /\ Sig[f] > Sig[x]
                               => f \in U
      /\ \A f \in Event : f \notin Root /\ Parent[f] \in U /\ loc[f] \notin {"none", "committed"} => f \in U
  BY <1>4 DEF Closed
<1> QED BY <1>4, <1>5, <1>6, <1>7, <1>8

-----------------------------------------------------------------------------
\* What the steps do.
Arrives(p, e, U) ==
  /\ p \in PE /\ e \in Event /\ Pe[e] = p /\ loc[e] = "net" /\ U = Undone(e)
  /\ loc'[e] = "pq"
  /\ \A f \in Event : f # e => loc'[f] = IF f \in U THEN IF f \notin Root /\ Parent[f] \in U THEN "none" ELSE "pq"
                                         ELSE loc[f]
  /\ loc' \in [Event -> Place]
  /\ called' = called \ U
  /\ sig_at' = [q \in PE |-> IF \E f \in U \cap called : Pe[f] = q THEN MaxSig ELSE sig_at[q]]
  /\ UNCHANGED <<status, call>>

LEMMA ArriveIs == ASSUME HookTypeOK, NEW p \in PE, Arrive(p) PROVE \E e, U : Arrives(p, e, U)
<1>1. PICK e \in In(p, "net") :
       LET U == Undone(e)
       IN  /\ loc' = [f \in Event |->
                        IF f = e THEN "pq"
                        ELSE IF f \in U THEN IF f \notin Root /\ Parent[f] \in U THEN "none" ELSE "pq"
                        ELSE loc[f]]
           /\ tw_trigger_gvt_hook_now_rev(U)
  BY DEF Arrive
<1> DEFINE U == Undone(e)
<1>2. e \in Event /\ Pe[e] = p /\ loc[e] = "net" /\ UNCHANGED <<status, call>>
  BY DEF In, Arrive
<1>3. /\ loc' = [f \in Event |-> IF f = e THEN "pq"
                                 ELSE IF f \in U THEN IF f \notin Root /\ Parent[f] \in U THEN "none" ELSE "pq"
                                 ELSE loc[f]]
      /\ called' = called \ U
      /\ sig_at' = [q \in PE |-> IF \E f \in U \cap called : Pe[f] = q THEN MaxSig ELSE sig_at[q]]
  BY <1>1 DEF tw_trigger_gvt_hook_now_rev
<1>4. U = Undone(e)
  OBVIOUS
<1> HIDE DEF U
<1>5. loc' \in [Event -> Place]
  BY <1>3 DEF HookTypeOK, Place
<1>6. Arrives(p, e, U)
  BY <1>2, <1>3, <1>4, <1>5 DEF Arrives
<1> QED BY <1>6

Executes(p, e) ==
  /\ p \in PE /\ e \in Event /\ Pe[e] = p /\ loc[e] = "pq" /\ ~HookAhead(p) /\ Sig[e] = Least(p)
  /\ \A f \in Event : loc[f] = "pq" /\ Pe[f] = p => Sig[e] <= Sig[f]
  /\ loc'[e] = "done"
  /\ \A c \in Event : c # e /\ (c \in Root \/ Parent[c] # e) => loc'[c] = loc[c]
  /\ \A c \in Event : c # e /\ c \notin Root /\ Parent[c] = e => loc'[c] = "net" \/ (loc'[c] = "pq" /\ Fast(c))
  /\ loc' \in [Event -> Place]
  /\ \/ UNCHANGED <<called, sig_at>>
     \/ /\ e \in Calls /\ status = "model_call"
        /\ called' = called \cup {e}
        /\ sig_at' = [sig_at EXCEPT ![p] = Sig[e] + 1]
  /\ UNCHANGED <<status, call>>

LEMMA ExecuteIs == ASSUME HookTypeOK, NEW p \in PE, Process(p) PROVE \E e : Executes(p, e)
<1>1. PICK e \in In(p, "pq") :
       /\ Sig[e] = Least(p)
       /\ loc' = [c \in Event |-> IF c = e THEN "done"
                                  ELSE IF c \in Root \/ Parent[c] # e THEN loc[c]
                                  ELSE IF Pe[c] = p /\ Fast(c) THEN "pq" ELSE "net"]
       /\ \/ UNCHANGED <<called, sig_at, gvt_status>>
          \/ tw_trigger_gvt_hook_now(e)
  BY DEF Process
<1>2. e \in Event /\ Pe[e] = p /\ loc[e] = "pq" /\ ~HookAhead(p) /\ UNCHANGED <<status, call>>
  BY DEF In, Process
<1>3. \A f \in Event : loc[f] = "pq" /\ Pe[f] = p => Sig[e] <= Sig[f]
  BY <1>1, LeastIs
<1>4. loc' \in [Event -> Place]
  BY <1>1 DEF HookTypeOK, Place
<1>5. \/ UNCHANGED <<called, sig_at>>
      \/ /\ e \in Calls /\ status = "model_call"
         /\ called' = called \cup {e}
         /\ sig_at' = [sig_at EXCEPT ![p] = Sig[e] + 1]
  BY <1>1, <1>2 DEF tw_trigger_gvt_hook_now
<1>6. Executes(p, e)
  BY <1>1, <1>2, <1>3, <1>4, <1>5 DEF Executes
<1> QED BY <1>6

\* g is the new GVT; the trigger is set anew, reset or left alone.
Collects(g) ==
  /\ g = NewGvt
  /\ \A e \in Event : loc'[e] = IF loc[e] = "done" /\ Sig[e] < g THEN "committed" ELSE loc[e]
  /\ loc' \in [Event -> Place]
  /\ called' = called
  /\ \/ /\ Triggered(g) /\ call'.at = g /\ call'.past_end = (g >= End)
        /\ \/ /\ status = "timestamp" /\ status' = status
              /\ \E t \in Times : t > g /\ sig_at' = [p \in PE |-> t]
           \/ status = "timestamp" /\ status' = "disabled" /\ sig_at' = sig_at
           \/ status # "timestamp" /\ status' = status /\ sig_at' = [p \in PE |-> MaxSig]
     \/ ~Triggered(g) /\ UNCHANGED <<status, sig_at, call>>

LEMMA CollectIs == ASSUME HookTypeOK, tw_gvt_step2 PROVE Collects(NewGvt)
<1> DEFINE g == NewGvt
<1>1. loc' = [e \in Event |-> IF loc[e] = "done" /\ Sig[e] < g THEN "committed" ELSE loc[e]] /\ called' = called
  BY DEF tw_gvt_step2
<1>2. \/ /\ Triggered(g) /\ call' = [mode |-> status, at |-> g, past_end |-> g >= End]
         /\ \/ /\ status = "timestamp" /\ UNCHANGED status
               /\ \E t \in {x \in Times : x > g} : sig_at' = [p \in PE |-> t]
            \/ /\ status = "timestamp" /\ status' = "disabled" /\ UNCHANGED sig_at
            \/ /\ status # "timestamp" /\ UNCHANGED status
               /\ sig_at' = [p \in PE |-> MaxSig]
      \/ ~Triggered(g) /\ UNCHANGED <<status, sig_at, call>>
  BY DEF tw_gvt_step2
<1>3. loc' \in [Event -> Place]
  <2> HIDE DEF g
  <2> QED BY <1>1 DEF HookTypeOK, Place
<1> HIDE DEF g
<1>4. Collects(g) <=> Collects(NewGvt)
  BY DEF g
<1>5. g = NewGvt
  BY DEF g
<1>6. \A e \in Event : loc'[e] = IF loc[e] = "done" /\ Sig[e] < g THEN "committed" ELSE loc[e]
  BY <1>1
<1>7. \/ /\ Triggered(g) /\ call'.at = g /\ call'.past_end = (g >= End)
         /\ \/ /\ status = "timestamp" /\ status' = status
               /\ \E t \in Times : t > g /\ sig_at' = [p \in PE |-> t]
            \/ status = "timestamp" /\ status' = "disabled" /\ sig_at' = sig_at
            \/ status # "timestamp" /\ status' = status /\ sig_at' = [p \in PE |-> MaxSig]
      \/ ~Triggered(g) /\ UNCHANGED <<status, sig_at, call>>
  BY <1>2
<1> QED BY <1>1, <1>3, <1>4, <1>5, <1>6, <1>7 DEF Collects

\* The other steps change nothing that the proofs speak of.
Idles == UNCHANGED <<loc, called, status, sig_at, call>>

LEMMA StepIs ==
  ASSUME HookTypeOK, [Next]_vars
  PROVE  \/ \E p, e, U : Arrives(p, e, U)
         \/ \E p, e : Executes(p, e)
         \/ Collects(NewGvt)
         \/ Idles
<1>1. ASSUME NEW p \in PE, Arrive(p) PROVE \E e, U : Arrives(p, e, U)
  BY <1>1, ArriveIs
<1>2. ASSUME NEW p \in PE, Process(p) PROVE \E e : Executes(p, e)
  BY <1>2, ExecuteIs
<1>3. ASSUME NEW p \in PE, tw_gvt_step1(p) \/ BatchDone(p) PROVE Idles
  BY <1>3 DEF tw_gvt_step1, BatchDone, trigger, Idles
<1>4. ASSUME Ended \/ UNCHANGED vars PROVE Idles
  BY <1>4 DEF Ended, vars, trigger, Idles
<1> QED BY <1>1, <1>2, <1>3, <1>4, CollectIs DEF Next

-----------------------------------------------------------------------------
LEMMA LifeInit == Init => LifeInv
<1> SUFFICES ASSUME Init PROVE LifeInv
  OBVIOUS
<1>1. loc \in [Event -> Place] /\ \A e \in Event : loc[e] \in {"pq", "none"} /\ (loc[e] = "pq" <=> e \in Root)
  BY DEF Init, Place
<1>2. sig_at \in [PE -> Nat]
  <2>1. PICK t \in (IF status = "timestamp" THEN Times ELSE {MaxSig}) : sig_at = [p \in PE |-> t]
    BY DEF Init
  <2>2. t \in Nat
    BY <2>1, HookAssumption
  <2> QED BY <2>1, <2>2
<1>3. called = {}
  BY DEF Init
<1> QED BY <1>1, <1>2, <1>3 DEF LifeInv, HookTypeOK, LifeOK, OrderOK

LEMMA LifeArrive ==
  ASSUME LifeInv, NEW p, NEW e, NEW U, Arrives(p, e, U) PROVE LifeInv'
<1> USE HookAssumption
<1>1. /\ e \in Event /\ loc[e] = "net" /\ loc'[e] = "pq" /\ HookTypeOK
      /\ \A f \in Event : f # e => loc'[f] = IF f \in U THEN IF f \notin Root /\ Parent[f] \in U THEN "none" ELSE "pq"
                                             ELSE loc[f]
  BY DEF Arrives, LifeInv
<1>2. /\ U \subseteq Event
      /\ \A f \in Event : loc[f] = "done" /\ Kp[f] = Kp[e] /\ Sig[f] >= Sig[e] => f \in U
      /\ \A f \in U : Sig[f] >= Sig[e] /\ loc[f] \notin {"none", "committed"}
      /\ \A f \in U : loc[f] = "done" \/ (f \notin Root /\ Parent[f] \in U)
      /\ \A f, x \in Event : x \in U /\ loc[x] = "done" /\ loc[f] = "done" /\ Kp[f] = Kp[x] /\ Sig[f] > Sig[x]
                               => f \in U
      /\ \A f \in Event : f \notin Root /\ Parent[f] \in U /\ loc[f] \notin {"none", "committed"} => f \in U
  <2>1. U = Undone(e)
    BY DEF Arrives
  <2> QED BY <1>1, <2>1, UndoneIs
<1>3. /\ \A f \in Event : loc'[f] = "done" => loc[f] = "done" /\ f \notin U
      /\ \A f \in Event : loc'[f] = "committed" <=> loc[f] = "committed"
      /\ \A f \in Event : loc'[f] = "pq" => f = e \/ loc[f] = "pq" \/ (f \in U /\ loc[f] = "done")
  BY <1>1, <1>2
<1>4. HookTypeOK'
  <2>1. sig_at' \in [PE -> Nat] /\ called' \subseteq called /\ status' = status /\ loc' \in [Event -> Place]
    BY DEF Arrives, LifeInv, HookTypeOK
  <2> QED BY <2>1 DEF LifeInv, HookTypeOK
<1>5. ASSUME NEW c \in Event PROVE LifeOK(c)'
  <2> SUFFICES ASSUME c \notin Root
               PROVE  /\ loc'[c] # "none" => loc'[Parent[c]] \in {"done", "committed"}
                      /\ loc'[c] = "committed" => loc'[Parent[c]] = "committed"
    BY DEF LifeOK
  <2>1. LifeOK(c) /\ Parent[c] \in Event /\ Sig[Parent[c]] < Sig[c] /\ Sig[Parent[c]] \in Nat /\ Sig[c] \in Nat
    BY DEF LifeInv
  <2>2. ASSUME loc'[c] # "none" PROVE loc'[Parent[c]] \in {"done", "committed"}
    <3>1. loc[c] # "none" /\ (Parent[c] \in U => c = e \/ loc[c] = "committed")
      BY <1>1, <1>2, <2>2
    <3>2. loc[Parent[c]] \in {"done", "committed"}
      BY <2>1, <3>1 DEF LifeOK
    <3>3. Parent[c] \notin U
      <4>1. c = e => Parent[c] \notin U
        BY <1>2, <2>1
      <4>2. loc[c] = "committed" => Parent[c] \notin U
        BY <1>2, <2>1 DEF LifeOK
      <4> QED BY <3>1, <4>1, <4>2
    <3> QED BY <1>1, <2>1, <3>2, <3>3
  <2> QED BY <1>3, <2>1, <2>2 DEF LifeOK
<1>6. ASSUME NEW f \in Event, NEW h \in Event, loc'[f] = "done", loc'[h] = "pq", Kp[f] = Kp[h]
      PROVE  Sig[f] < Sig[h]
  <2>1. loc[f] = "done" /\ f \notin U /\ Sig[f] \in Nat /\ Sig[h] \in Nat /\ f # h
    BY <1>3, <1>6
  <2>2. CASE h = e
    BY <1>2, <1>6, <2>1, <2>2
  <2>3. CASE loc[h] = "pq"
    BY <1>6, <2>1, <2>3 DEF LifeInv, OrderOK
  <2>4. CASE h \in U /\ loc[h] = "done"
    <3>1. ~(Sig[f] > Sig[h]) /\ Sig[f] # Sig[h]
      BY <1>2, <1>6, <2>1, <2>4
    <3> QED BY <2>1, <3>1
  <2> QED BY <1>3, <1>6, <2>2, <2>3, <2>4
<1> QED BY <1>4, <1>5, <1>6 DEF LifeInv, OrderOK

LEMMA LifeExecute ==
  ASSUME LifeInv, NEW p, NEW e, Executes(p, e) PROVE LifeInv'
<1> USE HookAssumption
<1>1. /\ p \in PE /\ e \in Event /\ Pe[e] = p /\ loc[e] = "pq" /\ loc'[e] = "done"
      /\ \A f \in Event : loc[f] = "pq" /\ Pe[f] = p => Sig[e] <= Sig[f]
      /\ \A c \in Event : c # e /\ (c \in Root \/ Parent[c] # e) => loc'[c] = loc[c]
      /\ \A c \in Event : c # e /\ c \notin Root /\ Parent[c] = e => loc'[c] = "net" \/ (loc'[c] = "pq" /\ Fast(c))
  BY DEF Executes
<1>2. \A c \in Event : c \notin Root /\ Parent[c] = e => loc[c] = "none"
  BY <1>1 DEF LifeInv, LifeOK
<1>3. HookTypeOK'
  <2>1. loc' \in [Event -> Place] /\ status' = status /\ Sig[e] + 1 \in Nat
    BY <1>1 DEF Executes
  <2>2. CASE UNCHANGED <<called, sig_at>>
    BY <2>1, <2>2 DEF LifeInv, HookTypeOK
  <2>3. CASE /\ e \in Calls /\ status = "model_call"
             /\ called' = called \cup {e}
             /\ sig_at' = [sig_at EXCEPT ![p] = Sig[e] + 1]
    BY <2>1, <2>3 DEF LifeInv, HookTypeOK
  <2> QED BY <2>2, <2>3 DEF Executes
<1>4. ASSUME NEW c \in Event PROVE LifeOK(c)'
  <2>1. LifeOK(c) /\ Parent[c] \in Event
    BY DEF LifeInv
  <2>2. \A f \in Event : loc[f] \in {"done", "committed"} => loc'[f] = loc[f]
    BY <1>1, <1>2
  <2>3. c \notin Root /\ loc'[c] # "none" => loc[c] # "none" \/ Parent[c] = e
    BY <1>1
  <2>4. loc'[c] = "committed" => loc[c] = "committed"
    BY <1>1
  <2> QED BY <1>1, <2>1, <2>2, <2>3, <2>4 DEF LifeOK
<1>5. ASSUME NEW f \in Event, NEW h \in Event, loc'[f] = "done", loc'[h] = "pq", Kp[f] = Kp[h]
      PROVE  Sig[f] < Sig[h]
  <2>1. f = e \/ loc[f] = "done"
    BY <1>1, <1>5
  <2>2. Sig[f] \in Nat /\ Sig[h] \in Nat /\ f # h /\ Sig[f] # Sig[h] /\ h # e /\ Pe[f] = Pe[h]
    BY <1>1, <1>5
  <2>3. CASE h \notin Root /\ Parent[h] = e
    <3>1. Fast(h) /\ Sig[e] < Sig[h]
      BY <1>1, <1>5, <2>2, <2>3
    <3>2. loc[f] = "done" => ~(Sig[f] > Sig[h])
      BY <1>5, <3>1 DEF Fast
    <3> QED BY <2>1, <2>2, <3>1, <3>2
  <2>4. CASE h \in Root \/ Parent[h] # e
    <3>1. loc[h] = "pq"
      BY <1>1, <1>5, <2>2, <2>4
    <3>2. CASE f = e
      BY <1>1, <2>2, <3>1, <3>2
    <3>3. CASE loc[f] = "done"
      BY <1>5, <3>1, <3>3 DEF LifeInv, OrderOK
    <3> QED BY <2>1, <3>2, <3>3
  <2> QED BY <2>3, <2>4
<1> QED BY <1>3, <1>4, <1>5 DEF LifeInv, OrderOK

LEMMA LifeCollect ==
  ASSUME LifeInv, NEW g, Collects(g) PROVE LifeInv'
<1> USE HookAssumption
<1>1. /\ \A e \in Event : loc'[e] = IF loc[e] = "done" /\ Sig[e] < g THEN "committed" ELSE loc[e]
      /\ loc' \in [Event -> Place] /\ called' = called /\ g \in Nat
  BY GvtBound DEF Collects, LifeInv
<1>2. HookTypeOK'
  <2>1. status' = status \/ (status = "timestamp" /\ status' = "disabled")
    BY DEF Collects
  <2>2. called # {} => status' = "model_call"
    BY <2>1 DEF LifeInv, HookTypeOK
  <2>3. sig_at' \in [PE -> Nat]
    <3>1. CASE sig_at' = sig_at
      BY <3>1 DEF LifeInv, HookTypeOK
    <3>2. CASE \E t \in Times : sig_at' = [p \in PE |-> t]
      BY <3>2
    <3>3. CASE sig_at' = [p \in PE |-> MaxSig]
      BY <3>3
    <3> QED BY <3>1, <3>2, <3>3 DEF Collects
  <2> QED BY <1>1, <2>2, <2>3 DEF LifeInv, HookTypeOK
<1>3. ASSUME NEW c \in Event PROVE LifeOK(c)'
  <2> SUFFICES ASSUME c \notin Root
               PROVE  /\ loc'[c] # "none" => loc'[Parent[c]] \in {"done", "committed"}
                      /\ loc'[c] = "committed" => loc'[Parent[c]] = "committed"
    BY DEF LifeOK
  <2>1. LifeOK(c) /\ Parent[c] \in Event /\ Sig[Parent[c]] < Sig[c] /\ Sig[Parent[c]] \in Nat /\ Sig[c] \in Nat
    BY DEF LifeInv
  <2>2. Sig[c] < g => Sig[Parent[c]] < g
    BY <1>1, <2>1
  <2> QED BY <1>1, <2>1, <2>2 DEF LifeOK
<1>4. OrderOK'
  BY <1>1 DEF LifeInv, OrderOK
<1> QED BY <1>2, <1>3, <1>4 DEF LifeInv

LEMMA LifeNext == ASSUME LifeInv, [Next]_vars PROVE LifeInv'
<1>1. CASE Idles
  BY <1>1 DEF Idles, LifeInv, HookTypeOK, LifeOK, OrderOK
<1>2. HookTypeOK
  BY DEF LifeInv
<1> QED BY <1>1, <1>2, StepIs, LifeArrive, LifeExecute, LifeCollect

LEMMA LifeInvariant == Spec => []LifeInv
<1>1. LifeInv /\ [Next]_vars => LifeInv'
  BY LifeNext
<1> QED BY <1>1, LifeInit, PTL DEF Spec

-----------------------------------------------------------------------------
LEMMA TimeNext == ASSUME LifeInv, TimeOK, [Next]_vars PROVE TimeOK'
<1> USE HookAssumption
<1>0. HookTypeOK
  BY DEF LifeInv
<1>1. ASSUME NEW p, NEW e, NEW U, Arrives(p, e, U) PROVE TimeOK'
  <2> SUFFICES ASSUME status' = "timestamp", NEW f \in Event, loc'[f] = "done" PROVE Sig[f] < sig_at'[Pe[f]]
    BY DEF TimeOK
  <2>1. status = "timestamp" /\ called = {}
    BY <1>0, <1>1 DEF Arrives, HookTypeOK
  <2>2. \A q \in PE : sig_at'[q] = sig_at[q]
    BY <1>1, <2>1 DEF Arrives
  <2>3. loc[f] = "done"
    BY <1>1 DEF Arrives
  <2> QED BY <2>1, <2>2, <2>3 DEF TimeOK
<1>2. ASSUME NEW p, NEW e, Executes(p, e) PROVE TimeOK'
  <2> SUFFICES ASSUME status' = "timestamp", NEW f \in Event, loc'[f] = "done" PROVE Sig[f] < sig_at'[Pe[f]]
    BY DEF TimeOK
  <2>1. status = "timestamp" /\ sig_at' = sig_at /\ p \in PE
    BY <1>2 DEF Executes
  <2>2. f = e \/ loc[f] = "done"
    BY <1>2 DEF Executes
  <2>3. Pe[e] = p /\ ~(sig_at[p] <= Sig[e]) /\ e \in Event
    BY <1>2, <2>1 DEF Executes, HookAhead
  <2>4. Sig[e] \in Nat /\ sig_at[p] \in Nat
    BY <1>0, <2>1, <2>3 DEF HookTypeOK
  <2> QED BY <2>1, <2>2, <2>3, <2>4 DEF TimeOK
<1>3. ASSUME Collects(NewGvt) PROVE TimeOK'
  <2> DEFINE g == NewGvt
  <2> SUFFICES ASSUME status' = "timestamp", NEW f \in Event, loc'[f] = "done" PROVE Sig[f] < sig_at'[Pe[f]]
    BY DEF TimeOK
  <2>1. g \in Nat /\ \A p \in PE : status # "disabled" => g <= sig_at[p]
    BY <1>0, GvtBound
  <2>2. status = "timestamp" /\ loc[f] = "done" /\ ~(Sig[f] < g) /\ Pe[f] \in PE
    BY <1>3 DEF Collects
  <2>3. CASE ~Triggered(g)
    <3>1. sig_at' = sig_at
      BY <1>3, <2>3 DEF Collects
    <3> QED BY <2>2, <3>1 DEF TimeOK
  <2>4. CASE Triggered(g)
    <3>1. g >= sig_at[Pe[f]]
      BY <2>2, <2>4 DEF Triggered
    <3>2. Sig[f] < sig_at[Pe[f]]
      BY <2>2 DEF TimeOK
    <3>3. Sig[f] \in Nat /\ sig_at[Pe[f]] \in Nat
      BY <1>0, <2>2 DEF HookTypeOK
    <3> HIDE DEF g
    <3> QED BY <2>1, <2>2, <3>1, <3>2, <3>3
  <2> QED BY <2>3, <2>4
<1>4. CASE Idles
  BY <1>4 DEF Idles, TimeOK
<1> QED BY <1>0, <1>1, <1>2, <1>3, <1>4, StepIs

\* A hook set with tw_trigger_gvt_hook_at is called when the GVT is exactly the
\* time set, with every event before it committed and none from it on executed
\* at any PE, however stragglers and GVT rounds interleave and however often
\* the hook sets its next time.
THEOREM HookComesOnTime == Spec => HookOnTime
<1> DEFINE Good == status = "timestamp" /\ call' # call =>
                     /\ \A p \in PE : sig_at[p] = call'.at
                     /\ \A e \in Event : IF Sig[e] < call'.at THEN loc'[e] \in {"none", "committed"}
                                                              ELSE loc'[e] # "done"
<1>1. Init => TimeOK
  BY DEF Init, TimeOK
<1>2. LifeInv /\ TimeOK /\ [Next]_vars => TimeOK'
  BY TimeNext
<1>3. LifeInv /\ TimeOK /\ [Next]_vars => [Good]_vars
  <2> SUFFICES ASSUME LifeInv, TimeOK, [Next]_vars, status = "timestamp", call' # call
               PROVE  /\ \A p \in PE : sig_at[p] = call'.at
                      /\ \A e \in Event : IF Sig[e] < call'.at THEN loc'[e] \in {"none", "committed"}
                                                               ELSE loc'[e] # "done"
    OBVIOUS
  <2> DEFINE g == NewGvt
  <2>1. HookTypeOK
    BY DEF LifeInv
  <2>2. Collects(g)
    BY <2>1, StepIs DEF Arrives, Executes, Idles
  <2>3. Triggered(g) /\ call'.at = g
    BY <2>2 DEF Collects
  <2>4. g \in Nat /\ (\A p \in PE : g <= sig_at[p]) /\ \A e \in Event : loc[e] \in {"pq", "net"} => g <= Sig[e]
    BY <2>1, GvtBound
  <2>5. \A p \in PE : g >= sig_at[p]
    BY <2>3 DEF Triggered
  <2>6. \A e \in Event : loc'[e] = IF loc[e] = "done" /\ Sig[e] < g THEN "committed" ELSE loc[e]
    BY <2>2 DEF Collects
  <2> HIDE DEF g
  <2>7. ASSUME NEW p \in PE PROVE sig_at[p] = g
    <3>1. sig_at[p] \in Nat
      BY <2>1 DEF HookTypeOK
    <3> QED BY <2>4, <2>5, <3>1
  <2>8. ASSUME NEW e \in Event, Sig[e] < g PROVE loc'[e] \in {"none", "committed"}
    <3>1. loc[e] \in Place /\ Sig[e] \in Nat
      BY <2>1, HookAssumption DEF HookTypeOK
    <3>2. loc[e] \notin {"pq", "net"}
      BY <2>4, <2>8, <3>1
    <3> QED BY <2>6, <2>8, <3>1, <3>2 DEF Place
  <2>9. ASSUME NEW e \in Event, ~(Sig[e] < g) PROVE loc'[e] # "done"
    <3>1. Pe[e] \in PE
      BY HookAssumption
    <3>2. loc[e] # "done"
      BY <2>7, <2>9, <3>1 DEF TimeOK
    <3> QED BY <2>6, <3>2
  <2> QED BY <2>3, <2>7, <2>8, <2>9
<1>4. HookOnTime <=> [][Good]_vars
  BY DEF HookOnTime
<1> HIDE DEF Good
<1> QED BY <1>1, <1>2, <1>3, <1>4, LifeInvariant, PTL DEF Spec

-----------------------------------------------------------------------------
LEMMA CalledArrive ==
  ASSUME OneCaller, LifeInv, CalledOK, NEW p, NEW e, NEW U, Arrives(p, e, U) PROVE CalledOK'
<1> USE HookAssumption
<1>1. /\ e \in Event /\ loc[e] = "net" /\ status' = status /\ called' = called \ U
      /\ \A f \in Event : f # e /\ f \notin U => loc'[f] = loc[f]
      /\ \A q \in PE : sig_at'[q] = IF \E f \in U \cap called : Pe[f] = q THEN MaxSig ELSE sig_at[q]
      /\ called \subseteq Calls /\ called \subseteq Event
  BY DEF Arrives, LifeInv, HookTypeOK
<1>2. \A f \in U : loc[f] # "committed"
  <2>1. HookTypeOK /\ U = Undone(e)
    BY DEF LifeInv, Arrives
  <2> QED BY <1>1, <2>1, UndoneIs
<1>3. ASSUME NEW f \in called' PROVE loc'[f] = loc[f] /\ loc[f] \in {"done", "committed"}
  BY <1>1 DEF CalledOK
<1>4. ASSUME NEW f \in called', loc'[f] = "done" PROVE sig_at'[Pe[f]] = Sig[f] + 1
  <2>1. loc[f] = "done" /\ f \in called /\ f \in Event /\ f \notin U /\ Pe[f] \in PE
    BY <1>1, <1>3, <1>4
  <2>2. ASSUME NEW x \in U \cap called, Pe[x] = Pe[f] PROVE FALSE
    <3>1. loc[x] = "done" /\ x \in Event
      BY <1>1, <1>2 DEF CalledOK
    <3>2. sig_at[Pe[f]] = Sig[x] + 1 /\ sig_at[Pe[f]] = Sig[f] + 1
      BY <2>1, <2>2, <3>1 DEF CalledOK
    <3>3. Sig[x] = Sig[f]
      BY <2>1, <3>1, <3>2
    <3> QED BY <2>1, <2>2, <3>1, <3>3
  <2> QED BY <1>1, <2>1, <2>2 DEF CalledOK
<1>5. ASSUME status = "model_call", NEW q \in PE, sig_at'[q] # MaxSig
      PROVE  \E f \in called' : Pe[f] = q /\ loc'[f] = "done" /\ sig_at'[q] = Sig[f] + 1
  <2>1. sig_at'[q] = sig_at[q] /\ ~\E f \in U \cap called : Pe[f] = q
    BY <1>1, <1>5
  <2>2. PICK f \in called : Pe[f] = q /\ loc[f] = "done" /\ sig_at[q] = Sig[f] + 1
    BY <1>5, <2>1 DEF CalledOK
  <2>3. f \in called'
    BY <1>1, <2>1, <2>2
  <2> QED BY <1>3, <2>1, <2>2, <2>3
<1> QED BY <1>1, <1>3, <1>4, <1>5 DEF CalledOK

LEMMA CalledExecute ==
  ASSUME OneCaller, LifeInv, CalledOK, NEW p, NEW e, Executes(p, e) PROVE CalledOK'
<1> USE HookAssumption
<1>1. /\ p \in PE /\ e \in Event /\ Pe[e] = p /\ loc[e] = "pq" /\ loc'[e] = "done" /\ status' = status
      /\ called \subseteq Calls /\ called \subseteq Event /\ e \notin called
  BY DEF Executes, LifeInv, HookTypeOK, CalledOK
<1>2. \A f \in Event : loc[f] \in {"done", "committed"} => loc'[f] = loc[f]
  <2>1. \A c \in Event : c \notin Root /\ Parent[c] = e => loc[c] = "none"
    BY <1>1 DEF LifeInv, LifeOK
  <2> QED BY <1>1, <2>1 DEF Executes
<1>3. CASE UNCHANGED <<called, sig_at>>
  BY <1>1, <1>2, <1>3 DEF CalledOK
<1>4. CASE /\ e \in Calls /\ status = "model_call"
           /\ called' = called \cup {e}
           /\ sig_at' = [sig_at EXCEPT ![p] = Sig[e] + 1]
  <2>1. sig_at'[p] = Sig[e] + 1 /\ \A q \in PE : q # p => sig_at'[q] = sig_at[q]
    BY <1>1, <1>4 DEF LifeInv, HookTypeOK
  \* No other request is outstanding: this one would be past it, or before it on the KP.
  <2>2. ASSUME NEW f \in called, loc[f] = "done" PROVE FALSE
    <3>1. Kp[f] = Kp[e] /\ f \in Event /\ Pe[f] = p
      BY <1>1, <1>4 DEF OneCaller
    <3>2. sig_at[p] = Sig[f] + 1
      BY <2>2, <3>1 DEF CalledOK
    <3>3. ~(sig_at[p] <= Sig[e])
      BY <1>4 DEF Executes, HookAhead
    <3>4. Sig[f] < Sig[e]
      BY <1>1, <2>2, <3>1 DEF LifeInv, OrderOK
    <3> QED BY <1>1, <3>1, <3>2, <3>3, <3>4
  <2>3. ASSUME NEW f \in called'
        PROVE  loc'[f] \in {"done", "committed"} /\ (loc'[f] = "done" => sig_at'[Pe[f]] = Sig[f] + 1)
    <3>1. CASE f = e
      BY <1>1, <2>1, <3>1
    <3>2. CASE f \in called
      <4>1. loc[f] = "committed"
        BY <2>2, <3>2 DEF CalledOK
      <4>2. loc'[f] = "committed"
        BY <1>1, <1>2, <3>2, <4>1
      <4> QED BY <4>2
    <3> QED BY <1>4, <3>1, <3>2
  <2>4. ASSUME NEW q \in PE, sig_at'[q] # MaxSig
        PROVE  \E f \in called' : Pe[f] = q /\ loc'[f] = "done" /\ sig_at'[q] = Sig[f] + 1
    <3>1. CASE q = p
      BY <1>1, <1>4, <2>1, <3>1
    <3>2. CASE q # p
      <4>1. PICK f \in called : Pe[f] = q /\ loc[f] = "done" /\ sig_at[q] = Sig[f] + 1
        BY <1>4, <2>1, <2>4, <3>2 DEF CalledOK
      <4> QED BY <2>2, <4>1
    <3> QED BY <3>1, <3>2
  <2> QED BY <1>1, <2>3, <2>4 DEF CalledOK
<1> QED BY <1>3, <1>4 DEF Executes

\* The hook comes at the GVT just behind the event that asked for it.
LEMMA RequestMet ==
  ASSUME LifeInv, CalledOK, NEW e \in called, loc[e] = "done"
  PROVE  /\ e \in Event /\ Pe[e] \in PE /\ Sig[e] \in Nat /\ Sig[e] + 1 < MaxSig
         /\ NewGvt \in Nat /\ NewGvt <= Sig[e] + 1
         /\ Sig[e] < NewGvt => NewGvt = Sig[e] + 1 /\ Triggered(NewGvt)
<1> USE HookAssumption
<1>1. e \in Event /\ Pe[e] \in PE /\ Sig[e] \in Nat /\ status = "model_call" /\ sig_at[Pe[e]] = Sig[e] + 1
  BY DEF LifeInv, HookTypeOK, CalledOK
<1>2. NewGvt \in Nat /\ NewGvt <= Sig[e] + 1
  BY <1>1, GvtBound DEF LifeInv
<1>3. Sig[e] + 1 < MaxSig
  BY <1>1
<1>4. ASSUME Sig[e] < NewGvt PROVE NewGvt = Sig[e] + 1 /\ Triggered(NewGvt)
  <2>1. NewGvt = Sig[e] + 1
    BY <1>1, <1>2, <1>4
  <2>2. \E p \in PE : NewGvt >= sig_at[p]
    BY <1>1, <1>2, <2>1
  <2> QED BY <1>1, <2>1, <2>2 DEF Triggered
<1> QED BY <1>1, <1>2, <1>3, <1>4

LEMMA CalledCollect ==
  ASSUME OneCaller, LifeInv, CalledOK, Collects(NewGvt) PROVE CalledOK'
<1> USE HookAssumption
<1> DEFINE g == NewGvt
<1>1. /\ \A e \in Event : loc'[e] = IF loc[e] = "done" /\ Sig[e] < g THEN "committed" ELSE loc[e]
      /\ called' = called /\ called \subseteq Event /\ called \subseteq Calls
      /\ called # {} => status = "model_call"
      /\ status' = "model_call" <=> status = "model_call"
  BY DEF Collects, LifeInv, HookTypeOK
<1>2. g \in Nat /\ (status # "disabled" => \A p \in PE : g <= sig_at[p]) /\ \A p \in PE : sig_at[p] \in Nat
  BY GvtBound DEF LifeInv, HookTypeOK
<1>3. ASSUME NEW e \in called PROVE loc'[e] \in {"done", "committed"}
  BY <1>1 DEF CalledOK
<1>4. ASSUME Triggered(g), NEW e \in called, loc'[e] = "done" PROVE FALSE
  <2>1. loc[e] = "done" /\ ~(Sig[e] < g) /\ status = "model_call" /\ e \in Calls
    BY <1>1, <1>4
  <2>2. e \in Event /\ Sig[e] \in Nat /\ Sig[e] + 1 < MaxSig /\ g <= Sig[e] + 1
    BY <2>1, RequestMet
  <2>3. PICK p \in PE : g >= sig_at[p]
    BY <1>4, <2>1 DEF Triggered
  <2>4. g = sig_at[p]
    <3> HIDE DEF g
    <3> QED BY <1>2, <2>1, <2>3
  <2>5. g # MaxSig
    <3> HIDE DEF g
    <3> QED BY <1>2, <2>2
  <2>6. PICK f \in called : Pe[f] = p /\ loc[f] = "done" /\ sig_at[p] = Sig[f] + 1
    BY <2>1, <2>4, <2>5 DEF CalledOK
  <2>7. Pe[e] = Pe[f] /\ sig_at[Pe[e]] = Sig[e] + 1
    <3>1. Kp[e] = Kp[f] /\ f \in Event
      BY <1>1, <2>1, <2>6 DEF OneCaller
    <3> QED BY <2>1, <2>2, <3>1 DEF CalledOK
  <2> HIDE DEF g
  <2> QED BY <1>2, <2>1, <2>2, <2>4, <2>6, <2>7
<1>5. CASE Triggered(g)
  <2>1. status = "model_call" => \A p \in PE : sig_at'[p] = MaxSig
    BY <1>5 DEF Collects
  <2> HIDE DEF g
  <2> QED BY <1>1, <1>3, <1>4, <1>5, <2>1 DEF CalledOK
<1>6. CASE ~Triggered(g)
  <2>1. sig_at' = sig_at
    BY <1>6 DEF Collects
  <2>2. ASSUME NEW e \in called, loc[e] = "done" PROVE loc'[e] = "done"
    BY <1>1, <1>6, <2>2, RequestMet
  <2>3. \A e \in called : loc'[e] = "done" => loc[e] = "done"
    BY <1>1
  <2> HIDE DEF g
  <2> QED BY <1>1, <1>3, <2>1, <2>2, <2>3 DEF CalledOK
<1> QED BY <1>5, <1>6

LEMMA CalledInvariant == ASSUME OneCaller PROVE Spec => []CalledOK
<1>1. Init => CalledOK
  <2> SUFFICES ASSUME Init, status = "model_call", NEW p \in PE PROVE called = {} /\ sig_at[p] = MaxSig
    BY DEF Init, CalledOK
  <2> QED BY DEF Init
<1>2. LifeInv /\ CalledOK /\ [Next]_vars => CalledOK'
  <2> SUFFICES ASSUME LifeInv, CalledOK, [Next]_vars PROVE CalledOK'
    OBVIOUS
  <2>1. HookTypeOK
    BY DEF LifeInv
  <2>2. CASE Idles
    BY <2>2 DEF Idles, CalledOK
  <2> QED BY <2>1, <2>2, StepIs, CalledArrive, CalledExecute, CalledCollect
<1> QED BY <1>1, <1>2, LifeInvariant, PTL DEF Spec

\* Where the LPs that call tw_trigger_gvt_hook_now are on one KP, as in
\* phold-gvt-hook, an event that asked for the hook is committed only together
\* with a call of it, at the GVT directly behind the event, though rollbacks
\* may have taken the request back and made it again.
THEOREM EveryCallHonoured == OneCaller => (Spec => CallsHonoured)
<1> SUFFICES ASSUME OneCaller PROVE Spec => CallsHonoured
  OBVIOUS
<1> DEFINE Good == \A e \in called : loc[e] # "committed" /\ loc'[e] = "committed" => call'.at = Sig[e] + 1
<1>1. LifeInv /\ CalledOK /\ [Next]_vars => [Good]_vars
  <2> SUFFICES ASSUME LifeInv, CalledOK, [Next]_vars,
                      NEW e \in called, loc[e] # "committed", loc'[e] = "committed"
               PROVE  call'.at = Sig[e] + 1
    OBVIOUS
  <2>1. HookTypeOK /\ loc[e] = "done" /\ e \in Event
    BY HookAssumption DEF LifeInv, HookTypeOK, CalledOK
  <2>2. Collects(NewGvt)
    <3>1. ASSUME NEW p, NEW f, NEW U, Arrives(p, f, U) PROVE FALSE
      BY <2>1, <3>1 DEF Arrives
    <3>2. ASSUME NEW p, NEW f, Executes(p, f) PROVE FALSE
      BY <2>1, <3>2 DEF Executes
    <3>3. ~Idles
      BY DEF Idles
    <3> QED BY <2>1, <3>1, <3>2, <3>3, StepIs
  <2>3. Sig[e] < NewGvt
    BY <2>1, <2>2 DEF Collects
  <2>4. NewGvt = Sig[e] + 1 /\ Triggered(NewGvt)
    BY <2>1, <2>3, RequestMet
  <2> QED BY <2>2, <2>4 DEF Collects
<1>2. CallsHonoured <=> [][Good]_vars
  BY DEF CallsHonoured
<1>3. Spec => []CalledOK
  BY CalledInvariant
<1> HIDE DEF Good
<1> QED BY <1>1, <1>2, <1>3, LifeInvariant, PTL DEF Spec

\* And the hook is called for no event but one that stands: a request that a
\* rollback took back brings no call.
THEOREM NoSpuriousCall == OneCaller => (Spec => NotSpurious)
<1> SUFFICES ASSUME OneCaller PROVE Spec => NotSpurious
  OBVIOUS
<1> USE HookAssumption
<1> DEFINE Good == status = "model_call" /\ call' # call /\ ~call'.past_end =>
                     \E e \in called : Sig[e] + 1 = call'.at /\ loc'[e] = "committed"
<1>1. LifeInv /\ CalledOK /\ [Next]_vars => [Good]_vars
  <2> SUFFICES ASSUME LifeInv, CalledOK, [Next]_vars, status = "model_call", call' # call, ~call'.past_end
               PROVE  \E e \in called : Sig[e] + 1 = call'.at /\ loc'[e] = "committed"
    OBVIOUS
  <2>1. HookTypeOK
    BY DEF LifeInv
  <2>2. Collects(NewGvt)
    BY <2>1, StepIs DEF Arrives, Executes, Idles
  <2>3. Triggered(NewGvt) /\ call'.at = NewGvt /\ ~(NewGvt >= End)
    BY <2>2 DEF Collects
  <2>4. PICK p \in PE : NewGvt >= sig_at[p]
    BY <2>3 DEF Triggered
  <2>5. NewGvt \in Nat /\ NewGvt <= sig_at[p] /\ sig_at[p] \in Nat
    BY <2>1, GvtBound DEF HookTypeOK
  <2>6. sig_at[p] = NewGvt /\ sig_at[p] # MaxSig
    BY <2>3, <2>4, <2>5
  <2>7. PICK e \in called : Pe[e] = p /\ loc[e] = "done" /\ sig_at[p] = Sig[e] + 1
    BY <2>6 DEF CalledOK
  <2>8. e \in Event /\ Sig[e] < NewGvt
    BY <2>1, <2>6, <2>7 DEF HookTypeOK
  <2>9. loc'[e] = "committed"
    BY <2>2, <2>7, <2>8 DEF Collects
  <2> QED BY <2>3, <2>6, <2>7, <2>9
<1>2. NotSpurious <=> [][Good]_vars
  BY DEF NotSpurious
<1>3. Spec => []CalledOK
  BY CalledInvariant
<1> HIDE DEF Good
<1> QED BY <1>1, <1>2, <1>3, LifeInvariant, PTL DEF Spec
=============================================================================

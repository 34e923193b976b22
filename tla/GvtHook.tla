------------------------------ MODULE GvtHook ------------------------------
(***************************************************************************)
(* The GVT hook of the optimistic scheduler: a function of the user that   *)
(* all PEs call together when the GVT reaches a time stamp, after an event *)
(* handler asked for it, or at every n-th GVT.                             *)
(*                                                                         *)
(* Of the scheduler this module keeps what the hook depends on: each PE    *)
(* executes its least event, a straggler undoes what follows it on its KP  *)
(* together with all that came of it, and the GVT is the least signature   *)
(* of what is not executed (TimeWarp takes these steps apart).  Event      *)
(* signatures are even, so that Sig[e] + 1 is "the next valid, larger      *)
(* tiebreaker signature" after e.                                          *)
(***************************************************************************)
EXTENDS Naturals, FiniteSets, FiniteSetsExt

CONSTANTS
  PE, Event,
  Root,         \* the events scheduled before the loop
  Parent,       \* [Event -> Event], the event whose execution sends it
  Pe,           \* [Event -> PE], and
  Kp,           \* the KP of dest_lp, which is on that PE
  Sig,          \* [Event -> Nat]
  Calls,        \* the events whose handler may call tw_trigger_gvt_hook_now
  Times,        \* the signatures for tw_trigger_gvt_hook_at
  Every,        \* the arguments for tw_trigger_gvt_hook_every
  Modes,        \* the kinds of trigger, of which the user chooses one
  End,          \* g_tw_ts_end
  MaxSig        \* g_tw_max_sig

ASSUME HookAssumption ==
  /\ Root \subseteq Event /\ Calls \subseteq Event /\ Modes # {}
  /\ Parent \in [Event -> Event] /\ Pe \in [Event -> PE]
  /\ \A e, f \in Event : /\ Kp[e] = Kp[f] => Pe[e] = Pe[f]
                         /\ Sig[e] = Sig[f] => e = f
  /\ \A e \in Event : Sig[e] \in Nat /\ Sig[e] % 2 = 0 /\ Sig[e] < End
  /\ \A e \in Event \ Root : Sig[Parent[e]] < Sig[e]
  /\ Times \subseteq 1 .. MaxSig - 1 /\ Every \subseteq Nat \ {0}
  /\ End \in Nat /\ MaxSig \in Nat /\ End < MaxSig

VARIABLES
  loc,          \* "none", "net" (or event_q), "pq", "done" or "committed"
  status,       \* g_tw_gvt_hook_trigger.status, which all PEs set alike
  sig_at,       \* g_tw_gvt_hook_trigger.sig_at of each PE
  nums, due,    \* every_n_gvt: n, and how many GVTs to the next call
  called,       \* the executed events whose handler did
  GVT_sig,
  pc,           \* "loop", "batch", "step2" or "end"
  gvt_status,   \* TW_GVT_COMPUTE, or gvt_cnt at the interval
  call          \* history: the last call of the hook

trigger == <<status, sig_at, nums, due>>
vars == <<loc, called, trigger, GVT_sig, pc, gvt_status, call>>

In(p, l) == {e \in Event : Pe[e] = p /\ loc[e] = l}
Least(p) == Min({MaxSig} \cup {Sig[e] : e \in In(p, "pq")})

NoCall == [mode |-> "disabled", at |-> 0, past_end |-> FALSE]

Init ==
  /\ loc = [e \in Event |-> IF e \in Root THEN "pq" ELSE "none"]
  /\ status \in Modes
  /\ sig_at \in {[p \in PE |-> t] : t \in IF status = "timestamp" THEN Times ELSE {MaxSig}}
  /\ nums \in IF status = "every_n_gvt" THEN Every ELSE {1}
  /\ due = nums
  /\ GVT_sig = 0 /\ pc = [p \in PE |-> "loop"]
  /\ gvt_status = [p \in PE |-> FALSE]
  /\ called = {} /\ call = NoCall

-----------------------------------------------------------------------------
\* X holds, with an event, what follows it on its KP if it is executed, and
\* what it sent.
Closed(X) ==
  \A f \in Event : loc[f] \notin {"none", "committed"} /\ f \notin X =>
    ~ \E x \in X : \/ loc[f] = "done" /\ Kp[f] = Kp[x] /\ Sig[f] > Sig[x] /\ loc[x] = "done"
                   \/ f \notin Root /\ Parent[f] = x

\* The executed events that straggler e undoes, with all that came of them.
Undone(e) ==
  LET late == {f \in Event : loc[f] = "done" /\ Kp[f] = Kp[e] /\ Sig[f] >= Sig[e]}
      C == {X \in SUBSET Event : late \subseteq X /\ Closed(X)}
  IN  CHOOSE X \in C : \A Y \in C : X \subseteq Y

\* Mutant: the reverse handler leaves the trigger.
TriggerRevForgotten(U) == called' = called \ U /\ UNCHANGED sig_at

\* tw_trigger_gvt_hook_now_rev, for each event undone whose handler had called.
tw_trigger_gvt_hook_now_rev(U) ==
  /\ called' = called \ U
  /\ sig_at' = [p \in PE |-> IF \E f \in U \cap called : Pe[f] = p THEN MaxSig ELSE sig_at[p]]

\* tw_net_read and the two queues: an event arrives, late or not.  What was
\* sent by an undone event is cancelled, other undone events return to pq.
Arrive(p) ==
  /\ pc[p] = "loop"
  /\ \E e \in In(p, "net") :
       LET U == Undone(e)
       IN  /\ loc' = [f \in Event |->
                        IF f = e THEN "pq"
                        ELSE IF f \in U THEN IF f \notin Root /\ Parent[f] \in U THEN "none" ELSE "pq"
                        ELSE loc[f]]
           /\ tw_trigger_gvt_hook_now_rev(U)
  /\ UNCHANGED <<status, nums, due, GVT_sig, pc, gvt_status, call>>

\* tw_gvt_step1: at the interval, and when the least event is past the trigger.
tw_gvt_step1(p) ==
  /\ pc[p] = "loop"
  /\ gvt_status' \in {[gvt_status EXCEPT ![p] = x] : x \in BOOLEAN}
  /\ gvt_status[p] \/ (status = "timestamp" /\ Least(p) >= sig_at[p]) => gvt_status'[p]
  /\ pc' = [pc EXCEPT ![p] = IF gvt_status'[p] THEN "step2" ELSE "batch"]
  /\ UNCHANGED <<loc, called, trigger, GVT_sig, call>>

HookAhead(p) == status \in {"timestamp", "model_call"} /\ sig_at[p] <= Least(p)

\* A handler asks for the hook behind its event, and forces the GVT.
tw_trigger_gvt_hook_now(e) ==
  /\ e \in Calls /\ status = "model_call"
  /\ called' = called \cup {e}
  /\ sig_at' = [sig_at EXCEPT ![Pe[e]] = Sig[e] + 1]
  /\ gvt_status' = [gvt_status EXCEPT ![Pe[e]] = TRUE]

Fast(c) == ~ \E f \in Event : loc[f] = "done" /\ Kp[f] = Kp[c] /\ Sig[f] > Sig[c]

\* tw_sched_batch executes its least event; tw_event_send gives it to the
\* network, or to event_q or pq.
Process(p) ==
  /\ pc[p] = "batch" /\ ~HookAhead(p)
  /\ \E e \in In(p, "pq") :
       /\ Sig[e] = Least(p)
       /\ loc' = [c \in Event |-> IF c = e THEN "done"
                                  ELSE IF c \in Root \/ Parent[c] # e THEN loc[c]
                                  ELSE IF Pe[c] = p /\ Fast(c) THEN "pq" ELSE "net"]
       /\ \/ UNCHANGED <<called, sig_at, gvt_status>>
          \/ tw_trigger_gvt_hook_now(e)
  /\ UNCHANGED <<status, nums, due, GVT_sig, pc, call>>

\* The batch ends, at the latest before the trigger or with pq empty.
BatchDone(p) ==
  /\ pc[p] = "batch"
  /\ pc' = [pc EXCEPT ![p] = "loop"]
  /\ gvt_status' = [gvt_status EXCEPT ![p] = @ \/ HookAhead(p)]
  /\ UNCHANGED <<loc, called, trigger, GVT_sig, call>>

\* Mutant: the trigger does not hold the local virtual times back.
NewGvtFree == Min({MaxSig} \cup {Sig[e] : e \in {f \in Event : loc[f] \in {"pq", "net"}}})

\* tw_gvt_step2: the trigger holds the local virtual times back.
NewGvt ==
  Min({MaxSig} \cup {Sig[e] : e \in {f \in Event : loc[f] \in {"pq", "net"}}}
               \cup {sig_at[p] : p \in {q \in PE : status # "disabled"}})

\* Mutant: the GVT has to be past the time that was set.
TriggeredPast(g) ==
  CASE status = "timestamp" -> \A p \in PE : g > sig_at[p]
    [] status = "model_call" -> \E p \in PE : g >= sig_at[p]
    [] status = "every_n_gvt" -> due = 1
    [] OTHER -> FALSE

\* tw_gvt_hook_step, with its Allreduces: whether the hook is called.
Triggered(g) ==
  CASE status = "timestamp" -> \A p \in PE : g >= sig_at[p]
    [] status = "model_call" -> \E p \in PE : g >= sig_at[p]
    [] status = "every_n_gvt" -> due = 1
    [] OTHER -> FALSE

\* All PEs are in tw_gvt_step2: the GVT, fossil collection, and the hook, which
\* may call tw_trigger_gvt_hook_at anew.  After the end a PE takes the trigger's time for its
\* GVT while the hook runs and for the test that ends the loop.
tw_gvt_step2 ==
  LET g == NewGvt
      past_end == g >= End
      at == IF status = "model_call" THEN MaxSig ELSE sig_at[CHOOSE p \in PE : TRUE]
  IN  /\ \A p \in PE : pc[p] = "step2"
      /\ loc' = [e \in Event |-> IF loc[e] = "done" /\ Sig[e] < g THEN "committed" ELSE loc[e]]
      /\ gvt_status' = [p \in PE |-> FALSE]
      /\ IF Triggered(g)
         THEN /\ call' = [mode |-> status, at |-> g, past_end |-> past_end]
              /\ GVT_sig' = IF past_end THEN at ELSE g
              /\ due' = nums
              /\ \/ /\ status = "timestamp" /\ UNCHANGED status
                    /\ \E t \in {x \in Times : x > g} : sig_at' = [p \in PE |-> t]
                 \/ /\ status = "timestamp" /\ status' = "disabled" /\ UNCHANGED sig_at
                 \/ /\ status # "timestamp" /\ UNCHANGED status
                    /\ sig_at' = [p \in PE |-> MaxSig]
         ELSE /\ GVT_sig' = g
              /\ due' = IF status = "every_n_gvt" THEN due - 1 ELSE due
              /\ UNCHANGED <<status, sig_at, call>>
      /\ UNCHANGED <<called, nums>>
      /\ pc' = [p \in PE |-> IF GVT_sig' > End THEN "end" ELSE "batch"]

Ended == (\A p \in PE : pc[p] = "end") /\ UNCHANGED vars

Next ==
  \/ \E p \in PE : Arrive(p) \/ tw_gvt_step1(p) \/ Process(p) \/ BatchDone(p)
  \/ tw_gvt_step2
  \/ Ended

Spec == Init /\ [][Next]_vars

\* A PE goes round its loop, receives what was sent to it, executes an event in
\* a batch if it may, and computes the GVT at the end of each interval.
Fairness ==
  /\ \A p \in PE : /\ WF_vars(tw_gvt_step1(p) \/ BatchDone(p))
                   /\ SF_vars(tw_gvt_step1(p) /\ gvt_status'[p])
                   /\ SF_vars(Process(p)) /\ SF_vars(Arrive(p))
  /\ WF_vars(tw_gvt_step2)

FairSpec == Spec /\ Fairness
-----------------------------------------------------------------------------
\* A hook set for a time is called when the GVT is that time, not later, with
\* every event before it committed and none from it on executed at any PE.
HookOnTime ==
  [][status = "timestamp" /\ call' # call =>
       /\ \A p \in PE : sig_at[p] = call'.at
       /\ \A e \in Event : IF Sig[e] < call'.at THEN loc'[e] \in {"none", "committed"}
                                                ELSE loc'[e] # "done"]_vars

\* "Whenever the user calls tw_trigger_gvt_hook_now" (ross-gvt-internal.h): an
\* event that asked for the hook is committed together with a call of it,
\* directly behind the event, though rollbacks took the request back before.
CallsHonoured ==
  [][\A e \in called : loc[e] # "committed" /\ loc'[e] = "committed" => call'.at = Sig[e] + 1]_vars

\* A hook called for an event handler is called for one that stands.
NotSpurious ==
  [][status = "model_call" /\ call' # call /\ ~call'.past_end =>
       \E e \in called : Sig[e] + 1 = call'.at /\ loc'[e] = "committed"]_vars

\* A hook set for a time is called, and the loop ends.
HookComes ==
  /\ \A t \in Times : (status = "timestamp" /\ \A p \in PE : sig_at[p] = t) ~> call.at = t
  /\ <>(\A p \in PE : pc[p] = "end")
=============================================================================

--------------------------- MODULE ProgramProofs ---------------------------
(***************************************************************************)
(* The set-up finds every LP, the two debugging schedulers undo what they  *)
(* execute, and an analysis LP keeps its samples, for any job.  A job is   *)
(* an input (conf), so the conditions on it are a state predicate that is  *)
(* to hold always.                                                         *)
(*                                                                         *)
(* Four parts: the tables of the set-up (SetupInv); what an event changes  *)
(* (Effects) and that tw_event_rollback takes back just that (Undone),     *)
(* resting on RngProofs for the draws; the invariants of the schedulers    *)
(* (CheckInv, DebugInv); the list of an analysis LP (SamplesInv).  The     *)
(* recursive functions of the code's loops are known by Recursion of       *)
(* RngProofs: one exists, and two that obey the same equations are equal.  *)
(***************************************************************************)
EXTENDS RollbackCheck, RngProofs, FiniteSetTheorems, SequenceTheorems

\* A job as its options and tw_define_lps allow it: ranks, LPs and KPs in natural numbers, seeds in integers.
Sane ==
  /\ conf.nnodes \in Nat \ {0} /\ conf.nlp \in [Rank -> Nat]
  /\ conf.nkp \in Nat /\ conf.nkp_per_pe \in Nat
  /\ \A j \in J : conf.seed[j] \in Int /\ conf.core_seed[j] \in Int

\* All ranks have the same number of LPs, as g_tw_lp_offset of map_linear and
\* map_round_robin ("ASSUMPTION: g_tw_nlp is the same on each rank") need it.
EqualLps == \A r, s \in Rank : conf.nlp[r] = conf.nlp[s]

\* The tables that tw_define_lps makes.
Tables(r) ==
  specialized_lp_init_mapping(r, Nkp,
    IF conf.mapping = "linear" THEN map_linear(r, Nkp) ELSE map_round_robin(r, Nkp))

\* The LPs of rank r with their KPs and streams, as tw_lp_onkp leaves them.
LpTable(r) ==
  [i \in DOMAIN Tables(r).gid |->
     tw_lp_onkp(Tables(r).gid[i], Tables(r).on[i], tw_rand_init_streams(Tables(r).gid[i]))]

\* Rank r has its LPs and KPs.
Mapped(r) ==
  /\ conf.nlp[r] # 0 /\ Tables(r).ok
  /\ g_tw_nkp[r] = Nkp /\ g_tw_kp[r] = Tables(r).kp
  /\ g_tw_lp[r] = LpTable(r)

\* What the set-up of every rank keeps.
SetupShape ==
  /\ DOMAIN stage = Rank /\ DOMAIN g_tw_nkp = Rank /\ DOMAIN g_tw_kp = Rank /\ DOMAIN g_tw_lp = Rank

\* The inductive invariant of the set-up: a rank that checks or runs has the tables of its mapping,
\* and one that runs has a KP for each LP.
SetupInv ==
  /\ SetupShape
  /\ \A r \in Rank :
       /\ stage[r] \in {"check", "run"} => Mapped(r)
       /\ stage[r] = "run" => \A i \in DOMAIN g_tw_lp[r] : g_tw_lp[r][i].kp \in g_tw_kp[r]

\* What the Allreduce found, once it was called.
TotalInv ==
  \A r \in Rank : stage[r] \in {"map", "check", "run"} => g_tw_total_lps = conf.nnodes * conf.nlp[0]

\* Equal numbers add up to a product.
LEMMA SumOfEqual ==
  ASSUME Sane, EqualLps
  PROVE  LET sum[r \in -1 .. conf.nnodes - 1] == IF r < 0 THEN 0 ELSE sum[r - 1] + conf.nlp[r]
         IN  sum[conf.nnodes - 1] = conf.nnodes * conf.nlp[0]
<1> DEFINE N == conf.nnodes - 1
           L == conf.nlp[0]
           sum[r \in -1 .. conf.nnodes - 1] == IF r < 0 THEN 0 ELSE sum[r - 1] + conf.nlp[r]
           f == [r \in -1 .. N |-> (r + 1) * L]
<1>1. N \in Nat /\ N \in Int /\ conf.nnodes = N + 1 /\ -1 \in Int /\ -1 <= N /\ L \in Nat
  BY DEF Sane, Rank
<1>2. \A r \in 0 .. N : conf.nlp[r] = L
  BY <1>1 DEF EqualLps, Rank
<1>3. f = [r \in -1 .. N |-> IF r < 0 THEN 0 ELSE f[r - 1] + conf.nlp[r]]
  <2>1. ASSUME NEW r \in -1 .. N
        PROVE  (r + 1) * L = IF r < 0 THEN 0 ELSE f[r - 1] + conf.nlp[r]
    <3>1. CASE r < 0
      <4>1. r + 1 = 0 /\ 0 * L = 0
        BY <1>1, <3>1
      <4> QED BY <3>1, <4>1
    <3>2. CASE ~(r < 0)
      <4>1. r \in 0 .. N /\ r - 1 \in -1 .. N /\ (r - 1) + 1 = r
        BY <1>1, <3>2
      <4>2. f[r - 1] = r * L
        BY <4>1
      <4>3. (r + 1) * L = r * L + L
        BY <1>1, <4>1
      <4> QED BY <1>2, <3>2, <4>1, <4>2, <4>3
    <3> QED BY <3>1, <3>2
  <2> QED BY <2>1
<1>4. sum = [r \in -1 .. N |-> IF r < 0 THEN 0 ELSE sum[r - 1] + conf.nlp[r]]
  <2> HIDE DEF f
  <2> QED BY <1>3
<1>5. f[N] = (N + 1) * L
  BY <1>1
<1> HIDE DEF sum, f
<1>6. sum = f
  <2>1. sum = [r \in -1 .. N |-> sum[r]] /\ f = [r \in -1 .. N |-> f[r]]
    BY <1>3, <1>4
  <2>2. -1 \in -1 .. N /\ -1 < 0
    BY <1>1
  <2>3. sum[-1] = 0
    BY <1>4, <2>2
  <2>4. f[-1] = 0
    BY <1>3, <2>2
  <2>5. ASSUME NEW r \in -1 + 1 .. N, sum[r - 1] = f[r - 1]
        PROVE  sum[r] = f[r]
    <3>1. r \in -1 .. N /\ ~(r < 0)
      BY <1>1
    <3>2. sum[r] = sum[r - 1] + conf.nlp[r]
      BY <1>4, <3>1
    <3>3. f[r] = f[r - 1] + conf.nlp[r]
      BY <1>3, <3>1
    <3> QED BY <2>5, <3>2, <3>3
  <2>6. Alike(sum, f, -1, N)
    BY <2>1, <2>3, <2>4, <2>5 DEF Alike
  <2> HIDE DEF N
  <2> QED BY <1>1, <2>6, SameRecursion, Zenon
<1>7. sum[N] = conf.nnodes * conf.nlp[0]
  BY <1>1, <1>5, <1>6
<1> QED BY <1>7 DEF sum

\* The program starts with nothing mapped.
LEMMA SetupInitOK ==
  SetupInit => SetupInv /\ TotalInv
  BY DEF SetupInit, SetupInv, SetupShape, TotalInv


\* The tables depend on the configuration and the total only.
LEMMA TablesFrame ==
  ASSUME conf' = conf, g_tw_total_lps' = g_tw_total_lps
  PROVE  /\ Nkp' = Nkp /\ Rank' = Rank /\ Sane' = Sane /\ EqualLps' = EqualLps
         /\ \A r : Tables(r)' = Tables(r) /\ LpTable(r)' = LpTable(r)
<1>1. Nkp' = Nkp /\ Rank' = Rank /\ Sane' = Sane /\ EqualLps' = EqualLps
  BY DEF Nkp, early_sanity_check, Rank, Sane, EqualLps
<1>2. ASSUME NEW r
      PROVE  Tables(r)' = Tables(r)
  BY DEF Tables, specialized_lp_init_mapping, map_linear, map_round_robin, Nkp, early_sanity_check
<1>3. ASSUME NEW gid
      PROVE  tw_rand_init_streams(gid)' = tw_rand_init_streams(gid)
  BY DEF tw_rand_init_streams, StreamIds, rng_seed, core_rng_seed
<1>4. ASSUME NEW r
      PROVE  LpTable(r)' = LpTable(r)
  BY <1>2, <1>3 DEF LpTable
<1> QED BY <1>1, <1>2, <1>4

\* A step that leaves the set-up alone.
LEMMA SetupFrame ==
  ASSUME SetupInv, UNCHANGED setupVars
  PROVE  SetupInv'
  BY TablesFrame DEF SetupInv, SetupShape, Mapped, setupVars

\* A rank that leaves the set-up for an error.
LEMMA ErrorStep ==
  ASSUME SetupInv, NEW r \in Rank, stage' = [stage EXCEPT ![r] = "error"],
         UNCHANGED <<conf, g_tw_total_lps, g_tw_nkp, g_tw_kp, g_tw_lp>>
  PROVE  SetupInv'
  BY TablesFrame DEF SetupInv, SetupShape, Mapped

\* Every step of tw_define_lps keeps the invariant.
LEMMA SetupStep ==
  ASSUME SetupInv, SetupNext
  PROVE  SetupInv'
<1>1. ASSUME NEW r \in Rank, EnterDefine(r)
      PROVE  SetupInv'
  BY <1>1, TablesFrame DEF EnterDefine, SetupInv, SetupShape, Mapped
<1>2. ASSUME AllreduceLps
      PROVE  SetupInv'
  <2>1. conf' = conf /\ Rank' = Rank /\ stage' = [r \in Rank |-> "map"]
        /\ g_tw_nkp' = g_tw_nkp /\ g_tw_kp' = g_tw_kp /\ g_tw_lp' = g_tw_lp
    BY <1>2 DEF AllreduceLps, Rank
  <2> QED BY <2>1 DEF SetupInv, SetupShape
<1>3. ASSUME NEW r \in Rank, tw_define_lps(r)
      PROVE  SetupInv'
  <2>1. CASE conf.nlp[r] = 0 \/ ~Tables(r).ok
    <3>1. stage' = [stage EXCEPT ![r] = "error"] /\ UNCHANGED <<conf, g_tw_total_lps, g_tw_nkp, g_tw_kp, g_tw_lp>>
      BY <1>3, <2>1 DEF tw_define_lps, Tables
    <3> QED BY <3>1, ErrorStep
  <2>2. CASE ~(conf.nlp[r] = 0 \/ ~Tables(r).ok)
    <3>1. /\ stage[r] = "map" /\ stage' = [stage EXCEPT ![r] = "check"]
          /\ g_tw_nkp' = [g_tw_nkp EXCEPT ![r] = Nkp]
          /\ g_tw_kp' = [g_tw_kp EXCEPT ![r] = Tables(r).kp]
          /\ g_tw_lp' = [g_tw_lp EXCEPT ![r] = LpTable(r)]
          /\ UNCHANGED <<conf, g_tw_total_lps>>
      BY <1>3, <2>2 DEF tw_define_lps, Tables, LpTable
    <3> QED BY <2>2, <3>1, TablesFrame DEF SetupInv, SetupShape, Mapped
  <2> QED BY <2>1, <2>2
<1>4. ASSUME NEW r \in Rank, late_sanity_check(r)
      PROVE  SetupInv'
  <2>1. UNCHANGED <<conf, g_tw_total_lps, g_tw_nkp, g_tw_kp, g_tw_lp>> /\ stage[r] = "check"
    BY <1>4 DEF late_sanity_check
  <2>2. CASE stage' = [stage EXCEPT ![r] = "error"]
    BY <2>1, <2>2, ErrorStep
  <2>3. CASE stage' = [stage EXCEPT ![r] = "run"] /\ \A i \in DOMAIN g_tw_lp[r] : g_tw_lp[r][i].kp \in g_tw_kp[r]
    BY <2>1, <2>3, TablesFrame DEF SetupInv, SetupShape, Mapped
  <2> QED BY <1>4, <2>2, <2>3 DEF late_sanity_check
<1> QED BY <1>1, <1>2, <1>3, <1>4 DEF SetupNext

\* The steps of RIO that leave the set-up alone.
LEMMA RioLeaves ==
  /\ \A r \in Rank : io_load_events(r) \/ Work(r) \/ Unwork(r) \/ io_store_checkpoint(r) => UNCHANGED setupVars
  /\ RioRun \/ StoreBegin => UNCHANGED setupVars
<1>1. ASSUME NEW r \in Rank, io_load_events(r) \/ Work(r) \/ Unwork(r) \/ io_store_checkpoint(r)
      PROVE  UNCHANGED setupVars
  <2>1. CASE io_load_events(r)
    BY <2>1 DEF io_load_events
  <2>2. CASE Work(r)
    BY <2>2 DEF Work
  <2>3. CASE Unwork(r)
    BY <2>3 DEF Unwork
  <2>4. CASE io_store_checkpoint(r)
    BY <2>4 DEF io_store_checkpoint
  <2> QED BY <1>1, <2>1, <2>2, <2>3, <2>4
<1>2. RioRun \/ StoreBegin => UNCHANGED setupVars
  BY DEF RioRun, StoreBegin
<1> QED BY <1>1, <1>2

\* RIO fails a rank or begins a job anew.
LEMMA RioStep ==
  ASSUME SetupInv, RioNext
  PROVE  SetupInv'
<1>1. ASSUME NEW r \in Rank, RioInitLps(r)
      PROVE  SetupInv'
  <2>1. UNCHANGED <<conf, g_tw_total_lps, g_tw_nkp, g_tw_kp, g_tw_lp>>
    BY <1>1 DEF RioInitLps
  <2>2. UNCHANGED stage \/ stage' = [stage EXCEPT ![r] = "error"]
    BY <1>1 DEF RioInitLps
  <2> QED BY <2>1, <2>2, ErrorStep, SetupFrame DEF setupVars
<1>2. ASSUME Restart
      PROVE  SetupInv'
  <2>1. PICK c \in conf.next :
          /\ conf' = c
          /\ stage' = [r \in 0 .. c.nnodes - 1 |-> "define"]
          /\ g_tw_nkp' = [r \in 0 .. c.nnodes - 1 |-> c.nkp]
          /\ g_tw_kp' = [r \in 0 .. c.nnodes - 1 |-> {}]
          /\ g_tw_lp' = [r \in 0 .. c.nnodes - 1 |-> <<>>]
    BY <1>2 DEF Restart
  <2> QED BY <2>1 DEF SetupInv, SetupShape, Rank
<1>3. CASE UNCHANGED setupVars
  BY <1>3, SetupFrame
<1> QED BY <1>1, <1>2, <1>3, RioLeaves DEF RioNext

\* The instrumentation leaves the tables alone.
LEMMA StatsLeaves ==
  StatsNext => UNCHANGED setupVars
<1>1. ASSUME NEW r \in Rank
      PROVE  analysis_event(r) => UNCHANGED setupVars
  BY DEF analysis_event, Becomes
<1>2. ASSUME NEW r \in Rank
      PROVE  analysis_event_rc(r) => UNCHANGED setupVars
  BY DEF analysis_event_rc, Becomes
<1>3. ASSUME NEW r \in Rank
      PROVE  tw_gvt_step2(r) => UNCHANGED setupVars
  BY DEF tw_gvt_step2, Becomes
<1>4. ASSUME NEW r \in Rank
      PROVE  st_inst_finalize(r) => UNCHANGED setupVars
  BY DEF st_inst_finalize, Becomes
<1>5. ASSUME NEW r \in Rank
      PROVE  st_buffer_write(r) => UNCHANGED setupVars
  BY DEF st_buffer_write
<1>6. StatsRun \/ tw_gvt_begin \/ AllgatherSizes => UNCHANGED setupVars
  BY DEF StatsRun, tw_gvt_begin, AllgatherSizes
<1> QED BY <1>1, <1>2, <1>3, <1>4, <1>5, <1>6 DEF StatsNext

\* So do the schedulers, and RIO, whose next job starts again with empty tables.
LEMMA SetupInvStep ==
  ASSUME SetupInv, [Next]_vars
  PROVE  SetupInv'
<1>1. CASE DefineLps
  BY <1>1, SetupStep DEF DefineLps
<1>2. CASE RioJob
  BY <1>2, RioStep DEF RioJob
<1>3. CASE StatsJob
  BY <1>3, StatsLeaves, SetupFrame DEF StatsJob
<1>4. CASE UNCHANGED setupVars
  BY <1>4, SetupFrame
<1>5. tw_run \/ Dequeue \/ ForwardPass \/ RollbackPass \/ AgainPass \/ DebugForward \/ DebugRollback
        \/ UNCHANGED vars => UNCHANGED setupVars
  BY DEF tw_run, Dequeue, ForwardPass, RollbackPass, AgainPass, DebugForward, DebugRollback, vars
<1> QED BY <1>1, <1>2, <1>3, <1>4, <1>5 DEF Next, Ended

\* The Allreduce is the only step that changes the total within a job.
LEMMA TotalStep ==
  ASSUME Sane, EqualLps, SetupInv, TotalInv, [Next]_vars
  PROVE  TotalInv'
<1>0. DOMAIN stage = Rank
  BY DEF SetupInv, SetupShape
<1>1. ASSUME NEW r \in Rank, EnterDefine(r) \/ tw_define_lps(r) \/ late_sanity_check(r)
      PROVE  TotalInv'
  <2>1. conf' = conf /\ g_tw_total_lps' = g_tw_total_lps /\ Rank' = Rank
    BY <1>1 DEF EnterDefine, tw_define_lps, late_sanity_check, Rank
  <2>2. CASE EnterDefine(r)
    BY <1>0, <2>1, <2>2 DEF EnterDefine, TotalInv
  <2>3. CASE tw_define_lps(r)
    <3>1. stage[r] = "map" /\ \A s \in Rank \ {r} : stage'[s] = stage[s]
      BY <1>0, <2>3 DEF tw_define_lps
    <3> QED BY <2>1, <3>1 DEF TotalInv
  <2>4. CASE late_sanity_check(r)
    <3>1. stage[r] = "check" /\ \A s \in Rank \ {r} : stage'[s] = stage[s]
      BY <1>0, <2>4 DEF late_sanity_check
    <3> QED BY <2>1, <3>1 DEF TotalInv
  <2> QED BY <1>1, <2>2, <2>3, <2>4
<1>2. ASSUME AllreduceLps
      PROVE  TotalInv'
  <2>1. conf' = conf /\ g_tw_total_lps' = conf.nnodes * conf.nlp[0]
    BY <1>2, SumOfEqual DEF AllreduceLps
  <2> QED BY <2>1 DEF TotalInv
<1>3. CASE DefineLps
  BY <1>1, <1>2, <1>3 DEF DefineLps, SetupNext
<1>4. CASE UNCHANGED setupVars
  BY <1>4 DEF setupVars, TotalInv, Rank
<1>5. CASE RioJob
  <2>1. ASSUME NEW r \in Rank, RioInitLps(r)
        PROVE  TotalInv'
    <3>1. conf' = conf /\ g_tw_total_lps' = g_tw_total_lps /\ Rank' = Rank
          /\ (UNCHANGED stage \/ stage' = [stage EXCEPT ![r] = "error"])
      BY <2>1 DEF RioInitLps, Rank
    <3> QED BY <1>0, <3>1 DEF TotalInv
  <2>2. ASSUME Restart
        PROVE  TotalInv'
    <3>1. PICK c \in conf.next : conf' = c /\ stage' = [r \in 0 .. c.nnodes - 1 |-> "define"]
      BY <2>2 DEF Restart
    <3> QED BY <3>1 DEF TotalInv, Rank
  <2> QED BY <1>4, <1>5, <2>1, <2>2, RioLeaves DEF RioJob, RioNext
<1>6. StatsJob => UNCHANGED setupVars
  BY StatsLeaves DEF StatsJob
<1>7. tw_run \/ Dequeue \/ ForwardPass \/ RollbackPass \/ AgainPass \/ DebugForward \/ DebugRollback
        \/ UNCHANGED vars => UNCHANGED setupVars
  BY DEF tw_run, Dequeue, ForwardPass, RollbackPass, AgainPass, DebugForward, DebugRollback, vars
<1> QED BY <1>3, <1>4, <1>5, <1>6, <1>7 DEF Next, Ended

-----------------------------------------------------------------------------
\* The KPs that a mapping makes are below the number of KPs.
LEMMA KpsBelow ==
  ASSUME Sane, NEW r \in Rank, Tables(r).ok, NEW k \in Tables(r).kp
  PROVE  k < Nkp
<1> DEFINE t == IF conf.mapping = "linear" THEN map_linear(r, Nkp) ELSE map_round_robin(r, Nkp)
<1>1. Tables(r).kp = t.kp /\ t.ok
  BY DEF Tables, specialized_lp_init_mapping
<1>2. CASE conf.mapping = "linear"
  BY <1>1, <1>2 DEF map_linear, tw_kp_onpe
<1>3. CASE conf.mapping # "linear"
  <2> DEFINE kps == [i \in 0 .. conf.nlp[r] - 1 |-> IF Nkp = 0 THEN 0 ELSE i % Nkp]
  <2>1. tw_kp_onpe(kps, Nkp) /\ Tables(r).kp = {kps[i] : i \in DOMAIN kps}
    BY <1>1, <1>3 DEF map_round_robin
  <2> HIDE DEF kps
  <2> QED BY <2>1 DEF tw_kp_onpe
<1> QED BY <1>2, <1>3

\* The numbers of the LPs on a rank, those of the analysis LPs behind them.
LEMMA GidTable ==
  ASSUME Sane, NEW r \in Rank
  PROVE  /\ DOMAIN Tables(r).gid = 0 .. conf.nlp[r] + (IF conf.analysis THEN Nkp ELSE 0) - 1
         /\ \A i \in 0 .. conf.nlp[r] - 1 :
              Tables(r).gid[i] = IF conf.mapping = "linear" THEN r * conf.nlp[r] + i
                                 ELSE r + i * conf.nnodes
         /\ conf.analysis => \A i \in conf.nlp[r] .. conf.nlp[r] + Nkp - 1 :
                               Tables(r).gid[i] = g_tw_total_lps + r * Nkp + (i - conf.nlp[r])
<1> DEFINE t == IF conf.mapping = "linear" THEN map_linear(r, Nkp) ELSE map_round_robin(r, Nkp)
           n == conf.nlp[r]
           k == Nkp
<1>0. n \in Nat /\ k \in Nat
  BY DEF Sane, Nkp, early_sanity_check
<1>1. /\ DOMAIN t.gid = 0 .. n - 1
      /\ \A i \in 0 .. n - 1 : t.gid[i] = IF conf.mapping = "linear" THEN r * n + i ELSE r + i * conf.nnodes
  <2>1. CASE conf.mapping = "linear"
    BY <2>1 DEF map_linear
  <2>2. CASE conf.mapping # "linear"
    BY <2>2 DEF map_round_robin
  <2> QED BY <2>1, <2>2
<1>2. Tables(r) = specialized_lp_init_mapping(r, k, t)
  BY DEF Tables
<1> HIDE DEF t, k
<1>3. CASE ~conf.analysis
  <2>1. Tables(r) = t
    BY <1>2, <1>3 DEF specialized_lp_init_mapping
  <2>2. n + 0 - 1 = n - 1
    BY <1>0
  <2> QED BY <1>1, <1>3, <2>1, <2>2
<1>4. CASE conf.analysis
  <2>1. Tables(r).gid = [i \in 0 .. n + k - 1 |->
                           IF i < n THEN t.gid[i] ELSE g_tw_total_lps + r * k + (i - n)]
    BY <1>2, <1>4 DEF specialized_lp_init_mapping
  <2>2. \A i \in 0 .. n - 1 : i \in 0 .. n + k - 1 /\ i < n
    BY <1>0
  <2>3. \A i \in n .. n + k - 1 : i \in 0 .. n + k - 1 /\ ~(i < n)
    BY <1>0
  <2> HIDE DEF n
  <2>4. DOMAIN Tables(r).gid = 0 .. n + k - 1
    BY <2>1
  <2>5. \A i \in 0 .. n - 1 : Tables(r).gid[i] = t.gid[i]
    BY <2>1, <2>2
  <2>6. \A i \in n .. n + k - 1 : Tables(r).gid[i] = g_tw_total_lps + r * k + (i - n)
    BY <2>1, <2>3
  <2> QED BY <1>1, <1>4, <2>4, <2>5, <2>6 DEF n, k
<1> QED BY <1>3, <1>4

\* A number below n * L is in row x \div L.
LEMMA InRow ==
  ASSUME NEW n \in Nat, NEW L \in Nat, NEW x \in 0 .. n * L - 1
  PROVE  /\ L # 0 /\ x \div L \in 0 .. n - 1 /\ x % L \in 0 .. L - 1
         /\ x = (x \div L) * L + (x % L)
<1>1. L # 0 /\ x \in Int
  <2>1. CASE L = 0
    <3>1. n * L = 0
      BY <2>1
    <3> QED BY <3>1
  <2>2. n * L \in Int
    OBVIOUS
  <2> QED BY <2>1, <2>2
<1> DEFINE q == x \div L
           y == x % L
<1>2. q \in Int /\ y \in 0 .. L - 1 /\ x = L * q + y
  BY <1>1, DivMod
<1> HIDE DEF q, y
<1>3. L * q = q * L /\ q * L \in Int /\ n * L \in Int
  BY <1>2
<1>4. 0 <= q
  <2>1. CASE q <= -1
    <3>1. L * q <= L * (-1)
      BY <1>2, <2>1, Times
    <3> QED BY <1>1, <1>2, <1>3, <3>1
  <2> QED BY <1>2, <2>1
<1>5. q < n
  <2>1. CASE n <= q
    <3>1. n * L <= q * L
      BY <1>2, <2>1, Times
    <3> QED BY <1>1, <1>2, <1>3, <3>1
  <2> QED BY <1>2, <2>1
<1>6. q \in 0 .. n - 1 /\ x = q * L + y
  BY <1>2, <1>3, <1>4, <1>5
<1> QED BY <1>1, <1>2, <1>6 DEF q, y

\* Where the tables are complete, a destination is found at the rank and LP the mapping names.
LEMMA InvFindsLps ==
  ASSUME Sane, EqualLps, SetupInv, TotalInv
  PROVE  LpsFound
<1> DEFINE L == conf.nlp[0]
           n == conf.nnodes
           k == Nkp
           T == g_tw_total_lps
<1>1. SUFFICES ASSUME \A r \in Rank : stage[r] = "run", NEW r \in Rank,
                      NEW gid \in 0 .. T + (IF conf.analysis THEN n * g_tw_nkp[0] ELSE 0) - 1
               PROVE  LET d == lp_map(r, gid)
                          i == tw_getlocal_lp(d, gid)
                      IN  /\ d \in Rank /\ i \in DOMAIN g_tw_lp[d]
                          /\ g_tw_lp[d][i].gid = gid /\ g_tw_lp[d][i].kp < g_tw_nkp[d]
  BY DEF LpsFound
<1> DEFINE d == lp_map(r, gid)
           i == tw_getlocal_lp(d, gid)
<1>2. n \in Nat \ {0} /\ L \in Nat /\ k \in Nat /\ Rank = 0 .. n - 1 /\ 0 \in Rank
  BY DEF Sane, Rank, Nkp, early_sanity_check
<1>3. T = n * L /\ T \in Nat /\ g_tw_nkp[0] = k
  BY <1>1, <1>2 DEF SetupInv, TotalInv, Mapped
<1>4. \A s \in Rank : conf.nlp[s] = L /\ g_tw_nkp[s] = k /\ Tables(s).ok
                      /\ g_tw_kp[s] = Tables(s).kp /\ g_tw_lp[s] = LpTable(s)
  BY <1>1, <1>2 DEF SetupInv, Mapped, EqualLps
<1>5. gid \in Int /\ 0 <= gid
  OBVIOUS
<1>6. d \in Rank /\ i \in DOMAIN Tables(d).gid /\ Tables(d).gid[i] = gid
  <2>1. CASE IsAnalysis(gid)
    <3> DEFINE x == gid - T
    <3>1. conf.analysis /\ x \in 0 .. n * k - 1
      <4>1. conf.analysis /\ gid >= T /\ gid \in 0 .. T + n * k - 1 /\ n * k \in Nat
        BY <1>2, <1>3, <2>1 DEF IsAnalysis
      <4> QED BY <1>3, <1>5, <4>1
    <3>2. k # 0 /\ x \div k \in 0 .. n - 1 /\ x % k \in 0 .. k - 1 /\ x = (x \div k) * k + (x % k)
      <4> HIDE DEF x, n, k
      <4> QED BY <1>2, <3>1, InRow
    <3>3. d = x \div k
      BY <1>4, <2>1 DEF lp_map, analysis_map
    <3>4. d \in Rank
      BY <1>2, <3>2, <3>3
    <3>5. i = (x % k) + L
      BY <1>4, <2>1, <3>4 DEF tw_getlocal_lp
    <3> DEFINE y == x % k
    <3>a. y \in 0 .. k - 1 /\ i = y + L /\ x = d * k + y
      BY <3>2, <3>3, <3>5
    <3> HIDE DEF x, d, i, k, L, T, y, n
    <3>6. i \in L .. L + k - 1 /\ i - L = y /\ i \in 0 .. L + k - 1
      BY <1>2, <3>a
    <3>7. i \in DOMAIN Tables(d).gid
      BY <1>4, <3>1, <3>4, <3>6, GidTable DEF k
    <3>8. Tables(d).gid[i] = T + d * k + (i - L)
      BY <1>4, <3>1, <3>4, <3>6, GidTable DEF k, T
    <3>9. T + d * k + (i - L) = T + x
      <4>1. d \in Int /\ d * k \in Int
        BY <1>2, <3>4
      <4> QED BY <1>2, <1>3, <3>a, <3>6, <4>1
    <3>10. T + x = gid
      BY <1>3, <1>5 DEF x
    <3> QED BY <3>4, <3>7, <3>8, <3>9, <3>10
  <2>2. CASE ~IsAnalysis(gid)
    <3>1. gid \in 0 .. n * L - 1
      <4>1. gid < T
        BY <1>1, <1>3, <1>5, <2>2 DEF IsAnalysis
      <4> QED BY <1>3, <1>5, <4>1
    <3>2. /\ L # 0 /\ gid \div L \in 0 .. n - 1 /\ gid % L \in 0 .. L - 1
          /\ gid = (gid \div L) * L + (gid % L)
      <4> HIDE DEF n, L
      <4> QED BY <1>2, <3>1, InRow
    <3>3. gid \div n \in 0 .. L - 1 /\ gid % n \in 0 .. n - 1 /\ gid = (gid \div n) * n + (gid % n)
      <4>1. n * L = L * n
        BY <1>2
      <4> HIDE DEF n, L
      <4>2. gid \in 0 .. L * n - 1
        BY <3>1, <4>1
      <4> QED BY <1>2, <4>2, InRow
    <3>4. CASE conf.mapping = "linear"
      <4>1. d = gid \div L
        BY <1>4, <2>2, <3>4 DEF lp_map
      <4>2. d \in Rank
        BY <1>2, <3>2, <4>1
      <4>3. i = gid - d * L
        BY <1>4, <2>2, <3>4, <4>2 DEF tw_getlocal_lp
      <4> HIDE DEF d, i, L
      <4>4. i = gid % L /\ d * L + i = gid
        BY <1>2, <1>5, <3>2, <4>1, <4>2, <4>3
      <4> HIDE DEF k
      <4>5. i \in 0 .. L - 1 /\ i \in 0 .. L + (IF conf.analysis THEN k ELSE 0) - 1
        BY <1>2, <3>2, <4>4
      <4>6. i \in DOMAIN Tables(d).gid
        BY <1>4, <4>2, <4>5, GidTable DEF k
      <4>7. Tables(d).gid[i] = d * L + i
        BY <1>4, <3>4, <4>2, <4>5, GidTable
      <4> QED BY <4>2, <4>4, <4>6, <4>7
    <3>5. CASE conf.mapping # "linear"
      <4>1. d = gid % n /\ d \in Rank
        BY <1>2, <1>4, <2>2, <3>3, <3>5 DEF lp_map
      <4>2. i = gid \div n
        BY <1>4, <2>2, <3>5, <4>1 DEF tw_getlocal_lp
      <4> HIDE DEF d, i, L, k
      <4>3. i \in 0 .. L - 1 /\ i \in 0 .. L + (IF conf.analysis THEN k ELSE 0) - 1
        <5>1. i \in 0 .. L - 1
          BY <3>3, <4>2 DEF L
        <5> QED BY <1>2, <5>1
      <4>4. d + i * n = gid
        <5>1. gid = i * n + d /\ d \in 0 .. n - 1
          BY <3>3, <4>1, <4>2
        <5> HIDE DEF n
        <5>2. i * n \in Int /\ d \in Int
          BY <1>2, <4>3, <5>1
        <5> QED BY <5>1, <5>2
      <4>5. i \in DOMAIN Tables(d).gid
        BY <1>4, <4>1, <4>3, GidTable DEF k
      <4>6. Tables(d).gid[i] = d + i * n
        BY <1>4, <3>5, <4>1, <4>3, GidTable
      <4> QED BY <4>1, <4>4, <4>5, <4>6
    <3> QED BY <3>4, <3>5
  <2> QED BY <2>1, <2>2
<1> HIDE DEF d, i
<1>7. i \in DOMAIN g_tw_lp[d] /\ g_tw_lp[d][i].gid = gid
  <2>1. g_tw_lp[d] = LpTable(d)
    BY <1>4, <1>6
  <2>2. i \in DOMAIN LpTable(d) /\ LpTable(d)[i].gid = Tables(d).gid[i]
    BY <1>6 DEF LpTable, tw_lp_onkp
  <2> QED BY <1>6, <2>1, <2>2
<1>8. g_tw_lp[d][i].kp < g_tw_nkp[d]
  <2>1. g_tw_lp[d][i].kp \in g_tw_kp[d]
    BY <1>1, <1>6, <1>7 DEF SetupInv
  <2> QED BY <1>4, <1>6, <2>1, KpsBelow
<1> QED BY <1>6, <1>7, <1>8 DEF d, i

\* Where all ranks have as many LPs, and the checks of tw_define_lps and tw_run let
\* them start, whoever sends to an LP of the model or of the analysis reaches the
\* rank that has it, at its place there, on a KP of that rank: for any numbers
\* of ranks, LPs and KPs and both mappings.
THEOREM EveryLpFound ==
  Spec /\ [](Sane /\ EqualLps) => []LpsFound
<1>1. Init => SetupInv /\ TotalInv
  BY SetupInitOK DEF Init
<1>2. (Sane /\ EqualLps) /\ (SetupInv /\ TotalInv) /\ [Next]_vars => (SetupInv /\ TotalInv)'
  BY SetupInvStep, TotalStep
<1>3. (Sane /\ EqualLps) /\ (SetupInv /\ TotalInv) => LpsFound
  BY InvFindsLps
<1> QED BY <1>1, <1>2, <1>3, PTL DEF Spec

-----------------------------------------------------------------------------
\* The LPs of the one rank.
Lps == 0 .. conf.nlp[0] - 1
\* What the check scheduler compares of an LP.
LP == [state : Int, triggered_gvt_hook : Int, rng : {g \in Stream : Valid(g)},
       core_rng : {g \in Stream : Valid(g)}]
\* Events, with the number of their draw for the tie-breaker.
Ev == [ts : Nat, tie : Nat, dest : Lps, src : Lps, n : Int]
\* The states of the one rank: its LPs, pending events, free buffers and GVT hook, and what the event in execution caused.
World ==
  [lp : [Lps -> LP], pq : SUBSET Ev, free : Nat, io_free : {0}, sig_at : [ts : Nat, tie : Nat],
   hooked : Int, caused : SUBSET Ev, aborted : Nat, cev_abort : BOOLEAN]

\* The events in pq were drawn before.
Fresh(w) == \A e \in w.pq : e.n <= w.lp[e.src].core_rng.count

\* The same LPs, events and buffers, and besides the same result of an event.
SameCore(a, b) == a.lp = b.lp /\ a.pq = b.pq /\ a.free = b.free /\ a.io_free = b.io_free
\* The same, with the same events caused and the same number of aborts.
Agree(a, b) == SameCore(a, b) /\ a.caused = b.caused /\ a.aborted = b.aborted

\* A program that one of the two schedulers runs, in a build without RIO's buffers.
Program ==
  /\ conf.nlp[0] \in Nat \ {0} /\ conf.nrng \in Nat \ {0} /\ conf.ncore \in Nat \ {0}
  /\ conf.end \in Nat /\ conf.events \in Nat /\ conf.io_events = 0 /\ conf.rollback_time \in Nat

\* The tie-breaker's stream and the event of a Send.
SendStream(w, src) == rng_gen_val(w.lp[src].core_rng)
\* The event that tw_event_new makes.
SendEvent(w, now, src, dest, offset) ==
  [ts |-> now + offset, tie |-> Unif(SendStream(w, src)), dest |-> dest, src |-> src,
   n |-> w.lp[src].core_rng.count + 1]

\* v is w after a Send from src: the event e is sent or counted.
SentAs(w, src, g, e, v) ==
  /\ Valid(g) /\ g.count = w.lp[src].core_rng.count + 1 /\ e \in Ev /\ v \in World
  /\ v.lp = [w.lp EXCEPT ![src].core_rng = g]
  /\ v.sig_at = w.sig_at /\ v.hooked = w.hooked /\ v.io_free = w.io_free
  /\ \/ /\ e.ts < End
        /\ v.pq = w.pq \cup {e} /\ v.caused = w.caused \cup {e} /\ w.free > 0 /\ v.free = w.free - 1
        /\ v.aborted = w.aborted
     \/ /\ e.ts >= End \/ w.free = 0
        /\ v.pq = w.pq /\ v.caused = w.caused /\ v.free = w.free /\ v.aborted = w.aborted + 1

\* tw_event_new and tw_event_send either send the event or, without a buffer, count an abort.
LEMMA SendIs ==
  ASSUME Program, NEW w \in World, NEW now \in Nat, NEW src \in Lps, NEW dest \in Lps, NEW offset \in Nat
  PROVE  SentAs(w, src, SendStream(w, src), SendEvent(w, now, src, dest, offset),
                Send(w, now, src, dest, offset))
<1> DEFINE g == rng_gen_val(w.lp[src].core_rng)
           e == [ts |-> now + offset, tie |-> Unif(g), dest |-> dest, src |-> src,
                 n |-> w.lp[src].core_rng.count + 1]
           v == Send(w, now, src, dest, offset)
<1>1. w.lp \in [Lps -> LP] /\ w.free \in Nat /\ w.io_free = 0 /\ w.aborted \in Nat /\ w.cev_abort \in BOOLEAN
      /\ w.pq \subseteq Ev /\ w.caused \subseteq Ev
  BY DEF World
<1>2. w.lp[src] \in LP /\ Valid(w.lp[src].core_rng)
  BY <1>1 DEF LP
<1>3. Valid(g) /\ g.count = w.lp[src].core_rng.count + 1
  BY <1>2, Draw
<1>4. Unif(g) \in Nat
  BY <1>3, UnifIn, ProductPositive
<1>5. e \in Ev /\ e.ts \in Nat /\ g \in {h \in Stream : Valid(h)}
  BY <1>3, <1>4 DEF Ev, Valid, Stream
<1> DEFINE lps == [w.lp EXCEPT ![src].core_rng = g]
<1>6. lps \in [Lps -> LP]
  BY <1>1, <1>2, <1>5 DEF LP
<1>7. v = LET w1 == [w EXCEPT !.lp = lps]
          IN  IF e.ts < End /\ w.free > 0
              THEN [w1 EXCEPT !.free = @ - 1, !.pq = @ \cup {e}, !.caused = @ \cup {e}]
              ELSE IF e.ts >= End /\ w.io_free > 0
              THEN [w1 EXCEPT !.aborted = @ + 1, !.io_free = @ - 1, !.caused = @ \cup {e}]
              ELSE [w1 EXCEPT !.aborted = @ + 1, !.cev_abort = @ \/ e.ts < End]
  BY DEF Send
<1> HIDE DEF lps, v
<1>8. ASSUME e.ts < End, w.free > 0 PROVE SentAs(w, src, g, e, v)
  <2>1. v = [w EXCEPT !.lp = lps, !.free = w.free - 1, !.pq = w.pq \cup {e}, !.caused = w.caused \cup {e}]
    BY <1>7, <1>8 DEF World
  <2>2. v \in World
    <3>1. w.pq \cup {e} \in SUBSET Ev /\ w.caused \cup {e} \in SUBSET Ev /\ w.free - 1 \in Nat
      BY <1>1, <1>5, <1>8
    <3> QED BY <1>6, <2>1, <3>1 DEF World
  <2>3. /\ v.lp = lps /\ v.sig_at = w.sig_at /\ v.hooked = w.hooked /\ v.io_free = w.io_free
        /\ v.pq = w.pq \cup {e} /\ v.caused = w.caused \cup {e} /\ v.free = w.free - 1
        /\ v.aborted = w.aborted
    BY <2>1 DEF World
  <2> QED BY <1>3, <1>5, <1>8, <2>2, <2>3 DEF lps, SentAs
<1>9. ASSUME ~(e.ts < End /\ w.free > 0) PROVE SentAs(w, src, g, e, v)
  <2>1. v = [w EXCEPT !.lp = lps, !.aborted = w.aborted + 1, !.cev_abort = w.cev_abort \/ e.ts < End]
    BY <1>1, <1>7, <1>9 DEF World
  <2>2. (w.cev_abort \/ e.ts < End) \in BOOLEAN /\ (e.ts >= End \/ w.free = 0)
    BY <1>1, <1>5, <1>9 DEF Program, End
  <2>3. v \in World
    <3> DEFINE b == w.cev_abort \/ e.ts < End
    <3>1. w.aborted + 1 \in Nat /\ b \in BOOLEAN
      BY <1>1, <2>2
    <3>2. v = [w EXCEPT !.lp = lps, !.aborted = w.aborted + 1, !.cev_abort = b]
      BY <2>1
    <3> HIDE DEF b
    <3> QED BY <1>6, <3>1, <3>2 DEF World
  <2>4. /\ v.lp = lps /\ v.sig_at = w.sig_at /\ v.hooked = w.hooked /\ v.io_free = w.io_free
        /\ v.pq = w.pq /\ v.caused = w.caused /\ v.free = w.free /\ v.aborted = w.aborted + 1
    BY <2>1 DEF World
  <2> QED BY <1>3, <1>5, <2>2, <2>3, <2>4 DEF lps, SentAs
<1>10. g = SendStream(w, src) /\ e = SendEvent(w, now, src, dest, offset)
  BY DEF SendStream, SendEvent
<1> QED BY <1>8, <1>9, <1>10 DEF v

\* A stream after k draws, for k up to two.
Drawn(g, k) ==
  IF k = 0 THEN g ELSE IF k = 1 THEN rng_gen_val(g) ELSE rng_gen_val(rng_gen_val(g))

\* The events of the set cs were sent by an execution of e that started in w.
SentBy(w, e, cs, x) ==
  /\ IsFiniteSet(cs)
  /\ \A c \in cs : /\ c.ts < End /\ e.ts < c.ts /\ c.src = e.dest
                   /\ w.lp[e.dest].core_rng.count < c.n /\ c.n <= x.lp[e.dest].core_rng.count

\* In x the handler of e, started in w, has changed the LP and sent k times.
Mid(w, e, x, k) ==
  LET old == w.lp[e.dest]
      new == x.lp[e.dest]
  IN  /\ x \in World
      /\ x.lp = [w.lp EXCEPT ![e.dest] = new]
      /\ new.state = old.state + 1 /\ new.rng = Drawn(old.rng, 2)
      /\ new.triggered_gvt_hook = old.triggered_gvt_hook
      /\ new.core_rng = Drawn(old.core_rng, k)
      /\ x.sig_at = w.sig_at /\ x.hooked = w.hooked
      /\ SentBy(w, e, x.caused, x)
      /\ x.free + Cardinality(x.caused) = w.free
      /\ Cardinality(x.caused) + x.aborted = k
      /\ x.pq = w.pq \cup x.caused

\* A Send adds one event, or one abort, to what the handler has done.
LEMMA SendMid ==
  ASSUME Program, NEW w \in World, NEW e \in Ev, NEW k \in {0, 1}, NEW x, Mid(w, e, x, k),
         NEW dest \in Lps, NEW offset \in Nat \ {0}
  PROVE  Mid(w, e, Send(x, e.ts, e.dest, dest, offset), k + 1)
<1> DEFINE l == e.dest
           g == SendStream(x, l)
           f == SendEvent(x, e.ts, l, dest, offset)
           y == Send(x, e.ts, l, dest, offset)
           m == x.lp[l].core_rng.count
<1>1. e.ts \in Nat /\ l \in Lps /\ x \in World /\ w.lp \in [Lps -> LP] /\ x.lp \in [Lps -> LP] /\ offset \in Nat
  BY DEF Ev, World, Mid
<1>2. SentAs(x, l, g, f, y)
  BY <1>1, SendIs, Zenon
<1>3. f.ts = e.ts + offset /\ f.src = l /\ f.n = m + 1
  BY <1>2 DEF SendEvent, SentAs
<1>g. g = rng_gen_val(x.lp[l].core_rng)
  BY DEF SendStream
<1> HIDE DEF l, g, f, y
<1>a. /\ g.count = m + 1 /\ y \in World
      /\ y.lp = [x.lp EXCEPT ![l].core_rng = g]
      /\ y.sig_at = x.sig_at /\ y.hooked = x.hooked
      /\ \/ /\ f.ts < End
            /\ y.pq = x.pq \cup {f} /\ y.caused = x.caused \cup {f} /\ y.free = x.free - 1
            /\ y.aborted = x.aborted
         \/ y.pq = x.pq /\ y.caused = x.caused /\ y.free = x.free /\ y.aborted = x.aborted + 1
  BY <1>2 DEF SentAs
<1>4. x.lp[l] \in LP /\ m \in Int /\ w.lp[l] \in LP /\ w.lp[l].core_rng.count \in Int
  BY <1>1 DEF LP, Stream
<1>5. y.lp[l] = [x.lp[l] EXCEPT !.core_rng = g]
  BY <1>1, <1>a
<1>6. /\ y.lp[l].core_rng = g /\ y.lp[l].state = x.lp[l].state /\ y.lp[l].rng = x.lp[l].rng
      /\ y.lp[l].triggered_gvt_hook = x.lp[l].triggered_gvt_hook
  BY <1>4, <1>5 DEF LP
<1>7. y.lp = [w.lp EXCEPT ![l] = y.lp[l]]
  BY <1>1, <1>a, <1>5 DEF Mid, l
<1>8. y.lp[l].core_rng = Drawn(w.lp[l].core_rng, k + 1)
  BY <1>6, <1>g DEF Mid, Drawn, l
<1>9. SentBy(w, e, x.caused, x) /\ IsFiniteSet(x.caused) /\ x.pq = w.pq \cup x.caused
      /\ x.free + Cardinality(x.caused) = w.free /\ Cardinality(x.caused) + x.aborted = k
  BY DEF Mid, SentBy
<1>10. x.free \in Nat /\ x.aborted \in Nat /\ w.free \in Nat
  BY <1>1 DEF World
<1>11. Cardinality(x.caused) \in Nat
  BY <1>9, FS_CardinalityType
<1>12. w.lp[l].core_rng.count <= m
  <2>1. Valid(w.lp[l].core_rng)
    BY <1>4 DEF LP
  <2>2. x.lp[l].core_rng = Drawn(w.lp[l].core_rng, k)
    BY DEF Mid, l
  <2> QED BY <1>4, <2>1, <2>2, Draw DEF Drawn
<1>13. /\ SentBy(w, e, y.caused, y) /\ y.free + Cardinality(y.caused) = w.free
       /\ Cardinality(y.caused) + y.aborted = k + 1 /\ y.pq = w.pq \cup y.caused
  <2>1. CASE y.caused = x.caused \cup {f} /\ f.ts < End /\ y.pq = x.pq \cup {f} /\ y.free = x.free - 1
             /\ y.aborted = x.aborted
    <3>1. f \notin x.caused
      BY <1>3, <1>4, <1>9 DEF SentBy, l
    <3>2. Cardinality(y.caused) = Cardinality(x.caused) + 1 /\ IsFiniteSet(y.caused)
      BY <1>9, <2>1, <3>1, FS_AddElement
    <3>3. SentBy(w, e, y.caused, y)
      <4>1. ASSUME NEW c \in x.caused
            PROVE  c.ts < End /\ e.ts < c.ts /\ c.src = l /\ w.lp[l].core_rng.count < c.n /\ c.n <= m /\ c.n \in Int
        <5>1. c \in Ev
          BY <1>1 DEF World
        <5> QED BY <1>9, <5>1 DEF SentBy, l, Ev
      <4>2. f.ts < End /\ e.ts < f.ts /\ f.src = l /\ w.lp[l].core_rng.count < f.n /\ f.n <= g.count
        BY <1>1, <1>a, <1>3, <1>4, <1>12, <2>1
      <4>3. ASSUME NEW c \in x.caused PROVE c.n <= g.count
        BY <1>a, <1>4, <4>1
      <4> QED BY <1>6, <2>1, <3>2, <4>1, <4>2, <4>3 DEF SentBy, l
    <3> QED BY <1>9, <1>10, <1>11, <2>1, <3>2, <3>3
  <2>2. CASE y.pq = x.pq /\ y.caused = x.caused /\ y.free = x.free /\ y.aborted = x.aborted + 1
    <3>1. ASSUME NEW c \in x.caused PROVE c.n <= g.count
      <4>1. c \in Ev /\ c.n <= m
        BY <1>1, <1>9 DEF World, SentBy, l
      <4> QED BY <1>a, <1>4, <4>1 DEF Ev
    <3>2. SentBy(w, e, y.caused, y)
      BY <1>6, <1>9, <2>2, <3>1 DEF SentBy, l
    <3> QED BY <1>9, <1>10, <1>11, <2>2, <3>2
  <2> QED BY <1>a, <2>1, <2>2
<1> QED BY <1>a, <1>6, <1>7, <1>8, <1>13 DEF Mid, l, y

\* The handler after its two draws.
Begun(w, e) ==
  [w EXCEPT !.caused = {}, !.aborted = 0, !.lp[e.dest] = [w.lp[e.dest] EXCEPT !.rng = Drawn(w.lp[e.dest].rng, 2),
                                                                      !.state = w.lp[e.dest].state + 1]]

\* Before its Sends a handler has drawn twice from the stream of its LP and changed its state.
LEMMA BegunMid ==
  ASSUME Program, NEW w \in World, NEW e \in Ev
  PROVE  Mid(w, e, Begun(w, e), 0)
<1> DEFINE l == e.dest
           old == w.lp[l]
           new == [old EXCEPT !.rng = Drawn(old.rng, 2), !.state = old.state + 1]
           lps == [w.lp EXCEPT ![l] = new]
           x == Begun(w, e)
<1>1. l \in Lps /\ w.lp \in [Lps -> LP] /\ old \in LP /\ w.free \in Nat /\ w.pq \in SUBSET Ev
  BY DEF Ev, World
<1>2. Valid(old.rng)
  BY <1>1 DEF LP
<1>3. Valid(Drawn(old.rng, 2)) /\ Drawn(old.rng, 2) \in Stream
  BY <1>2, Draw DEF Drawn, Valid
<1> HIDE DEF l
<1>4. new \in LP
  <2>1. Drawn(old.rng, 2) \in {g \in Stream : Valid(g)} /\ old.state + 1 \in Int
    BY <1>1, <1>3 DEF LP
  <2> HIDE DEF old
  <2> QED BY <1>1, <2>1 DEF LP
<1>5. new.state = old.state + 1 /\ new.rng = Drawn(old.rng, 2) /\ new.core_rng = old.core_rng
      /\ new.triggered_gvt_hook = old.triggered_gvt_hook
  BY <1>1 DEF LP
<1>6. x = [w EXCEPT !.caused = {}, !.aborted = 0, !.lp = lps]
  <2> DEFINE y == [w EXCEPT !.caused = {}, !.aborted = 0]
  <2>1. y.lp = w.lp
    BY DEF World
  <2>2. x = [y EXCEPT !.lp = [y.lp EXCEPT ![l] = new]]
    BY DEF Begun, l
  <2> QED BY <2>1, <2>2
<1> HIDE DEF new
<1>7. lps \in [Lps -> LP] /\ lps[l] = new
  BY <1>1, <1>4
<1>8. x \in World /\ x.lp = lps /\ x.caused = {} /\ x.aborted = 0 /\ x.pq = w.pq /\ x.free = w.free
      /\ x.sig_at = w.sig_at /\ x.hooked = w.hooked
  <2> HIDE DEF lps, x
  <2>1. {} \in SUBSET Ev /\ 0 \in Nat
    OBVIOUS
  <2> QED BY <1>6, <1>7, <2>1 DEF World
<1>9. IsFiniteSet({}) /\ Cardinality({}) = 0
  BY FS_EmptySet
<1>10. SentBy(w, e, x.caused, x)
  BY <1>8, <1>9 DEF SentBy
<1>11. Drawn(old.core_rng, 0) = old.core_rng
  BY DEF Drawn
<1>12. x.lp[l] = new /\ x.lp = [w.lp EXCEPT ![l] = x.lp[l]]
  BY <1>7, <1>8
<1>13. x.free + Cardinality(x.caused) = w.free /\ Cardinality(x.caused) + x.aborted = 0 /\ x.pq = w.pq \cup x.caused
  BY <1>1, <1>8, <1>9
<1> HIDE DEF x
<1> QED BY <1>5, <1>8, <1>10, <1>11, <1>12, <1>13 DEF Mid, l, x

\* The two draws of the handler of LP lp, and the events it sends.
Target(lp) == tw_rand_integer(lp.rng, 0, conf.nlp[0] - 1)
\* The delay that the handler draws.
Offset(lp) == tw_rand_integer(Target(lp).g, 1, 2)
\* The handler after its first Send, after its second, and after those that it makes.
Once(w, e) ==
  Send(Begun(w, e), e.ts, e.dest, Target(w.lp[e.dest]).val, Offset(w.lp[e.dest]).val)
Twice(w, e) == Send(Once(w, e), e.ts, e.dest, e.dest, 2)
Sent(w, e) == IF w.lp[e.dest].state % 2 = 0 THEN Twice(w, e) ELSE Once(w, e)

\* The handler as its Sends and the call of the GVT hook.
LEMMA EventParts ==
  ASSUME Program, NEW w \in World, NEW e \in Ev
  PROVE  /\ Mid(w, e, Begun(w, e), 0) /\ Mid(w, e, Once(w, e), 1) /\ Mid(w, e, Twice(w, e), 2)
         /\ Event(w, e) = IF e.ts % 2 = 1 THEN tw_trigger_gvt_hook_now(Sent(w, e), e) ELSE Sent(w, e)
<1> DEFINE l == e.dest
           to == Target(w.lp[l])
           in == Offset(w.lp[l])
           w0 == [w EXCEPT !.caused = {}, !.aborted = 0,
                           !.lp[l] = [w.lp[l] EXCEPT !.rng = in.g, !.state = w.lp[l].state + 1]]
           w1 == Send(w0, e.ts, l, to.val, in.val)
           w2 == Send(w1, e.ts, l, l, 2)
<1>1. l \in Lps /\ w.lp \in [Lps -> LP] /\ w.lp[l] \in LP
  BY DEF Ev, World
<1>2. Valid(w.lp[l].rng)
  BY <1>1 DEF LP
<1>3. conf.nlp[0] - 1 \in Int /\ 0 <= conf.nlp[0] - 1
  BY DEF Program
<1>4. to.g = rng_gen_val(w.lp[l].rng) /\ to.val \in Lps
  BY <1>2, <1>3, IntegerIn DEF Lps, Target
<1>5. Valid(to.g)
  BY <1>2, <1>4, Draw
<1>6. in.g = Drawn(w.lp[l].rng, 2) /\ in.val \in 1 .. 2
  BY <1>4, <1>5, IntegerIn DEF Drawn, Offset
<1>7. Event(w, e) = LET v == IF w.lp[l].state % 2 = 0 THEN w2 ELSE w1
                    IN  IF e.ts % 2 = 1 THEN tw_trigger_gvt_hook_now(v, e) ELSE v
  BY DEF Event, Target, Offset
<1>8. w0 = Begun(w, e)
  BY <1>6 DEF Begun
<1> HIDE DEF w0, to, in
<1>9. w1 = Once(w, e) /\ w2 = Twice(w, e)
  BY <1>8 DEF Once, Twice, to, in
<1>10. Mid(w, e, Begun(w, e), 0)
  BY BegunMid
<1>11. Mid(w, e, Once(w, e), 0 + 1)
  <2>1. in.val \in Nat \ {0} /\ 0 \in {0, 1}
    BY <1>6
  <2> QED BY <1>4, <1>10, <2>1, SendMid, Zenon DEF Once, to, in
<1>12. Mid(w, e, Twice(w, e), 1 + 1)
  <2>1. 2 \in Nat \ {0} /\ 1 \in {0, 1} /\ 0 + 1 = 1
    OBVIOUS
  <2>2. Mid(w, e, Once(w, e), 1)
    BY <1>11, <2>1
  <2> QED BY <1>1, <2>1, <2>2, SendMid, Zenon DEF Twice
<1>13. 0 + 1 = 1 /\ 1 + 1 = 2
  OBVIOUS
<1>14. Mid(w, e, Once(w, e), 1) /\ Mid(w, e, Twice(w, e), 2)
  BY <1>11, <1>12, <1>13
<1>15. (IF w.lp[l].state % 2 = 0 THEN w2 ELSE w1) = Sent(w, e)
  BY <1>9 DEF Sent
<1> HIDE DEF w1, w2
<1>16. Event(w, e) = IF e.ts % 2 = 1 THEN tw_trigger_gvt_hook_now(Sent(w, e), e) ELSE Sent(w, e)
  BY <1>7, <1>15
<1> QED BY <1>10, <1>14, <1>16

\* It makes one Send or two.
LEMMA EventMid ==
  ASSUME Program, NEW w \in World, NEW e \in Ev
  PROVE  \E k \in {1, 2} : \E x :
           Mid(w, e, x, k) /\ Event(w, e) = IF e.ts % 2 = 1 THEN tw_trigger_gvt_hook_now(x, e) ELSE x
  BY EventParts DEF Sent

\* What the execution of an event comes to.
Effects(w, e, v) ==
  LET old == w.lp[e.dest]
      new == v.lp[e.dest]
      hook == e.ts % 2 = 1 /\ conf.synch # "debug"
  IN  /\ v \in World /\ Fresh(v)
      /\ v.lp = [w.lp EXCEPT ![e.dest] = new]
      /\ new.state = old.state + 1 /\ new.rng = Drawn(old.rng, 2)
      /\ new.triggered_gvt_hook = old.triggered_gvt_hook + (IF hook THEN 1 ELSE 0)
      /\ \E k \in {1, 2} : /\ new.core_rng = Drawn(old.core_rng, k)
                           /\ Cardinality(v.caused) + v.aborted = k
      /\ v.sig_at = (IF hook THEN [ts |-> e.ts, tie |-> e.tie] ELSE w.sig_at)
      /\ v.hooked = w.hooked
      /\ IsFiniteSet(v.caused) /\ v.free + Cardinality(v.caused) = w.free
      /\ v.pq = w.pq \cup v.caused /\ v.caused \cap w.pq = {}
      /\ \A c \in v.caused : c.ts < End /\ e.ts < c.ts

\* All that an event's execution changes, as tw_event_rollback has to undo it.
LEMMA EventIs ==
  ASSUME Program, NEW w \in World, Fresh(w), NEW e \in Ev
  PROVE  Effects(w, e, Event(w, e))
<1> DEFINE l == e.dest
           v == Event(w, e)
           hook == e.ts % 2 = 1 /\ conf.synch # "debug"
           sig == [ts |-> e.ts, tie |-> e.tie]
<1>1. PICK k \in {1, 2} : \E x :
        Mid(w, e, x, k) /\ v = IF e.ts % 2 = 1 THEN tw_trigger_gvt_hook_now(x, e) ELSE x
  BY EventMid
<1>p. PICK x : Mid(w, e, x, k) /\ v = IF e.ts % 2 = 1 THEN tw_trigger_gvt_hook_now(x, e) ELSE x
  BY <1>1
<1>2. l \in Lps /\ w.lp \in [Lps -> LP] /\ x \in World /\ x.lp \in [Lps -> LP] /\ x.lp[l] \in LP /\ w.lp[l] \in LP
      /\ e.ts \in Nat /\ e.tie \in Nat /\ w.pq \subseteq Ev /\ x.pq \subseteq Ev
  BY <1>p DEF Mid, Ev, World
<1>3. v = IF hook THEN [x EXCEPT !.sig_at = sig, !.lp[l].triggered_gvt_hook = @ + 1] ELSE x
  BY <1>p DEF tw_trigger_gvt_hook_now
<1> DEFINE new == [x.lp[l] EXCEPT !.triggered_gvt_hook = @ + (IF hook THEN 1 ELSE 0)]
           lps == [x.lp EXCEPT ![l] = new]
           s == IF hook THEN sig ELSE w.sig_at
<1> HIDE DEF l, v
<1>4. /\ new \in LP /\ new.state = x.lp[l].state /\ new.rng = x.lp[l].rng /\ new.core_rng = x.lp[l].core_rng
      /\ new.triggered_gvt_hook = x.lp[l].triggered_gvt_hook + (IF hook THEN 1 ELSE 0)
  BY <1>2 DEF LP
<1>5. v = [x EXCEPT !.sig_at = s, !.lp = lps]
  <2>1. CASE hook
    BY <1>2, <1>3, <2>1 DEF World, LP
  <2>2. CASE ~hook
    <3>1. x.lp[l].triggered_gvt_hook + 0 = x.lp[l].triggered_gvt_hook
      BY <1>2 DEF LP
    <3>2. new = x.lp[l]
      BY <1>2, <2>2, <3>1 DEF LP
    <3>3. lps = x.lp
      BY <1>2, <3>2
    <3>4. x.sig_at = w.sig_at
      BY <1>p DEF Mid
    <3> QED BY <1>2, <1>3, <2>2, <3>3, <3>4 DEF World
  <2> QED BY <2>1, <2>2
<1> HIDE DEF new
<1>6. lps \in [Lps -> LP] /\ lps[l] = new /\ s \in [ts : Nat, tie : Nat]
  BY <1>2, <1>4 DEF World
<1>7. lps = [w.lp EXCEPT ![l] = new]
  BY <1>p, <1>2 DEF Mid, l
<1> HIDE DEF lps, s
<1>8. /\ v \in World /\ v.lp = lps /\ v.sig_at = s /\ v.hooked = x.hooked /\ v.caused = x.caused
      /\ v.aborted = x.aborted /\ v.free = x.free /\ v.pq = x.pq
  BY <1>2, <1>5, <1>6 DEF World
<1>9. /\ new.state = w.lp[l].state + 1 /\ new.rng = Drawn(w.lp[l].rng, 2)
      /\ new.triggered_gvt_hook = w.lp[l].triggered_gvt_hook + (IF hook THEN 1 ELSE 0)
      /\ new.core_rng = Drawn(w.lp[l].core_rng, k) /\ Cardinality(v.caused) + v.aborted = k
      /\ v.hooked = w.hooked /\ v.free + Cardinality(v.caused) = w.free /\ v.pq = w.pq \cup v.caused
      /\ SentBy(w, e, v.caused, x)
  BY <1>p, <1>4, <1>8 DEF Mid, l
<1>10. /\ IsFiniteSet(v.caused)
       /\ \A c \in v.caused : /\ c.ts < End /\ e.ts < c.ts /\ c.src = l
                              /\ w.lp[l].core_rng.count < c.n /\ c.n <= new.core_rng.count
  BY <1>4, <1>9 DEF SentBy, l
<1>11. w.lp[l].core_rng.count <= new.core_rng.count /\ w.lp[l].core_rng.count \in Int /\ new.core_rng.count \in Int
  <2>1. Valid(w.lp[l].core_rng) /\ w.lp[l].core_rng.count \in Int
    BY <1>2 DEF LP, Stream
  <2> QED BY <1>9, <2>1, Draw DEF Drawn
<1>12. v.caused \cap w.pq = {}
  <2>1. ASSUME NEW c \in v.caused, c \in w.pq
        PROVE  FALSE
    <3>1. c.n \in Int /\ c.n <= w.lp[l].core_rng.count
      BY <1>2, <1>10, <2>1 DEF Fresh, Ev
    <3> QED BY <1>10, <1>11, <2>1, <3>1
  <2> QED BY <2>1
<1>13. Fresh(v)
  <2>1. SUFFICES ASSUME NEW c \in v.pq PROVE c.n <= lps[c.src].core_rng.count
    BY <1>8 DEF Fresh
  <2>2. CASE c \in v.caused
    BY <1>6, <1>10, <2>2
  <2>3. CASE c \in w.pq
    <3>1. c.n \in Int /\ c.src \in Lps /\ c.n <= w.lp[c.src].core_rng.count
      BY <1>2, <2>3 DEF Fresh, Ev
    <3>2. CASE c.src = l
      BY <1>6, <1>11, <3>1, <3>2
    <3>3. CASE c.src # l
      BY <1>2, <1>7, <3>1, <3>3
    <3> QED BY <3>2, <3>3
  <2> QED BY <1>9, <2>2, <2>3
<1>14. v.lp[l] = new /\ v.lp = [w.lp EXCEPT ![l] = v.lp[l]]
  BY <1>6, <1>7, <1>8
<1> QED BY <1>8, <1>9, <1>10, <1>12, <1>13, <1>14 DEF Effects, l, v, s

-----------------------------------------------------------------------------
\* An LP after tw_event_rollback of e with n tie-breakers, and the time of the hook.
Unhooks(e) == e.ts % 2 = 1 /\ conf.wrong # "hook"
\* The LP after the rollback of e, with n draws from its core stream taken back.
BackLp(lp, e, n) ==
  [state |-> IF conf.wrong = "state" THEN lp.state ELSE lp.state - 1,
   triggered_gvt_hook |-> IF Unhooks(e) THEN lp.triggered_gvt_hook - 1 ELSE lp.triggered_gvt_hook,
   rng |-> TakenBack(lp.rng, IF conf.wrong = "rng" THEN 1 ELSE 2),
   core_rng |-> TakenBack(lp.core_rng, n)]

\* An LP is the record of its fields.
LEMMA LpRecord ==
  ASSUME NEW lp \in LP
  PROVE  lp = [state |-> lp.state, triggered_gvt_hook |-> lp.triggered_gvt_hook,
               rng |-> lp.rng, core_rng |-> lp.core_rng]
<1> DEFINE S == {g \in Stream : Valid(g)}
<1>1. lp \in [state : Int, triggered_gvt_hook : Int, rng : S, core_rng : S]
  BY DEF LP
<1> HIDE DEF S
<1> QED BY <1>1

\* Of the events of cs, those in RIO's buffers.
PastEnd(cs) == {c \in cs : c.ts >= End}

\* The state after tw_event_rollback.
RolledBack(w, e, cs, n) ==
  [w EXCEPT !.lp = [w.lp EXCEPT ![e.dest] = BackLp(w.lp[e.dest], e, Cardinality(cs) + n)],
            !.pq = w.pq \ cs, !.free = w.free + Cardinality(cs \cap w.pq),
            !.io_free = w.io_free + Cardinality(PastEnd(cs)),
            !.sig_at = IF Unhooks(e) THEN MaxSig ELSE w.sig_at,
            !.caused = {}, !.aborted = 0]

\* tw_event_rollback, field by field.
LEMMA RollbackIs ==
  ASSUME NEW w \in World, NEW e \in Ev, NEW cs, NEW n
  PROVE  tw_event_rollback(w, e, cs, n) = RolledBack(w, e, cs, n)
<1> DEFINE l == e.dest
           lp == w.lp[l]
           s1 == IF conf.wrong = "state" THEN lp.state ELSE lp.state - 1
           r1 == TakenBack(lp.rng, IF conf.wrong = "rng" THEN 1 ELSE 2)
           one == [lp EXCEPT !.rng = r1, !.state = s1]
           w1 == [w EXCEPT !.lp[l] = one]
           t2 == IF Unhooks(e) THEN lp.triggered_gvt_hook - 1 ELSE lp.triggered_gvt_hook
           s2 == IF Unhooks(e) THEN MaxSig ELSE w.sig_at
           two == [state |-> s1, triggered_gvt_hook |-> t2, rng |-> r1, core_rng |-> lp.core_rng]
           c3 == TakenBack(lp.core_rng, Cardinality(cs) + n)
           three == [state |-> s1, triggered_gvt_hook |-> t2, rng |-> r1, core_rng |-> c3]
           rev == Revent(w, e)
           f4 == w.free + Cardinality(cs \cap w.pq)
           i4 == w.io_free + Cardinality(PastEnd(cs))
<1>1. l \in Lps /\ w.lp \in [Lps -> LP] /\ lp \in LP
  BY DEF Ev, World
<1>2. rev = IF Unhooks(e) THEN [w1 EXCEPT !.sig_at = MaxSig, !.lp[l].triggered_gvt_hook = @ - 1] ELSE w1
  BY DEF Revent, tw_trigger_gvt_hook_now_rev, Unhooks
<1> HIDE DEF s1, r1, l
<1>3. one = [state |-> s1, triggered_gvt_hook |-> lp.triggered_gvt_hook, rng |-> r1, core_rng |-> lp.core_rng]
  <2>1. lp = [state |-> lp.state, triggered_gvt_hook |-> lp.triggered_gvt_hook,
              rng |-> lp.rng, core_rng |-> lp.core_rng]
    BY <1>1, LpRecord
  <2>2. PICK a, b, c, d : lp = [state |-> a, triggered_gvt_hook |-> b, rng |-> c, core_rng |-> d]
    BY <2>1
  <2>3. one = [[state |-> a, triggered_gvt_hook |-> b, rng |-> c, core_rng |-> d] EXCEPT !.rng = r1, !.state = s1]
    BY <2>2
  <2>4. lp.triggered_gvt_hook = b /\ lp.core_rng = d
    BY <2>2
  <2> HIDE DEF lp, one
  <2> QED BY <2>3, <2>4
<1> HIDE DEF one
<1>4. w1.lp = [w.lp EXCEPT ![l] = one] /\ w1.lp[l] = one /\ w1.sig_at = w.sig_at
  BY <1>1 DEF World
<1>5. rev = [w EXCEPT !.lp = [w.lp EXCEPT ![l] = two], !.sig_at = s2]
  <2>1. CASE Unhooks(e)
    <3>1. rev = [w1 EXCEPT !.sig_at = MaxSig, !.lp = [w1.lp EXCEPT ![l] = [w1.lp[l] EXCEPT !.triggered_gvt_hook = w1.lp[l].triggered_gvt_hook - 1]]]
      BY <1>2, <2>1
    <3>2. [one EXCEPT !.triggered_gvt_hook = one.triggered_gvt_hook - 1] = two
      BY <1>3, <2>1
    <3>3. rev = [w1 EXCEPT !.sig_at = MaxSig, !.lp = [w1.lp EXCEPT ![l] = two]]
      BY <1>4, <3>1, <3>2
    <3> HIDE DEF two
    <3>4. [w1.lp EXCEPT ![l] = two] = [w.lp EXCEPT ![l] = two]
      BY <1>1, <1>4
    <3>5. rev = [w1 EXCEPT !.sig_at = MaxSig, !.lp = [w.lp EXCEPT ![l] = two]]
      BY <3>3, <3>4
    <3> QED BY <2>1, <3>5 DEF World
  <2>2. CASE ~Unhooks(e)
    <3>1. one = two
      BY <1>3, <2>2
    <3>2. rev = [w EXCEPT !.lp = [w.lp EXCEPT ![l] = two]]
      BY <1>2, <2>2, <3>1
    <3> HIDE DEF two
    <3> QED BY <2>2, <3>2 DEF World
  <2> QED BY <2>1, <2>2
<1>6. tw_event_rollback(w, e, cs, n) =
        [rev EXCEPT !.lp = [rev.lp EXCEPT ![l] = [rev.lp[l] EXCEPT !.core_rng = TakenBack(rev.lp[l].core_rng, Cardinality(cs) + n)]],
                    !.pq = rev.pq \ cs, !.free = rev.free + Cardinality(cs \cap w.pq),
                    !.io_free = rev.io_free + Cardinality(PastEnd(cs)),
                    !.caused = {}, !.aborted = 0]
  BY DEF tw_event_rollback, PastEnd, l
<1>7. [two EXCEPT !.core_rng = TakenBack(two.core_rng, Cardinality(cs) + n)] = three
  OBVIOUS
<1> HIDE DEF rev, two, s2
<1>8. rev.lp = [w.lp EXCEPT ![l] = two] /\ rev.lp[l] = two /\ rev.pq = w.pq /\ rev.free = w.free /\ rev.io_free = w.io_free
  BY <1>1, <1>5 DEF World
<1>9. [rev.lp EXCEPT ![l] = three] = [w.lp EXCEPT ![l] = three]
  BY <1>1, <1>8
<1> HIDE DEF three, f4, i4
<1>10. tw_event_rollback(w, e, cs, n) =
         [rev EXCEPT !.lp = [w.lp EXCEPT ![l] = three],
                     !.pq = w.pq \ cs, !.free = f4, !.io_free = i4, !.caused = {}, !.aborted = 0]
  BY <1>6, <1>7, <1>8, <1>9 DEF f4, i4
<1> DEFINE lps4 == [w.lp EXCEPT ![l] = three]
           lps2 == [w.lp EXCEPT ![l] = two]
           pq4 == w.pq \ cs
<1> HIDE DEF lps4, lps2, pq4
<1>11. tw_event_rollback(w, e, cs, n) =
         [[w EXCEPT !.lp = lps2, !.sig_at = s2] EXCEPT !.lp = lps4, !.pq = pq4, !.free = f4, !.io_free = i4, !.caused = {}, !.aborted = 0]
  BY <1>5, <1>10 DEF lps4, lps2, pq4
<1>12. tw_event_rollback(w, e, cs, n) =
         [w EXCEPT !.lp = lps4, !.pq = pq4, !.free = f4, !.io_free = i4, !.sig_at = s2, !.caused = {}, !.aborted = 0]
  BY <1>11 DEF World
<1>13. three = BackLp(lp, e, Cardinality(cs) + n)
  BY DEF BackLp, three, two, s1, r1
<1> QED BY <1>12, <1>13 DEF RolledBack, lps4, pq4, f4, i4, s2, l

\* The same but for the calls of the hook.
SameLp(a, b) == a.state = b.state /\ a.rng = b.rng /\ a.core_rng = b.core_rng
\* The same up to what a reverse handler may leave: the triggers of the hook.
Like(a, b) ==
  /\ a.pq = b.pq /\ a.free = b.free /\ a.hooked = b.hooked
  /\ \A k \in Lps : SameLp(a.lp[k], b.lp[k])

\* x is u after the rollback of e, which had been executed in w.
UndoneAs(w, e, u, x) ==
  /\ x \in World /\ x.pq = w.pq /\ x.free = w.free /\ x.hooked = w.hooked
  /\ x.caused = {} /\ x.aborted = 0 /\ x.cev_abort = u.cev_abort
  /\ x.sig_at = IF Unhooks(e) THEN MaxSig ELSE u.sig_at
  /\ \A k \in Lps \ {e.dest} : x.lp[k] = u.lp[k]
  /\ LET old == w.lp[e.dest]
         new == x.lp[e.dest]
         t == u.lp[e.dest].triggered_gvt_hook
     IN  /\ new.state = IF conf.wrong = "state" THEN old.state + 1 ELSE old.state
         /\ new.rng = IF conf.wrong = "rng" THEN rng_gen_val(old.rng) ELSE old.rng
         /\ new.core_rng = old.core_rng
         /\ new.triggered_gvt_hook = IF Unhooks(e) THEN t - 1 ELSE t

\* Draws are taken back one by one.
LEMMA TakenBackIs ==
  ASSUME NEW g, Valid(g)
  PROVE  /\ TakenBack(Drawn(g, 1), 1) = g /\ TakenBack(Drawn(g, 2), 2) = g
         /\ TakenBack(Drawn(g, 2), 1) = rng_gen_val(g)
<1> DEFINE h == rng_gen_val(g)
<1>1. Valid(h) /\ Drawn(g, 1) = h /\ Drawn(g, 2) = rng_gen_val(h)
  BY Draw DEF Drawn
<1>2. rng_gen_reverse_val(h) = g /\ rng_gen_reverse_val(rng_gen_val(h)) = h
  BY <1>1, DrawTakenBack
<1> HIDE DEF h
<1>3. TakenBack(h, 1) = g
  BY <1>2, TakeBackOne
<1>4. TakenBack(rng_gen_val(h), 1) = h
  BY <1>2, TakeBackOne
<1>5. TakenBack(rng_gen_val(h), 2) = g
  BY <1>2, TakeBackTwo
<1> QED BY <1>1, <1>3, <1>4, <1>5 DEF h

\* tw_event_rollback undoes an event in a state like the one the event left.
LEMMA Undone ==
  ASSUME Program, NEW w \in World, NEW e \in Ev, NEW v, Effects(w, e, v), NEW u \in World, Like(u, v)
  PROVE  UndoneAs(w, e, u, tw_event_rollback(u, e, v.caused, v.aborted))
<1> DEFINE l == e.dest
           old == w.lp[l]
           b == BackLp(u.lp[l], e, Cardinality(v.caused) + v.aborted)
           lps == [u.lp EXCEPT ![l] = b]
           sig == IF Unhooks(e) THEN MaxSig ELSE u.sig_at
           x == tw_event_rollback(u, e, v.caused, v.aborted)
<1>1. /\ l \in Lps /\ w.lp \in [Lps -> LP] /\ old \in LP /\ u.lp \in [Lps -> LP] /\ u.lp[l] \in LP
      /\ v \in World /\ v.caused \subseteq Ev
      /\ Valid(old.rng) /\ Valid(old.core_rng) /\ u.sig_at \in [ts : Nat, tie : Nat] /\ w.pq \subseteq Ev
      /\ w.free \in Nat /\ u.io_free = 0
  BY DEF Ev, World, LP, Effects
<1>2. x = [u EXCEPT !.lp = lps, !.pq = u.pq \ v.caused, !.free = u.free + Cardinality(v.caused \cap u.pq),
                    !.io_free = u.io_free + Cardinality(PastEnd(v.caused)),
                    !.sig_at = sig, !.caused = {}, !.aborted = 0]
  <2>1. x = RolledBack(u, e, v.caused, v.aborted)
    BY RollbackIs, Zenon
  <2> HIDE DEF x
  <2> QED BY <2>1 DEF RolledBack
<1> HIDE DEF x
<1>3. u.pq \ v.caused = w.pq
  BY DEF Like, Effects
<1>4. v.caused \cap u.pq = v.caused /\ u.free + Cardinality(v.caused) = w.free
  BY DEF Like, Effects
<1>5. PastEnd(v.caused) = {}
  <2>1. ASSUME NEW c \in v.caused PROVE ~(c.ts >= End)
    <3>1. c.ts \in Nat /\ End \in Nat /\ c.ts < End
      BY <1>1 DEF Effects, Ev, Program, End
    <3> QED BY <3>1
  <2> QED BY <2>1 DEF PastEnd
<1>6. u.io_free + Cardinality(PastEnd(v.caused)) = 0
  BY <1>1, <1>5, FS_EmptySet
<1>7. x = [u EXCEPT !.lp = lps, !.pq = w.pq, !.free = w.free, !.io_free = 0, !.sig_at = sig, !.caused = {}, !.aborted = 0]
  BY <1>2, <1>3, <1>4, <1>6
<1>8. PICK k \in {1, 2} : u.lp[l].core_rng = Drawn(old.core_rng, k) /\ Cardinality(v.caused) + v.aborted = k
  BY <1>1 DEF Like, SameLp, Effects
<1>9. u.lp[l].rng = Drawn(old.rng, 2) /\ u.lp[l].state = old.state + 1
  BY <1>1 DEF Like, SameLp, Effects
<1>10. b.core_rng = old.core_rng
  <2>1. b.core_rng = TakenBack(Drawn(old.core_rng, k), k)
    BY <1>8 DEF BackLp
  <2> HIDE DEF b
  <2> QED BY <1>1, <2>1, TakenBackIs
<1>11. b.rng = IF conf.wrong = "rng" THEN rng_gen_val(old.rng) ELSE old.rng
  <2>1. b.rng = TakenBack(Drawn(old.rng, 2), IF conf.wrong = "rng" THEN 1 ELSE 2)
    BY <1>9 DEF BackLp
  <2> HIDE DEF b
  <2> QED BY <1>1, <2>1, TakenBackIs
<1>12. b.state = IF conf.wrong = "state" THEN old.state + 1 ELSE old.state
  <2>1. old.state \in Int
    BY <1>1 DEF LP
  <2> QED BY <1>9, <2>1 DEF BackLp
<1> DEFINE t == u.lp[l].triggered_gvt_hook
<1>13. b.triggered_gvt_hook = (IF Unhooks(e) THEN t - 1 ELSE t) /\ t \in Int
  BY <1>1 DEF BackLp, LP
<1>14. b \in LP
  <2>1. b.state \in Int /\ b.triggered_gvt_hook \in Int /\ Valid(b.rng) /\ Valid(b.core_rng)
    <3>1. old.state \in Int
      BY <1>1 DEF LP
    <3>2. Valid(rng_gen_val(old.rng))
      BY <1>1, Draw
    <3> HIDE DEF b, old, t
    <3> QED BY <1>1, <1>10, <1>11, <1>12, <1>13, <3>1, <3>2
  <2>2. b = [state |-> b.state, triggered_gvt_hook |-> b.triggered_gvt_hook, rng |-> b.rng, core_rng |-> b.core_rng]
    BY DEF BackLp
  <2> HIDE DEF b
  <2>3. b.rng \in {g \in Stream : Valid(g)} /\ b.core_rng \in {g \in Stream : Valid(g)}
    BY <2>1 DEF Valid
  <2> QED BY <2>1, <2>2, <2>3 DEF LP
<1> HIDE DEF b
<1>15. lps \in [Lps -> LP] /\ lps[l] = b /\ (\A j \in Lps \ {l} : lps[j] = u.lp[j]) /\ sig \in [ts : Nat, tie : Nat]
  BY <1>1, <1>14 DEF MaxSig, Program, End
<1> HIDE DEF lps, sig, l
<1>16. /\ x \in World /\ x.lp = lps /\ x.pq = w.pq /\ x.free = w.free /\ x.sig_at = sig /\ x.caused = {}
       /\ x.aborted = 0 /\ x.hooked = u.hooked /\ x.cev_abort = u.cev_abort
  <2>1. {} \in SUBSET Ev /\ w.pq \in SUBSET Ev /\ 0 \in Nat /\ 0 \in {0}
    BY <1>1
  <2> QED BY <1>1, <1>7, <1>15, <2>1 DEF World
<1>17. u.hooked = w.hooked
  BY DEF Like, Effects
<1> QED BY <1>10, <1>11, <1>12, <1>13, <1>15, <1>16, <1>17 DEF UndoneAs, l, sig, x

\* Where the hook stands matters to no Send.
LEMMA SendSig ==
  ASSUME NEW w \in World, NEW sig, NEW now, NEW src, NEW dest, NEW offset
  PROVE  Send([w EXCEPT !.sig_at = sig], now, src, dest, offset) =
           [Send(w, now, src, dest, offset) EXCEPT !.sig_at = sig]
<1> DEFINE u == [w EXCEPT !.sig_at = sig]
           g == rng_gen_val(w.lp[src].core_rng)
           e == [ts |-> now + offset, tie |-> Unif(g), dest |-> dest, src |-> src,
                 n |-> w.lp[src].core_rng.count + 1]
           lps == [w.lp EXCEPT ![src].core_rng = g]
<1>1. u.lp = w.lp /\ u.free = w.free /\ u.io_free = w.io_free /\ u.pq = w.pq /\ u.caused = w.caused
      /\ u.aborted = w.aborted /\ u.cev_abort = w.cev_abort
  BY DEF World
<1>2. Send(w, now, src, dest, offset) =
        IF e.ts < End /\ w.free > 0
        THEN [w EXCEPT !.lp = lps, !.free = w.free - 1, !.pq = w.pq \cup {e}, !.caused = w.caused \cup {e}]
        ELSE IF e.ts >= End /\ w.io_free > 0
        THEN [w EXCEPT !.lp = lps, !.aborted = w.aborted + 1, !.io_free = w.io_free - 1, !.caused = w.caused \cup {e}]
        ELSE [w EXCEPT !.lp = lps, !.aborted = w.aborted + 1, !.cev_abort = w.cev_abort \/ e.ts < End]
  <2> HIDE DEF lps, e
  <2>1. Send(w, now, src, dest, offset) =
          LET w1 == [w EXCEPT !.lp = lps]
          IN  IF e.ts < End /\ w.free > 0
              THEN [w1 EXCEPT !.free = w1.free - 1, !.pq = w1.pq \cup {e}, !.caused = w1.caused \cup {e}]
              ELSE IF e.ts >= End /\ w.io_free > 0
              THEN [w1 EXCEPT !.aborted = w1.aborted + 1, !.io_free = w1.io_free - 1, !.caused = w1.caused \cup {e}]
              ELSE [w1 EXCEPT !.aborted = w1.aborted + 1, !.cev_abort = w1.cev_abort \/ e.ts < End]
    BY DEF Send, lps, e
  <2>2. LET w1 == [w EXCEPT !.lp = lps]
        IN  w1.free = w.free /\ w1.pq = w.pq /\ w1.caused = w.caused /\ w1.aborted = w.aborted
            /\ w1.io_free = w.io_free /\ w1.cev_abort = w.cev_abort
    BY DEF World
  <2> QED BY <2>1, <2>2
<1>3. Send(u, now, src, dest, offset) =
        IF e.ts < End /\ w.free > 0
        THEN [u EXCEPT !.lp = lps, !.free = w.free - 1, !.pq = w.pq \cup {e}, !.caused = w.caused \cup {e}]
        ELSE IF e.ts >= End /\ w.io_free > 0
        THEN [u EXCEPT !.lp = lps, !.aborted = w.aborted + 1, !.io_free = w.io_free - 1, !.caused = w.caused \cup {e}]
        ELSE [u EXCEPT !.lp = lps, !.aborted = w.aborted + 1, !.cev_abort = w.cev_abort \/ e.ts < End]
  <2>1. Send(u, now, src, dest, offset) =
          LET w1 == [u EXCEPT !.lp = lps]
          IN  IF e.ts < End /\ w.free > 0
              THEN [w1 EXCEPT !.free = w1.free - 1, !.pq = w1.pq \cup {e}, !.caused = w1.caused \cup {e}]
              ELSE IF e.ts >= End /\ w.io_free > 0
              THEN [w1 EXCEPT !.aborted = w1.aborted + 1, !.io_free = w1.io_free - 1, !.caused = w1.caused \cup {e}]
              ELSE [w1 EXCEPT !.aborted = w1.aborted + 1, !.cev_abort = w1.cev_abort \/ e.ts < End]
    <3> HIDE DEF u
    <3> QED BY <1>1 DEF Send
  <2> HIDE DEF lps, e
  <2>2. LET w1 == [u EXCEPT !.lp = lps]
        IN  w1.free = w.free /\ w1.pq = w.pq /\ w1.caused = w.caused /\ w1.aborted = w.aborted
            /\ w1.io_free = w.io_free /\ w1.cev_abort = w.cev_abort
    BY DEF World
  <2> QED BY <2>1, <2>2
<1> DEFINE a == w.aborted + 1
           b == w.cev_abort \/ e.ts < End
           f == w.free - 1
           q == w.pq \cup {e}
           c == w.caused \cup {e}
           o == w.io_free - 1
           short == e.ts < End
<1> HIDE DEF lps, e, a, b, f, q, c, o
<1>4. [u EXCEPT !.lp = lps, !.free = f, !.pq = q, !.caused = c] =
        [[w EXCEPT !.lp = lps, !.free = f, !.pq = q, !.caused = c] EXCEPT !.sig_at = sig]
  BY DEF World
<1>5. [u EXCEPT !.lp = lps, !.aborted = a, !.io_free = o, !.caused = c] =
        [[w EXCEPT !.lp = lps, !.aborted = a, !.io_free = o, !.caused = c] EXCEPT !.sig_at = sig]
  BY DEF World
<1>6. [u EXCEPT !.lp = lps, !.aborted = a, !.cev_abort = b] =
        [[w EXCEPT !.lp = lps, !.aborted = a, !.cev_abort = b] EXCEPT !.sig_at = sig]
  BY DEF World
<1>7. CASE e.ts < End /\ w.free > 0
  BY <1>2, <1>3, <1>4, <1>7 DEF f, q, c
<1>8. CASE ~(e.ts < End /\ w.free > 0) /\ e.ts >= End /\ w.io_free > 0
  BY <1>2, <1>3, <1>5, <1>8 DEF a, o, c
<1>9. CASE ~(e.ts < End /\ w.free > 0) /\ ~(e.ts >= End /\ w.io_free > 0)
  BY <1>2, <1>3, <1>6, <1>9 DEF a, b
<1> QED BY <1>7, <1>8, <1>9

\* Executed again where the rollback left the hook, the event has the same result.
LEMMA EventAgain ==
  ASSUME Program, conf.synch # "debug", NEW w \in World, NEW e \in Ev, NEW sig,
         e.ts % 2 = 1 \/ sig = w.sig_at
  PROVE  Event([w EXCEPT !.caused = {}, !.aborted = 0, !.sig_at = sig], e) = Event(w, e)
<1> DEFINE l == e.dest
           u == [w EXCEPT !.caused = {}, !.aborted = 0, !.sig_at = sig]
           lp == w.lp[l]
           to == tw_rand_integer(lp.rng, 0, conf.nlp[0] - 1)
           in == tw_rand_integer(to.g, 1, 2)
           new == [lp EXCEPT !.rng = in.g, !.state = lp.state + 1]
           w0 == Begun(w, e)
           u0 == [u EXCEPT !.caused = {}, !.aborted = 0, !.lp[l] = new]
           u1 == Send(u0, e.ts, l, to.val, in.val)
           u2 == Send(u1, e.ts, l, l, 2)
<1>1. u.lp = w.lp
  BY DEF World
<1>2. Event(u, e) = LET v == IF lp.state % 2 = 0 THEN u2 ELSE u1
                    IN  IF e.ts % 2 = 1 THEN tw_trigger_gvt_hook_now(v, e) ELSE v
  <2> HIDE DEF u
  <2> QED BY <1>1 DEF Event
<1>3. in.g = Drawn(lp.rng, 2)
  <2>1. Valid(lp.rng)
    BY DEF Ev, World, LP
  <2>2. conf.nlp[0] - 1 \in Int /\ 0 <= conf.nlp[0] - 1
    BY DEF Program
  <2>3. to.g = rng_gen_val(lp.rng)
    BY <2>1, <2>2, IntegerIn
  <2>4. Valid(to.g)
    BY <2>1, <2>3, Draw
  <2> QED BY <2>3, <2>4, IntegerIn DEF Drawn
<1>4. u0 = [w0 EXCEPT !.sig_at = sig]
  <2>1. w0 = [w EXCEPT !.caused = {}, !.aborted = 0, !.lp[l] = new]
    BY <1>3 DEF Begun
  <2> HIDE DEF new, w0, l
  <2>2. w0 = [w EXCEPT !.caused = {}, !.aborted = 0, !.lp = [w.lp EXCEPT ![l] = new]]
    BY <2>1 DEF World
  <2>3. u0 = [u EXCEPT !.caused = {}, !.aborted = 0, !.lp = [w.lp EXCEPT ![l] = new]]
    BY <1>1 DEF World
  <2> QED BY <2>2, <2>3 DEF World
<1>5. Mid(w, e, w0, 0) /\ Mid(w, e, Once(w, e), 1) /\ Mid(w, e, Twice(w, e), 2)
      /\ Event(w, e) = IF e.ts % 2 = 1 THEN tw_trigger_gvt_hook_now(Sent(w, e), e) ELSE Sent(w, e)
  BY EventParts
<1>6. w0 \in World /\ Once(w, e) \in World /\ Twice(w, e) \in World
  BY <1>5 DEF Mid
<1> HIDE DEF u, u0, w0
<1>7. u1 = [Once(w, e) EXCEPT !.sig_at = sig]
  <2>1. Once(w, e) = Send(w0, e.ts, l, to.val, in.val)
    BY DEF Once, w0, Target, Offset
  <2> HIDE DEF to, in
  <2> QED BY <1>4, <1>6, <2>1, SendSig
<1> HIDE DEF u1
<1>8. u2 = [Twice(w, e) EXCEPT !.sig_at = sig]
  BY <1>6, <1>7, SendSig DEF Twice
<1> HIDE DEF u2
<1> DEFINE v == Sent(w, e)
           x == IF lp.state % 2 = 0 THEN u2 ELSE u1
<1>9. x = [v EXCEPT !.sig_at = sig] /\ v \in World /\ v.sig_at = w.sig_at
  <2>1. CASE lp.state % 2 = 0
    BY <1>5, <1>6, <1>8, <2>1 DEF Sent, Mid
  <2>2. CASE lp.state % 2 # 0
    BY <1>5, <1>6, <1>7, <2>2 DEF Sent, Mid
  <2> QED BY <2>1, <2>2
<1>10. Event(u, e) = IF e.ts % 2 = 1 THEN tw_trigger_gvt_hook_now(x, e) ELSE x
  BY <1>2
<1> HIDE DEF v, x
<1>11. ASSUME e.ts % 2 = 1 PROVE Event(u, e) = Event(w, e)
  <2>1. tw_trigger_gvt_hook_now(x, e) = tw_trigger_gvt_hook_now(v, e)
    <3>1. x.lp = v.lp
      BY <1>9 DEF World
    <3> DEFINE s == [ts |-> e.ts, tie |-> e.tie]
               lps == [v.lp EXCEPT ![e.dest].triggered_gvt_hook = @ + 1]
    <3>2. tw_trigger_gvt_hook_now(v, e) = [v EXCEPT !.sig_at = s, !.lp = lps]
      BY <1>9 DEF tw_trigger_gvt_hook_now, World
    <3>3. tw_trigger_gvt_hook_now(x, e) = [x EXCEPT !.sig_at = s, !.lp = lps]
      BY <1>9, <3>1 DEF tw_trigger_gvt_hook_now, World
    <3> HIDE DEF s, lps
    <3> QED BY <1>9, <3>2, <3>3 DEF World
  <2> QED BY <1>5, <1>10, <1>11, <2>1 DEF v
<1>12. ASSUME e.ts % 2 # 1 PROVE Event(u, e) = Event(w, e)
  <2>1. x = v
    BY <1>9, <1>12 DEF World
  <2> QED BY <1>5, <1>10, <1>12, <2>1 DEF v
<1> QED BY <1>11, <1>12 DEF u

-----------------------------------------------------------------------------
\* What tw_pq_dequeue finds: no event is earlier.
LEMMA FirstIs ==
  ASSUME NEW w, w.pq \subseteq Ev, w.pq # {}
  PROVE  First(w) \in w.pq /\ \A f \in w.pq : First(w).ts <= f.ts
<1>1. \A f \in w.pq : f.ts \in Nat /\ f.tie \in Nat
  BY DEF Ev
<1> DEFINE T == {f.ts : f \in w.pq}
<1>2. T \in SUBSET Nat /\ T # {}
  BY <1>1
<1>3. PICK t \in T : \A y \in T : t <= y
  BY <1>2, NatMin
<1> DEFINE Q == {f \in w.pq : f.ts = t}
           U == {f.tie : f \in Q}
<1>4. U \in SUBSET Nat /\ U # {}
  BY <1>1, <1>3
<1>5. PICK u \in U : \A y \in U : u <= y
  BY <1>4, NatMin
<1>6. PICK e \in w.pq : e.ts = t /\ e.tie = u
  BY <1>5
<1>7. \A f \in w.pq : ~Before(f, e)
  <2>1. ASSUME NEW f \in w.pq PROVE ~Before(f, e)
    <3>1. t <= f.ts /\ t \in Nat /\ u \in Nat
      BY <1>2, <1>3, <1>4, <1>5
    <3>2. f.ts = t => u <= f.tie
      BY <1>5
    <3> HIDE DEF T, U
    <3> QED BY <1>1, <1>6, <3>1, <3>2 DEF Before
  <2> QED BY <2>1
<1>8. First(w) \in w.pq /\ \A f \in w.pq : ~Before(f, First(w))
  BY <1>7 DEF First
<1> QED BY <1>1, <1>8 DEF Before

\* A GVT hook that is not set is not called.
LEMMA HookStepIs ==
  ASSUME Program, NEW w \in World
  PROVE  LET v == HookStep(w)
         IN  /\ v \in World /\ v.lp = w.lp /\ v.pq = w.pq /\ v.free = w.free /\ v.cev_abort = w.cev_abort
             /\ (w.sig_at = MaxSig => v = w)
<1>1. MaxSig \in [ts : Nat, tie : Nat] /\ w.hooked \in Int
  BY DEF MaxSig, Program, End, World
<1>2. HookStep(w) = w \/ HookStep(w) = [w EXCEPT !.sig_at = MaxSig, !.hooked = w.hooked + 1]
  BY DEF HookStep
<1>3. w.sig_at = MaxSig => HookStep(w) = w
  BY DEF HookStep
<1> DEFINE v == [w EXCEPT !.sig_at = MaxSig, !.hooked = w.hooked + 1]
<1>4. v \in World /\ v.lp = w.lp /\ v.pq = w.pq /\ v.free = w.free /\ v.cev_abort = w.cev_abort
  <2>1. w.hooked + 1 \in Int
    BY <1>1
  <2> QED BY <1>1, <2>1 DEF World
<1> QED BY <1>2, <1>3, <1>4

\* Events in pq have been drawn before: a Send makes none that is there already.
LEMMA SendFresh ==
  ASSUME Program, NEW w \in World, Fresh(w), NEW now \in Nat, NEW src \in Lps, NEW dest \in Lps, NEW offset \in Nat
  PROVE  /\ Send(w, now, src, dest, offset) \in World /\ Fresh(Send(w, now, src, dest, offset))
         /\ Send(w, now, src, dest, offset).sig_at = w.sig_at
<1> DEFINE g == SendStream(w, src)
           e == SendEvent(w, now, src, dest, offset)
           v == Send(w, now, src, dest, offset)
<1>1. SentAs(w, src, g, e, v)
  BY SendIs, Zenon
<1>2. e.src = src /\ e.n = g.count
  BY <1>1 DEF SendEvent, SentAs
<1> HIDE DEF g, e, v
<1>3. v \in World /\ v.lp = [w.lp EXCEPT ![src].core_rng = g] /\ v.pq \subseteq w.pq \cup {e}
      /\ g.count = w.lp[src].core_rng.count + 1 /\ v.sig_at = w.sig_at
  BY <1>1 DEF SentAs
<1>4. w.lp \in [Lps -> LP] /\ w.lp[src] \in LP /\ w.lp[src].core_rng.count \in Int /\ w.pq \subseteq Ev
  BY DEF World, LP, Stream
<1>5. v.lp[src].core_rng = g /\ \A k \in Lps \ {src} : v.lp[k] = w.lp[k]
  BY <1>3, <1>4 DEF LP
<1>6. Fresh(v)
  <2>1. SUFFICES ASSUME NEW c \in v.pq PROVE c.n <= v.lp[c.src].core_rng.count
    BY DEF Fresh
  <2>2. CASE c = e
    BY <1>2, <1>3, <1>4, <1>5, <2>2
  <2>3. CASE c \in w.pq
    <3>1. c.n \in Int /\ c.src \in Lps /\ c.n <= w.lp[c.src].core_rng.count
      BY <1>4, <2>3 DEF Fresh, Ev
    <3> QED BY <1>3, <1>4, <1>5, <3>1
  <2> QED BY <1>3, <2>2, <2>3
<1> QED BY <1>3, <1>6 DEF v

\* LP i schedules its first event.
InitLp(w, i) ==
  LET in == tw_rand_integer(w.lp[i].rng, 1, 2)
  IN  Send([w EXCEPT !.lp[i].rng = in.g], 0, i, i, in.val)

\* An LP's init handler sends its first events.
LEMMA InitLpIn ==
  ASSUME Program, NEW w \in World, Fresh(w), NEW i \in Lps
  PROVE  InitLp(w, i) \in World /\ Fresh(InitLp(w, i)) /\ InitLp(w, i).sig_at = w.sig_at
<1> DEFINE in == tw_rand_integer(w.lp[i].rng, 1, 2)
           lps == [w.lp EXCEPT ![i].rng = in.g]
           v == [w EXCEPT !.lp[i].rng = in.g]
<1>1. w.lp \in [Lps -> LP] /\ w.lp[i] \in LP /\ Valid(w.lp[i].rng)
  BY DEF World, LP
<1>2. in.g = rng_gen_val(w.lp[i].rng) /\ in.val \in 1 .. 2
  BY <1>1, IntegerIn
<1>3. Valid(in.g) /\ in.g \in Stream
  BY <1>1, <1>2, Draw DEF Valid
<1> HIDE DEF in
<1>4. lps \in [Lps -> LP] /\ \A k \in Lps : lps[k].core_rng = w.lp[k].core_rng
  BY <1>1, <1>3 DEF LP
<1>5. v = [w EXCEPT !.lp = lps]
  BY DEF World
<1> HIDE DEF lps, v
<1>6. v \in World /\ v.lp = lps /\ v.pq = w.pq /\ v.sig_at = w.sig_at
  BY <1>4, <1>5 DEF World
<1>7. Fresh(v)
  <2>1. \A c \in w.pq : c.src \in Lps
    BY DEF World, Ev
  <2> QED BY <1>4, <1>6, <2>1 DEF Fresh
<1>8. in.val \in Nat /\ 0 \in Nat
  BY <1>2
<1> QED BY <1>6, <1>7, <1>8, SendFresh DEF InitLp, in, v

\* The LPs as Setup made them.
LEMMA SetupPesIn ==
  ASSUME Program, Sane, SetupInv, stage[0] = "run"
  PROVE  setup_pes \in World /\ Fresh(setup_pes) /\ setup_pes.sig_at = MaxSig
<1>0. 0 \in Rank /\ conf.nlp[0] \in Nat
  BY DEF Sane, Rank
<1>1. g_tw_lp[0] = LpTable(0)
  BY <1>0 DEF SetupInv, Mapped
<1>2. (\A j \in J : rng_seed[j] \in 0 .. M[j] - 1) /\ (\A j \in J : core_rng_seed[j] \in 0 .. M[j] - 1)
  BY ClampIn DEF Sane, rng_seed, core_rng_seed
<1>3. ASSUME NEW i \in Lps
      PROVE  Valid(g_tw_lp[0][i].rng[0]) /\ Valid(g_tw_lp[0][i].core_rng[0])
  <2> DEFINE gid == Tables(0).gid[i]
  <2>1. i \in DOMAIN Tables(0).gid
    <3>1. Nkp \in Nat
      BY DEF Nkp, early_sanity_check, Sane
    <3>2. DOMAIN Tables(0).gid = 0 .. conf.nlp[0] + (IF conf.analysis THEN Nkp ELSE 0) - 1
      BY <1>0, GidTable
    <3> QED BY <1>0, <3>1, <3>2 DEF Lps
  <2>2. /\ g_tw_lp[0][i].rng = tw_rand_init_streams(gid).rng
        /\ g_tw_lp[0][i].core_rng = tw_rand_init_streams(gid).core
    BY <1>1, <2>1 DEF LpTable, tw_lp_onkp
  <2> DEFINE ids == StreamIds(gid)
  <2>3. 0 \in DOMAIN ids.rng /\ 0 \in DOMAIN ids.core
    BY DEF StreamIds, Program
  <2> HIDE DEF ids, gid
  <2>4. /\ tw_rand_init_streams(gid).rng[0] = tw_rand_initial_seed(ids.rng[0], rng_seed)
        /\ tw_rand_init_streams(gid).core[0] = tw_rand_initial_seed(ids.core[0], core_rng_seed)
    BY <2>3 DEF tw_rand_init_streams, ids
  <2> QED BY <1>2, <2>2, <2>4, SeedIn
<1> DEFINE lps == [i \in 0 .. conf.nlp[0] - 1 |->
                    [state |-> 0, triggered_gvt_hook |-> 0,
                     rng |-> g_tw_lp[0][i].rng[0], core_rng |-> g_tw_lp[0][i].core_rng[0]]]
<1>4. lps \in [Lps -> LP]
  BY <1>3 DEF Lps, LP, Valid
<1>5. setup_pes = [lp |-> lps, pq |-> {}, free |-> conf.events, io_free |-> 0, sig_at |-> MaxSig, hooked |-> 0,
                   caused |-> {}, aborted |-> 0, cev_abort |-> FALSE]
  BY DEF setup_pes, Program
<1> HIDE DEF lps
<1>6. MaxSig \in [ts : Nat, tie : Nat] /\ conf.events \in Nat /\ {} \in SUBSET Ev /\ FALSE \in BOOLEAN
  BY DEF MaxSig, Program, End
<1>7. setup_pes \in World
  BY <1>4, <1>5, <1>6 DEF World
<1> QED BY <1>5, <1>7 DEF Fresh

\* tw_init_lps leaves a rank with the first events of its LPs in pq, and no hook set.
LEMMA InitLpsIn ==
  ASSUME Program, Sane, SetupInv, stage[0] = "run"
  PROVE  tw_init_lps \in World /\ Fresh(tw_init_lps) /\ tw_init_lps.sig_at = MaxSig
<1> DEFINE N == conf.nlp[0] - 1
           S == {w \in World : Fresh(w) /\ w.sig_at = MaxSig}
           G == [x \in (-1 + 1 .. N) \X S |-> InitLp(x[2], x[1])]
           p[i \in -1 .. conf.nlp[0] - 1] == IF i < 0 THEN setup_pes ELSE InitLp(p[i - 1], i)
<1>n. -1 \in Int /\ N \in Int /\ -1 <= N /\ setup_pes \in S
  BY SetupPesIn DEF Program
<1>1. tw_init_lps = p[N]
  BY DEF tw_init_lps, InitLp
<1>2. G \in [(-1 + 1 .. N) \X S -> S]
  <2>1. ASSUME NEW x \in (-1 + 1 .. N) \X S
        PROVE  InitLp(x[2], x[1]) \in S
    <3>1. x[1] \in Lps /\ x[2] \in World /\ Fresh(x[2]) /\ x[2].sig_at = MaxSig
      BY <1>n DEF Lps
    <3> QED BY <3>1, InitLpIn
  <2> QED BY <2>1
<1>3. PICK f : Goes(f, -1, N, S, setup_pes, G)
  <2> HIDE DEF S, G, N
  <2> QED BY <1>n, <1>2, Recursion, Zenon
<1> HIDE DEF S
<1>4. f \in [-1 .. N -> S] /\ f = [i \in -1 .. N |-> IF i < 0 THEN setup_pes ELSE InitLp(f[i - 1], i)]
  <2>1. ASSUME NEW i \in -1 .. N PROVE f[i] = IF i < 0 THEN setup_pes ELSE InitLp(f[i - 1], i)
    <3>1. CASE ~(i < 0)
      <4>1. i \in -1 + 1 .. N /\ i - 1 \in -1 .. N /\ f[i - 1] \in S
        BY <1>n, <1>3, <3>1 DEF Goes
      <4>2. f[i] = G[<<i, f[i - 1]>>]
        BY <1>3, <4>1 DEF Goes
      <4> QED BY <3>1, <4>1, <4>2
    <3>2. CASE i < 0
      <4>1. i = -1
        BY <1>n, <3>2
      <4> QED BY <1>3, <3>2, <4>1 DEF Goes
    <3> QED BY <3>1, <3>2
  <2> QED BY <1>3, <2>1 DEF Goes
<1>5. p = [i \in -1 .. N |-> IF i < 0 THEN setup_pes ELSE InitLp(p[i - 1], i)]
  BY <1>4
<1> HIDE DEF p, N
<1>6. p = f
  <2>1. p = [i \in -1 .. N |-> p[i]] /\ f = [i \in -1 .. N |-> f[i]]
    BY <1>4, <1>5
  <2>2. -1 \in -1 .. N /\ -1 < 0
    BY <1>n
  <2>3. p[-1] = setup_pes
    BY <1>5, <2>2
  <2>4. f[-1] = setup_pes
    BY <1>4, <2>2
  <2>5. ASSUME NEW i \in -1 + 1 .. N, p[i - 1] = f[i - 1]
        PROVE  p[i] = f[i]
    <3>1. i \in -1 .. N /\ ~(i < 0)
      BY <1>n
    <3>2. p[i] = InitLp(p[i - 1], i)
      BY <1>5, <3>1
    <3>3. f[i] = InitLp(f[i - 1], i)
      BY <1>4, <3>1
    <3> QED BY <2>5, <3>2, <3>3
  <2>6. Alike(p, f, -1, N)
    BY <2>1, <2>3, <2>4, <2>5 DEF Alike
  <2> QED BY <1>n, <2>6, SameRecursion, Zenon
<1>7. f[N] \in S
  BY <1>n, <1>4
<1> QED BY <1>1, <1>6, <1>7 DEF S

-----------------------------------------------------------------------------
\* pq without the event that is being executed.
Without(w, e) == [w EXCEPT !.pq = w.pq \ {e}]

\* An event that is being executed, and the copy of its LP.
Executing(p, c, before) ==
  /\ p \in World /\ Fresh(p) /\ ~p.cev_abort
  /\ c \in p.pq /\ before = crv_copy_lpstate(p.lp[c.dest])

\* After the rollback: what the event sent is gone and the hook may be elsewhere.
Back(p, c, s) ==
  \E sig : /\ c.ts % 2 = 1 \/ sig = p.sig_at
           /\ s = [Without(p, c) EXCEPT !.caused = {}, !.aborted = 0, !.sig_at = sig]

\* What the scheduler that checks reverse handlers has at each point of its loop.
CheckInv ==
  conf.synch = "check" =>
    /\ pc \in {"loop", "end"} => sim = plain /\ plain \in World /\ Fresh(plain) /\ ~plain.cev_abort
    /\ pc \in {"forward", "rollback", "again"} => Executing(plain, cev, prev)
    /\ pc = "forward" => sim = Without(plain, cev)
    /\ pc = "rollback" =>
         /\ sim = Event(Without(plain, cev), cev) /\ ~sim.cev_abort
         /\ cur = crv_copy_lpstate(sim.lp[cev.dest])
    /\ pc = "again" =>
         /\ Back(plain, cev, sim)
         /\ cur = crv_copy_lpstate(Event(Without(plain, cev), cev).lp[cev.dest])

\* The schedulers run where RIO does not.
AloneInv ==
  /\ conf.synch # "rio" => io = NoIo
  /\ pc # "setup" => conf.synch \in {"check", "debug"}
  /\ conf.synch = "check" => pc \notin {"debug", "undo"}
  /\ conf.synch = "debug" => pc \notin {"loop", "forward", "rollback", "again"}

\* The operators of the rank depend on the options only, which a scheduler never changes.
LEMMA SendFrame ==
  ASSUME conf' = conf, NEW w, NEW now, NEW src, NEW dest, NEW offset
  PROVE  Send(w, now, src, dest, offset)' = Send(w, now, src, dest, offset)
  BY DEF Send, End

\* An execution, in the next state as in this one.
LEMMA EventFrame ==
  ASSUME conf' = conf, NEW w, NEW e
  PROVE  Event(w, e)' = Event(w, e)
<1>1. \A u : tw_trigger_gvt_hook_now(u, e)' = tw_trigger_gvt_hook_now(u, e)
  BY DEF tw_trigger_gvt_hook_now
<1> QED BY <1>1, SendFrame DEF Event

\* The states of the rank are the same ones in the next state.
LEMMA WorldFrame ==
  ASSUME conf' = conf
  PROVE  World' = World /\ Ev' = Ev /\ Lps' = Lps /\ Program' = Program /\ MaxSig' = MaxSig
  BY DEF World, Ev, Lps, LP, Program, MaxSig, End

\* The configuration stays, but for a job of RIO that ends.
LEMMA ConfStays ==
  ASSUME AloneInv, [Next]_vars, pc # "setup" \/ conf.synch # "rio"
  PROVE  conf' = conf
<1>1. conf.synch # "rio" /\ io = NoIo
  BY DEF AloneInv
<1>2. ~RioNext
  BY <1>1 DEF RioNext, RioRun
<1>3. CASE DefineLps
  <2>1. ASSUME NEW r \in Rank, EnterDefine(r) \/ tw_define_lps(r) \/ late_sanity_check(r) PROVE conf' = conf
    BY <2>1 DEF EnterDefine, tw_define_lps, late_sanity_check
  <2>2. AllreduceLps => conf' = conf
    BY DEF AllreduceLps
  <2> QED BY <1>3, <2>1, <2>2 DEF DefineLps, SetupNext
<1>4. CASE StatsJob
  BY <1>4, StatsLeaves DEF StatsJob, setupVars
<1>5. tw_run \/ Dequeue \/ ForwardPass \/ RollbackPass \/ AgainPass \/ DebugForward \/ DebugRollback
        \/ UNCHANGED vars => conf' = conf
  BY DEF tw_run, Dequeue, ForwardPass, RollbackPass, AgainPass, DebugForward, DebugRollback, vars, setupVars
<1> QED BY <1>2, <1>3, <1>4, <1>5 DEF Next, Ended, RioJob

\* The two debugging schedulers run alone, without RIO.
LEMMA AloneStep ==
  ASSUME AloneInv, [Next]_vars
  PROVE  AloneInv'
<1>1. CASE DefineLps
  <2>1. conf' = conf /\ UNCHANGED <<io, pc>>
    <3>1. ASSUME NEW r \in Rank, EnterDefine(r) \/ tw_define_lps(r) \/ late_sanity_check(r) PROVE conf' = conf
      BY <3>1 DEF EnterDefine, tw_define_lps, late_sanity_check
    <3>2. AllreduceLps => conf' = conf
      BY DEF AllreduceLps
    <3> QED BY <1>1, <3>1, <3>2 DEF DefineLps, SetupNext, rioVars, progVars
  <2> QED BY <2>1 DEF AloneInv, NoIo
<1>2. CASE RioJob
  <2>1. pc' = pc /\ RioNext /\ pc = "setup"
    BY <1>2, ConfStays DEF RioJob, progVars, AloneInv, RioNext, RioRun
  <2>2. CASE Restart
    BY <2>1, <2>2 DEF AloneInv, Restart, NoIo
  <2>3. CASE ~Restart
    <3>1. conf' = conf
      <4>1. ASSUME NEW r \in Rank, RioInitLps(r) PROVE conf' = conf
        BY <4>1 DEF RioInitLps
      <4> QED BY <2>1, <2>3, <4>1, RioLeaves DEF RioNext, setupVars
    <3>2. conf.synch = "rio"
      BY <2>1 DEF AloneInv, RioNext, RioRun
    <3> QED BY <2>1, <3>1, <3>2 DEF AloneInv
  <2> QED BY <2>2, <2>3
<1>3. CASE StatsJob
  <2>1. UNCHANGED <<conf, io, pc>>
    BY <1>3, StatsLeaves DEF StatsJob, setupVars, rioVars, progVars
  <2> QED BY <2>1 DEF AloneInv, NoIo
<1>4. CASE tw_run
  <2>1. UNCHANGED <<conf, io>> /\ conf.synch \in {"check", "debug"}
        /\ pc' \in {"error", IF conf.synch = "debug" THEN "debug" ELSE "loop"}
    BY <1>4 DEF tw_run, setupVars, rioVars
  <2> QED BY <2>1 DEF AloneInv, NoIo
<1>5. ASSUME Dequeue \/ ForwardPass \/ RollbackPass \/ AgainPass
      PROVE  AloneInv'
  <2>1. UNCHANGED <<conf, io>> /\ pc \in {"loop", "forward", "rollback", "again"}
        /\ pc' \in {"loop", "forward", "rollback", "again", "end", "error", "mismatch"}
    BY <1>5 DEF Dequeue, ForwardPass, RollbackPass, AgainPass, setupVars, rioVars
  <2> QED BY <2>1 DEF AloneInv, NoIo
<1>6. ASSUME DebugForward \/ DebugRollback
      PROVE  AloneInv'
  <2>1. UNCHANGED <<conf, io>> /\ pc \in {"debug", "undo"} /\ pc' \in {"debug", "undo", "end"}
    BY <1>6 DEF DebugForward, DebugRollback, setupVars, rioVars
  <2> QED BY <2>1 DEF AloneInv, NoIo
<1>7. CASE UNCHANGED vars
  <2>1. UNCHANGED <<conf, io, pc>>
    BY <1>7 DEF vars, setupVars, rioVars, progVars
  <2> QED BY <2>1 DEF AloneInv, NoIo
<1> QED BY <1>1, <1>2, <1>3, <1>4, <1>5, <1>6, <1>7 DEF Next, Ended

\* The invariant of the check scheduler, over steps of the others.
LEMMA CheckFrame ==
  ASSUME CheckInv, conf' = conf, UNCHANGED progVars
  PROVE  CheckInv'
<1>1. UNCHANGED <<pc, sim, cev, prev, cur, plain>>
  BY DEF progVars
<1>2. Without(plain, cev)' = Without(plain, cev) /\ Event(Without(plain, cev), cev)' = Event(Without(plain, cev), cev)
  BY <1>1, EventFrame DEF Without
<1>3. World' = World
  BY WorldFrame
<1>4. Executing(plain, cev, prev)' = Executing(plain, cev, prev) /\ Back(plain, cev, sim)' = Back(plain, cev, sim)
      /\ Fresh(plain)' = Fresh(plain)
  BY <1>1, <1>2, <1>3 DEF Executing, Back, crv_copy_lpstate, Fresh
<1> QED BY <1>1, <1>2, <1>3, <1>4 DEF CheckInv, crv_copy_lpstate

\* An event leaves pq and is executed.
LEMMA TakenIs ==
  ASSUME Program, NEW p \in World, Fresh(p), NEW c \in p.pq
  PROVE  LET w == Without(p, c)
         IN  /\ c \in Ev /\ c.dest \in Lps
             /\ w \in World /\ w.lp = p.lp /\ w.sig_at = p.sig_at /\ w.cev_abort = p.cev_abort
             /\ w.pq = p.pq \ {c} /\ w.free = p.free /\ w.hooked = p.hooked
             /\ Effects(w, c, Event(w, c)) /\ Event(w, c) \in World
<1>1. p.pq \in SUBSET Ev
  BY DEF World
<1> DEFINE w == Without(p, c)
<1>2. c \in Ev /\ c.dest \in Lps
  BY <1>1 DEF Ev
<1>3. w \in World /\ w.lp = p.lp /\ w.pq = p.pq \ {c} /\ w.sig_at = p.sig_at /\ w.cev_abort = p.cev_abort
      /\ w.free = p.free /\ w.hooked = p.hooked
  <2>1. p.pq \ {c} \in SUBSET Ev
    BY <1>1
  <2> QED BY <1>1, <2>1 DEF Without, World
<1> HIDE DEF w
<1>4. Fresh(w)
  BY <1>1, <1>3 DEF Fresh
<1>5. Effects(w, c, Event(w, c))
  BY <1>2, <1>3, <1>4, EventIs
<1>6. Event(w, c) \in World
  BY <1>5 DEF Effects
<1> QED BY <1>2, <1>3, <1>4, <1>5, <1>6 DEF w

\* The event in hand of the check scheduler.
LEMMA ExecutingIs ==
  ASSUME Program, NEW p, NEW c, NEW before, Executing(p, c, before)
  PROVE  LET w == Without(p, c)
         IN  /\ p \in World /\ c \in Ev /\ c.dest \in Lps
             /\ w \in World /\ w.lp = p.lp /\ w.sig_at = p.sig_at /\ ~w.cev_abort
             /\ Effects(w, c, Event(w, c)) /\ Event(w, c) \in World
  BY TakenIs DEF Executing

\* States with the same parts are the same.
LEMMA LpSame ==
  ASSUME NEW a \in LP, NEW b \in LP, a.state = b.state, a.rng = b.rng, a.core_rng = b.core_rng,
         a.triggered_gvt_hook = b.triggered_gvt_hook
  PROVE  a = b
<1>1. a = [state |-> a.state, triggered_gvt_hook |-> a.triggered_gvt_hook, rng |-> a.rng, core_rng |-> a.core_rng]
  BY LpRecord
<1>2. b = [state |-> b.state, triggered_gvt_hook |-> b.triggered_gvt_hook, rng |-> b.rng, core_rng |-> b.core_rng]
  BY LpRecord
<1> QED BY <1>1, <1>2

\* A state of the rank is the record of its fields.
LEMMA WorldRecord ==
  ASSUME NEW w \in World
  PROVE  w = [lp |-> w.lp, pq |-> w.pq, free |-> w.free, io_free |-> w.io_free, sig_at |-> w.sig_at,
              hooked |-> w.hooked, caused |-> w.caused, aborted |-> w.aborted, cev_abort |-> w.cev_abort]
<1> DEFINE LpMap == [Lps -> LP]
           Events == SUBSET Ev
           Sig == [ts : Nat, tie : Nat]
           Zero == {0}
<1>1. w \in [lp : LpMap, pq : Events, free : Nat, io_free : Zero, sig_at : Sig, hooked : Int, caused : Events, aborted : Nat, cev_abort : BOOLEAN]
  BY DEF World
<1> HIDE DEF LpMap, Events, Sig, Zero
<1> QED BY <1>1

\* Equal fields make equal states.
LEMMA WorldSame ==
  ASSUME NEW a \in World, NEW b \in World, a.lp = b.lp, a.pq = b.pq, a.free = b.free, a.io_free = b.io_free,
         a.sig_at = b.sig_at, a.hooked = b.hooked, a.caused = b.caused, a.aborted = b.aborted,
         a.cev_abort = b.cev_abort
  PROVE  a = b
<1>1. a = [lp |-> a.lp, pq |-> a.pq, free |-> a.free, io_free |-> a.io_free, sig_at |-> a.sig_at,
           hooked |-> a.hooked, caused |-> a.caused, aborted |-> a.aborted, cev_abort |-> a.cev_abort]
  BY WorldRecord
<1>2. b = [lp |-> b.lp, pq |-> b.pq, free |-> b.free, io_free |-> b.io_free, sig_at |-> b.sig_at,
           hooked |-> b.hooked, caused |-> b.caused, aborted |-> b.aborted, cev_abort |-> b.cev_abort]
  BY WorldRecord
<1> QED BY <1>1, <1>2

\* The copies are the same if and only if the LPs are.
LEMMA CopyIs ==
  ASSUME NEW a \in LP, NEW b \in LP
  PROVE  /\ crv_check_lpstates(crv_copy_lpstate(a), b) <=> a = b
<1>1. /\ crv_copy_lpstate(a).state = a.state /\ crv_copy_lpstate(a).rng = a.rng
      /\ crv_copy_lpstate(a).core_rng = a.core_rng
      /\ crv_copy_lpstate(a).triggered_gvt_hook = a.triggered_gvt_hook
  BY DEF crv_copy_lpstate
<1>2. ASSUME a.state = b.state, a.rng = b.rng, a.core_rng = b.core_rng, a.triggered_gvt_hook = b.triggered_gvt_hook
      PROVE  a = b
  BY <1>2, LpSame
<1> QED BY <1>1, <1>2 DEF crv_check_lpstates

\* After the rollback of the check scheduler: the comparison fails only if the
\* handler is wrong, and if it does not fail all is as it was.
LEMMA RolledBackChecked ==
  ASSUME Program, conf.synch = "check", NEW p, NEW c, NEW before, Executing(p, c, before),
         NEW s, s = Event(Without(p, c), c), ~s.cev_abort,
         NEW x, x = tw_event_rollback(s, c, s.caused, s.aborted)
  PROVE  /\ conf.wrong = "none" => crv_check_lpstates(before, x.lp[c.dest])
         /\ crv_check_lpstates(before, x.lp[c.dest]) => Back(p, c, x)
<1> DEFINE w == Without(p, c)
           l == c.dest
<1>1. /\ p \in World /\ c \in Ev /\ l \in Lps /\ w \in World /\ w.lp = p.lp /\ w.sig_at = p.sig_at /\ ~w.cev_abort
      /\ Effects(w, c, s) /\ s \in World
  BY ExecutingIs
<1>2. Like(s, s)
  BY DEF Like, SameLp
<1>3. UndoneAs(w, c, s, x)
  BY <1>1, <1>2, Undone, Zenon
<1>4. before = crv_copy_lpstate(w.lp[l])
  BY <1>1 DEF Executing
<1> HIDE DEF w
<1>5. /\ x \in World /\ x.pq = w.pq /\ x.free = w.free /\ x.hooked = w.hooked /\ x.caused = {} /\ x.aborted = 0
      /\ x.cev_abort = s.cev_abort /\ \A k \in Lps \ {l} : x.lp[k] = s.lp[k]
      /\ x.sig_at = IF Unhooks(c) THEN MaxSig ELSE s.sig_at
  BY <1>3 DEF UndoneAs
<1>6. x.lp \in [Lps -> LP] /\ w.lp \in [Lps -> LP] /\ x.lp[l] \in LP /\ w.lp[l] \in LP /\ s.lp \in [Lps -> LP]
      /\ s.lp[l] \in LP
  BY <1>1, <1>5 DEF World
<1>7. \A k \in Lps \ {l} : s.lp[k] = w.lp[k]
  BY <1>1, <1>6 DEF Effects
<1>8. crv_check_lpstates(before, x.lp[l]) <=> w.lp[l] = x.lp[l]
  BY <1>4, <1>6, CopyIs
<1> DEFINE t == w.lp[l].triggered_gvt_hook
           hook == c.ts % 2 = 1
<1>9. s.lp[l].triggered_gvt_hook = t + (IF hook THEN 1 ELSE 0) /\ t \in Int
  BY <1>1, <1>6 DEF Effects, LP
<1>10. x.lp[l].triggered_gvt_hook = IF hook /\ conf.wrong = "hook" THEN t + 1 ELSE t
  BY <1>3, <1>9 DEF UndoneAs, Unhooks
<1>11. ASSUME conf.wrong = "none" PROVE w.lp[l] = x.lp[l]
  <2>1. /\ x.lp[l].state = w.lp[l].state /\ x.lp[l].rng = w.lp[l].rng /\ x.lp[l].core_rng = w.lp[l].core_rng
        /\ x.lp[l].triggered_gvt_hook = w.lp[l].triggered_gvt_hook
    BY <1>3, <1>10, <1>11 DEF UndoneAs
  <2> QED BY <1>6, <2>1, LpSame
<1>12. ASSUME w.lp[l] = x.lp[l] PROVE Back(p, c, x)
  <2>1. ~(hook /\ conf.wrong = "hook")
    BY <1>9, <1>10, <1>12
  <2>2. x.lp = w.lp
    BY <1>5, <1>6, <1>7, <1>12
  <2>3. hook \/ x.sig_at = p.sig_at
    BY <1>1, <1>5 DEF Unhooks, Effects
  <2>4. x.io_free = 0 /\ w.io_free = 0 /\ x.cev_abort = FALSE /\ w.cev_abort = FALSE
    BY <1>1, <1>5 DEF World
  <2> DEFINE y == [w EXCEPT !.caused = {}, !.aborted = 0, !.sig_at = x.sig_at]
  <2>5. /\ y.lp = w.lp /\ y.pq = w.pq /\ y.free = w.free /\ y.io_free = w.io_free /\ y.sig_at = x.sig_at
        /\ y.hooked = w.hooked /\ y.caused = {} /\ y.aborted = 0 /\ y.cev_abort = w.cev_abort
    BY <1>1 DEF World
  <2>6. y \in World
    <3>1. {} \in SUBSET Ev /\ 0 \in Nat /\ x.sig_at \in [ts : Nat, tie : Nat]
      BY <1>5 DEF World
    <3> QED BY <1>1, <3>1 DEF World
  <2> HIDE DEF y
  <2>7. x = y
    <3>1. /\ x.lp = y.lp /\ x.pq = y.pq /\ x.free = y.free /\ x.io_free = y.io_free /\ x.sig_at = y.sig_at
          /\ x.hooked = y.hooked /\ x.caused = y.caused /\ x.aborted = y.aborted /\ x.cev_abort = y.cev_abort
      BY <1>5, <2>2, <2>4, <2>5
    <3> QED BY <1>5, <2>6, <3>1, WorldSame, Zenon
  <2> QED BY <2>3, <2>7 DEF Back, y, w
<1> QED BY <1>8, <1>11, <1>12

\* A commit that changes the LP does not pass the second comparison.
LEMMA CommitChecked ==
  ASSUME NEW v \in World, NEW c \in Ev, NEW copy, copy = crv_copy_lpstate(v.lp[c.dest])
  PROVE  /\ conf.wrong # "commit" => crv_check_lpstates(copy, Commit(v, c).lp[c.dest])
         /\ crv_check_lpstates(copy, Commit(v, c).lp[c.dest]) => Commit(v, c) = v
<1> DEFINE l == c.dest
           lp == v.lp[l]
           new == [lp EXCEPT !.state = IF conf.wrong = "commit" THEN lp.state + 2 ELSE lp.state]
           lps == [v.lp EXCEPT ![l] = new]
<1>1. l \in Lps /\ v.lp \in [Lps -> LP] /\ lp \in LP /\ lp.state \in Int
  BY DEF Ev, World, LP
<1>2. Commit(v, c) = [v EXCEPT !.lp = lps]
  BY DEF Commit
<1> HIDE DEF l, lp
<1>3. new.state = IF conf.wrong = "commit" THEN lp.state + 2 ELSE lp.state
  BY <1>1 DEF LP
<1>4. copy.state = lp.state
  BY DEF crv_copy_lpstate, lp, l
<1>5. conf.wrong # "commit" => new = lp
  BY <1>1 DEF LP
<1> HIDE DEF new
<1>6. lps[l] = new /\ (new = lp => lps = v.lp)
  BY <1>1 DEF lp
<1> HIDE DEF lps
<1>7. Commit(v, c).lp[l] = new
  BY <1>2, <1>6 DEF World
<1>8. ASSUME conf.wrong # "commit" PROVE Commit(v, c) = v
  <2>1. Commit(v, c) = [v EXCEPT !.lp = v.lp]
    BY <1>2, <1>5, <1>6, <1>8
  <2> QED BY <2>1 DEF World
<1>9. conf.wrong # "commit" => crv_check_lpstates(copy, new)
  <2>1. crv_check_lpstates(crv_copy_lpstate(lp), lp)
    BY <1>1, CopyIs
  <2> QED BY <1>5, <2>1 DEF lp, l
<1>10. crv_check_lpstates(copy, new) => conf.wrong # "commit"
  <2>1. crv_check_lpstates(copy, new) => copy.state = new.state
    BY DEF crv_check_lpstates
  <2> QED BY <1>1, <1>3, <1>4, <2>1
<1> QED BY <1>7, <1>8, <1>9, <1>10 DEF l

\* The debugging schedulers run such a program.
ProgramHere == conf.synch \in {"check", "debug"} => Program

\* Every pass of the loop of the check scheduler keeps its invariant.
LEMMA CheckStep ==
  ASSUME ProgramHere, Sane, SetupInv, AloneInv, CheckInv, NoFalseAlarm, [Next]_vars
  PROVE  (CheckInv /\ NoFalseAlarm)'
<1>1. ASSUME UNCHANGED progVars PROVE (CheckInv /\ NoFalseAlarm)'
  <2>1. CASE pc = "setup"
    BY <1>1, <2>1 DEF progVars, CheckInv, NoFalseAlarm
  <2>2. CASE pc # "setup"
    <3>1. conf' = conf
      BY <2>2, ConfStays
    <3> QED BY <1>1, <3>1, CheckFrame DEF NoFalseAlarm, progVars
  <2> QED BY <2>1, <2>2
<1>2. CASE tw_run
  <2>1. conf' = conf /\ pc' # "mismatch"
    BY <1>2 DEF tw_run, setupVars
  <2>2. ASSUME conf.synch = "check" PROVE CheckInv'
    <3>1. CASE pc' = "error"
      BY <3>1 DEF CheckInv
    <3>2. CASE pc' # "error"
      <4>1. pc' = "loop" /\ sim' = tw_init_lps /\ plain' = tw_init_lps /\ ~tw_init_lps.cev_abort
        BY <1>2, <2>2, <3>2 DEF tw_run
      <4>2. stage[0] = "run"
        BY <1>2 DEF tw_run, Sane, Rank
      <4>3. tw_init_lps \in World /\ Fresh(tw_init_lps)
        BY <2>2, <4>2, InitLpsIn DEF ProgramHere
      <4> HIDE DEF tw_init_lps
      <4> QED BY <2>1, <4>1, <4>3, WorldFrame DEF CheckInv, Fresh
    <3> QED BY <3>1, <3>2
  <2> QED BY <2>1, <2>2 DEF CheckInv, NoFalseAlarm
<1>3. ASSUME NEW x, x = pc, x \in {"loop", "forward", "rollback", "again"}
      PROVE  conf.synch = "check" /\ Program
  BY <1>3 DEF AloneInv, ProgramHere
<1>4. CASE Dequeue
  <2>1. pc = "loop" /\ conf.synch = "check" /\ Program /\ conf' = conf
    BY <1>3, <1>4 DEF Dequeue, setupVars
  <2>2. sim = plain /\ plain \in World /\ Fresh(plain) /\ ~plain.cev_abort
    BY <2>1 DEF CheckInv
  <2> DEFINE w == HookStep(plain)
  <2>3. w \in World /\ w.pq = plain.pq /\ w.lp = plain.lp /\ w.cev_abort = plain.cev_abort
    BY <2>1, <2>2, HookStepIs
  <2>4. plain' = w /\ IF w.pq = {} THEN pc' = "end" /\ sim' = w
                      ELSE /\ pc' = "forward" /\ cev' = First(w)
                           /\ sim' = [w EXCEPT !.pq = w.pq \ {First(w)}]
                           /\ prev' = crv_copy_lpstate(w.lp[First(w).dest])
    BY <1>4, <2>2 DEF Dequeue
  <2> HIDE DEF w
  <2>5. Fresh(w) /\ ~w.cev_abort
    BY <2>2, <2>3 DEF Fresh
  <2>6. World' = World
    BY <2>1, WorldFrame
  <2>7. CASE w.pq = {}
    BY <2>1, <2>3, <2>4, <2>5, <2>6, <2>7 DEF CheckInv, NoFalseAlarm, Fresh
  <2>8. CASE w.pq # {}
    <3>1. w.pq \subseteq Ev
      BY <2>3 DEF World
    <3>2. First(w) \in w.pq
      BY <2>8, <3>1, FirstIs
    <3>3. pc' = "forward" /\ cev' = First(w) /\ sim' = Without(w, First(w))
          /\ prev' = crv_copy_lpstate(w.lp[First(w).dest])
      BY <2>4, <2>8 DEF Without
    <3>4. Executing(plain, cev, prev)'
      BY <2>3, <2>4, <2>5, <2>6, <3>2, <3>3 DEF Executing, Fresh, crv_copy_lpstate
    <3>5. (sim = Without(plain, cev))'
      BY <2>4, <3>3 DEF Without
    <3> QED BY <3>3, <3>4, <3>5 DEF CheckInv, NoFalseAlarm
  <2> QED BY <2>7, <2>8
<1>5. ASSUME pc \in {"forward", "rollback", "again"}, UNCHANGED <<conf, cev, prev, plain>>
      PROVE  Executing(plain, cev, prev) /\ Executing(plain, cev, prev)'
             /\ Without(plain, cev)' = Without(plain, cev)
             /\ Event(Without(plain, cev), cev)' = Event(Without(plain, cev), cev)
  <2>1. Executing(plain, cev, prev)
    BY <1>3, <1>5 DEF CheckInv
  <2>2. Without(plain, cev)' = Without(plain, cev)
    BY <1>5 DEF Without
  <2> QED BY <1>5, <2>1, <2>2, WorldFrame, EventFrame DEF Executing, Fresh, crv_copy_lpstate
<1>6. CASE ForwardPass
  <2>1. pc = "forward" /\ conf.synch = "check" /\ UNCHANGED <<conf, cev, prev, plain>>
    BY <1>3, <1>6 DEF ForwardPass, setupVars
  <2>2. sim = Without(plain, cev)
    BY <2>1 DEF CheckInv
  <2>3. Executing(plain, cev, prev)' /\ Event(Without(plain, cev), cev)' = Event(Without(plain, cev), cev)
    BY <1>5, <2>1
  <2>4. sim' = Event(Without(plain, cev), cev)
    BY <1>6, <2>2 DEF ForwardPass
  <2>5. IF sim'.cev_abort THEN pc' = "error" ELSE pc' = "rollback" /\ cur' = crv_copy_lpstate(sim'.lp[cev.dest])
    BY <1>6 DEF ForwardPass
  <2>6. CASE sim'.cev_abort
    BY <2>5, <2>6 DEF CheckInv, NoFalseAlarm
  <2>7. CASE ~sim'.cev_abort
    BY <2>1, <2>3, <2>4, <2>5, <2>7 DEF CheckInv, NoFalseAlarm, crv_copy_lpstate
  <2> QED BY <2>6, <2>7
<1>7. CASE RollbackPass
  <2>1. pc = "rollback" /\ conf.synch = "check" /\ Program /\ UNCHANGED <<conf, cev, prev, cur, plain>>
    BY <1>3, <1>7 DEF RollbackPass, setupVars
  <2>2. sim = Event(Without(plain, cev), cev) /\ ~sim.cev_abort /\ cur = crv_copy_lpstate(sim.lp[cev.dest])
    BY <2>1 DEF CheckInv
  <2>3. Executing(plain, cev, prev) /\ Executing(plain, cev, prev)'
        /\ Event(Without(plain, cev), cev)' = Event(Without(plain, cev), cev)
        /\ Without(plain, cev)' = Without(plain, cev)
    BY <1>5, <2>1
  <2> DEFINE x == tw_event_rollback(sim, cev, sim.caused, sim.aborted)
  <2>4. sim' = x /\ pc' = IF crv_check_lpstates(prev, x.lp[cev.dest]) THEN "again" ELSE "mismatch"
    BY <1>7 DEF RollbackPass
  <2>5. /\ conf.wrong = "none" => crv_check_lpstates(prev, x.lp[cev.dest])
        /\ crv_check_lpstates(prev, x.lp[cev.dest]) => Back(plain, cev, x)
    BY <2>1, <2>2, <2>3, RolledBackChecked
  <2> HIDE DEF x
  <2>6. CASE crv_check_lpstates(prev, x.lp[cev.dest])
    <3>1. Back(plain, cev, sim)'
      BY <2>1, <2>3, <2>4, <2>5, <2>6 DEF Back
    <3>2. (cur = crv_copy_lpstate(Event(Without(plain, cev), cev).lp[cev.dest]))'
      BY <2>1, <2>2, <2>3 DEF crv_copy_lpstate
    <3> QED BY <2>3, <2>4, <2>6, <3>1, <3>2 DEF CheckInv, NoFalseAlarm
  <2>7. CASE ~crv_check_lpstates(prev, x.lp[cev.dest])
    BY <2>1, <2>4, <2>5, <2>7 DEF CheckInv, NoFalseAlarm
  <2> QED BY <2>6, <2>7
<1>8. CASE AgainPass
  <2>1. pc = "again" /\ conf.synch = "check" /\ Program /\ conf' = conf
    BY <1>3, <1>8 DEF AgainPass, setupVars
  <2> DEFINE b == Without(plain, cev)
             v == Event(b, cev)
  <2>2. Executing(plain, cev, prev) /\ Back(plain, cev, sim) /\ cur = crv_copy_lpstate(v.lp[cev.dest])
    BY <2>1 DEF CheckInv
  <2>3. plain \in World /\ cev \in Ev /\ b \in World /\ b.sig_at = plain.sig_at /\ Effects(b, cev, v) /\ v \in World
    BY <2>1, <2>2, ExecutingIs
  <2>4. Event(sim, cev) = v
    <3>1. PICK sig : /\ cev.ts % 2 = 1 \/ sig = plain.sig_at
                     /\ sim = [b EXCEPT !.caused = {}, !.aborted = 0, !.sig_at = sig]
      BY <2>2 DEF Back
    <3> HIDE DEF b
    <3>2. cev.ts % 2 = 1 \/ sig = b.sig_at
      BY <2>3, <3>1
    <3>3. conf.synch # "debug"
      BY <2>1
    <3> QED BY <2>1, <2>3, <3>1, <3>2, <3>3, EventAgain
  <2>5. Fresh(v)
    BY <2>3 DEF Effects
  <2> HIDE DEF b, v
  <2> DEFINE w == Commit(v, cev)
  <2>6. /\ conf.wrong # "commit" => crv_check_lpstates(cur, w.lp[cev.dest])
        /\ crv_check_lpstates(cur, w.lp[cev.dest]) => w = v
    BY <2>2, <2>3, CommitChecked
  <2>7. /\ sim' = [w EXCEPT !.free = w.free + 1] /\ plain' = [v EXCEPT !.free = v.free + 1]
        /\ pc' = IF ~crv_check_lpstates(cur, w.lp[cev.dest]) THEN "mismatch"
                 ELSE IF w.cev_abort THEN "error" ELSE "loop"
    BY <1>8, <2>4 DEF AgainPass, Without, b, v
  <2> HIDE DEF w
  <2>8. CASE ~crv_check_lpstates(cur, w.lp[cev.dest])
    BY <2>1, <2>6, <2>7, <2>8 DEF CheckInv, NoFalseAlarm
  <2>9. CASE crv_check_lpstates(cur, w.lp[cev.dest]) /\ w.cev_abort
    BY <2>7, <2>9 DEF CheckInv, NoFalseAlarm
  <2>10. CASE crv_check_lpstates(cur, w.lp[cev.dest]) /\ ~w.cev_abort
    <3>1. w = v /\ pc' = "loop" /\ sim' = plain' /\ ~v.cev_abort
      BY <2>6, <2>7, <2>10
    <3> DEFINE y == [v EXCEPT !.free = v.free + 1]
    <3>2. y \in World /\ y.lp = v.lp /\ y.pq = v.pq /\ y.cev_abort = v.cev_abort
      <4>1. v.free + 1 \in Nat
        BY <2>3 DEF World
      <4> QED BY <2>3, <4>1 DEF World
    <3>3. plain' = y
      BY <2>7
    <3> HIDE DEF y
    <3>4. Fresh(y)
      BY <2>5, <3>2 DEF Fresh
    <3>5. World' = World
      BY <2>1, WorldFrame
    <3> QED BY <3>1, <3>2, <3>3, <3>4, <3>5 DEF CheckInv, NoFalseAlarm, Fresh
  <2> QED BY <2>8, <2>9, <2>10
<1>9. CASE DebugForward \/ DebugRollback
  <2>1. conf' = conf /\ conf.synch # "check" /\ pc' # "mismatch"
    BY <1>9 DEF DebugForward, DebugRollback, setupVars, AloneInv
  <2> QED BY <2>1 DEF CheckInv, NoFalseAlarm
<1>10. DefineLps \/ RioJob \/ StatsJob \/ UNCHANGED vars => UNCHANGED progVars
  BY DEF DefineLps, RioJob, StatsJob, vars
<1> QED BY <1>1, <1>2, <1>4, <1>6, <1>7, <1>8, <1>9, <1>10 DEF Next, Ended

\* tw_scheduler_sequential_rollback_check does not blame a reverse handler that is
\* right: its comparisons after the rollback and after the second execution fail
\* only for one that forgets its state or a draw.  For any number of LPs, buffers
\* and events, in a build without RIO's buffers (io_events is 0): with them the
\* comparison fails for a right handler as well, see finding and run program_rio.
THEOREM NoneBlamed ==
  Spec /\ [](Sane /\ ProgramHere) => []NoFalseAlarm
<1> DEFINE Inv == SetupInv /\ AloneInv /\ CheckInv /\ NoFalseAlarm
<1>1. Init => Inv
  BY SetupInitOK DEF Init, RioInit, AloneInv, CheckInv, NoFalseAlarm
<1>2. (Sane /\ ProgramHere) /\ Inv /\ [Next]_vars => Inv'
  BY SetupInvStep, AloneStep, CheckStep
<1>3. Inv => NoFalseAlarm
  OBVIOUS
<1> QED BY <1>1, <1>2, <1>3, PTL DEF Spec

-----------------------------------------------------------------------------
\* Entries of pevent_q; the step from a to b that made entry q.
Entries == [ev : Ev, caused : SUBSET Ev, aborted : Nat]
\* Entry q of pevent_q is the execution from a to b.
StepOf(a, q, b) ==
  /\ q.ev \in a.pq /\ b = Event(Without(a, q.ev), q.ev)
  /\ q.caused = b.caused /\ q.aborted = b.aborted

\* The states that the events in qs went through, the newest entry first.
History(h, qs) ==
  /\ qs \in Seq(Entries) /\ h \in [0 .. Len(qs) -> World]
  /\ \A n \in 0 .. Len(qs) : Fresh(h[n]) /\ h[n].sig_at = MaxSig
  /\ \A n \in 0 .. Len(qs) - 1 : StepOf(h[n], qs[Len(qs) - n], h[n + 1])

\* p is the state after the events before g_tw_rollback_time.
Kept(h, qs, k, p) ==
  /\ k \in 0 .. Len(qs) /\ p = h[k]
  /\ \A n \in 0 .. Len(qs) - 1 :
       IF n < k THEN qs[Len(qs) - n].ev.ts < conf.rollback_time ELSE qs[Len(qs) - n].ev.ts >= conf.rollback_time

\* A program whose reverse handler is right; debug calls no commit.
Right == conf.wrong \in {"none", "commit"}
\* s is p again, up to the triggers of the hook.
Restores(s, p) == s \in World /\ p \in World /\ Like(s, p) /\ s.sig_at = p.sig_at

\* The inductive invariant of the debug scheduler: pevent_q has the executions since the beginning;
\* plain is the state before those that are to be undone; sim is the newest state,
\* or what the rollbacks made of it.
DebugInv ==
  /\ pc = "setup" => pevent_q = <<>>
  /\ conf.synch = "debug" =>
       /\ pc = "debug" =>
            \E h, k : /\ History(h, pevent_q) /\ Kept(h, pevent_q, k, plain) /\ sim = h[Len(pevent_q)]
                      /\ k < Len(pevent_q) => \A c \in sim.pq : c.ts >= conf.rollback_time
       /\ pc = "undo" =>
            \E h, k : /\ History(h, pevent_q) /\ Kept(h, pevent_q, k, plain)
                      /\ Right => Restores(sim, h[Len(pevent_q)])
       /\ pc = "end" /\ Right => Restores(sim, plain)

\* Histories, restored states and the invariant, over steps that leave the rank alone.
LEMMA HistoryFrame ==
  ASSUME conf' = conf, NEW h, NEW qs
  PROVE  History(h, qs)' = History(h, qs)
<1>1. ASSUME NEW a, NEW q, NEW b PROVE StepOf(a, q, b)' = StepOf(a, q, b)
  BY EventFrame DEF StepOf, Without
<1>2. Entries' = Entries /\ World' = World /\ MaxSig' = MaxSig
  BY WorldFrame DEF Entries
<1> QED BY <1>1, <1>2 DEF History, Fresh

\* Restored states.
LEMMA RestoresFrame ==
  ASSUME conf' = conf, NEW a, NEW b
  PROVE  Restores(a, b)' = Restores(a, b) /\ Right' = Right
  BY WorldFrame DEF Restores, Like, SameLp, Right

\* The invariant.
LEMMA DebugFrame ==
  ASSUME DebugInv, conf' = conf, UNCHANGED progVars
  PROVE  DebugInv'
<1>1. UNCHANGED <<pc, sim, pevent_q, plain>>
  BY DEF progVars
<1>2. ASSUME NEW h
      PROVE  History(h, pevent_q)' = History(h, pevent_q)
  BY <1>1, HistoryFrame
<1>3. ASSUME NEW h, NEW k
      PROVE  Kept(h, pevent_q, k, plain)' = Kept(h, pevent_q, k, plain)
  BY <1>1 DEF Kept
<1>4. ASSUME NEW x
      PROVE  Restores(sim, x)' = Restores(sim, x)
  BY <1>1, RestoresFrame
<1>5. Restores(sim, plain)' = Restores(sim, plain) /\ Right' = Right
  BY <1>1, RestoresFrame
<1> QED BY <1>1, <1>2, <1>3, <1>4, <1>5 DEF DebugInv

\* What the phase "debug" keeps, and the phase "undo".
Grown(g, qs, j, p, s) ==
  /\ History(g, qs) /\ Kept(g, qs, j, p) /\ s = g[Len(qs)]
  /\ j < Len(qs) => \A c \in s.pq : c.ts >= conf.rollback_time
\* What the rollbacks keep.
Undoing(g, qs, j, p, s) == History(g, qs) /\ Kept(g, qs, j, p) /\ (Right => Restores(s, g[Len(qs)]))

\* Sequences with an element in front.
LEMMA InFront ==
  ASSUME NEW S, NEW qs \in Seq(S), NEW x \in S
  PROVE  LET t == <<x>> \o qs
         IN  t \in Seq(S) /\ Len(t) = Len(qs) + 1 /\ t[1] = x /\ \A i \in 1 .. Len(qs) : t[i + 1] = qs[i]
  OBVIOUS

\* A sequence without its head, as when tw_kp_rollback_to_sig unthreads the newest event.
LEMMA Behind ==
  ASSUME NEW S, NEW qs \in Seq(S), qs # <<>>
  PROVE  /\ Head(qs) = qs[1] /\ Tail(qs) \in Seq(S) /\ Len(Tail(qs)) = Len(qs) - 1 /\ Len(qs) \in Nat \ {0}
         /\ \A i \in 1 .. Len(qs) - 1 : Tail(qs)[i] = qs[i + 1]
  OBVIOUS

\* An event more.
LEMMA ForwardHistory ==
  ASSUME Program, conf.synch = "debug",
         NEW h, NEW qs, NEW k, NEW p, NEW s, Grown(h, qs, k, p, s),
         s.pq # {}, NEW e, e = First(s), NEW v, v = Event(Without(s, e), e)
  PROVE  \E g, j : Grown(g, <<[ev |-> e, caused |-> v.caused, aborted |-> v.aborted]>> \o qs, j,
                         IF e.ts < conf.rollback_time THEN v ELSE p, v)
<1> DEFINE L == Len(qs)
           q == [ev |-> e, caused |-> v.caused, aborted |-> v.aborted]
           new == <<q>> \o qs
           rt == conf.rollback_time
           now == IF e.ts < rt THEN v ELSE p
<1>0. /\ History(h, qs) /\ Kept(h, qs, k, p) /\ s = h[Len(qs)]
      /\ k < Len(qs) => \A c \in s.pq : c.ts >= conf.rollback_time
  BY DEF Grown
<1>1. /\ qs \in Seq(Entries) /\ L \in Nat /\ h \in [0 .. L -> World] /\ s \in World /\ Fresh(s) /\ s.sig_at = MaxSig
      /\ \A n \in 0 .. L - 1 : StepOf(h[n], qs[L - n], h[n + 1])
      /\ \A n \in 0 .. L : h[n] \in World /\ Fresh(h[n]) /\ h[n].sig_at = MaxSig
  <2>1. /\ qs \in Seq(Entries) /\ h \in [0 .. L -> World] /\ s = h[L]
        /\ \A n \in 0 .. L : Fresh(h[n]) /\ h[n].sig_at = MaxSig
        /\ \A n \in 0 .. L - 1 : StepOf(h[n], qs[L - n], h[n + 1])
    BY <1>0 DEF History
  <2>2. L \in Nat /\ L \in 0 .. L
    BY <2>1
  <2> HIDE DEF L
  <2> QED BY <2>1, <2>2
<1>2. s.pq \subseteq Ev /\ rt \in Nat
  BY <1>1 DEF World, Program
<1>3. e \in s.pq /\ (\A f \in s.pq : e.ts <= f.ts) /\ e \in Ev /\ e.ts \in Nat
  BY <1>2, FirstIs DEF Ev
<1> DEFINE w == Without(s, e)
<1>4. w.sig_at = MaxSig /\ Effects(w, e, v) /\ v \in World /\ w.pq = s.pq \ {e}
  BY <1>1, <1>3, TakenIs
<1> HIDE DEF w
<1>5. Fresh(v) /\ v.sig_at = MaxSig /\ v.pq = w.pq \cup v.caused /\ v.caused \subseteq Ev /\ v.aborted \in Nat
      /\ \A c \in v.caused : e.ts < c.ts
  BY <1>4 DEF Effects, World
<1>6. q \in Entries
  BY <1>3, <1>5 DEF Entries
<1> HIDE DEF q
<1>7. new \in Seq(Entries) /\ Len(new) = L + 1 /\ new[1] = q /\ \A i \in 1 .. L : new[i + 1] = qs[i]
  BY <1>1, <1>6, InFront
<1> HIDE DEF new
<1> DEFINE g == [n \in 0 .. L + 1 |-> IF n = L + 1 THEN v ELSE h[n]]
<1>8. g \in [0 .. L + 1 -> World] /\ g[L + 1] = v /\ \A n \in 0 .. L : g[n] = h[n]
  BY <1>1, <1>4
<1> HIDE DEF g
<1>9. q.ev = e /\ q.caused = v.caused /\ q.aborted = v.aborted
  BY DEF q
<1>10. History(g, new)
  <2>1. \A n \in 0 .. L + 1 : Fresh(g[n]) /\ g[n].sig_at = MaxSig
    <3>1. ASSUME NEW n \in 0 .. L + 1 PROVE Fresh(g[n]) /\ g[n].sig_at = MaxSig
      <4>1. n = L + 1 \/ n \in 0 .. L
        BY <1>1
      <4> QED BY <1>1, <1>5, <1>8, <4>1
    <3> QED BY <3>1
  <2>2. ASSUME NEW n \in 0 .. L PROVE StepOf(g[n], new[L + 1 - n], g[n + 1])
    <3>1. CASE n = L
      <4>1. g[n] = s /\ g[n + 1] = v /\ new[L + 1 - n] = q
        BY <1>0, <1>1, <1>7, <1>8, <3>1
      <4>2. StepOf(s, q, v)
        BY <1>3, <1>9 DEF StepOf
      <4> QED BY <4>1, <4>2
    <3>2. CASE n # L
      <4>1. n \in 0 .. L - 1 /\ L - n \in 1 .. L /\ (L - n) + 1 = L + 1 - n /\ n + 1 \in 0 .. L
        BY <1>1, <3>2
      <4>2. g[n] = h[n] /\ g[n + 1] = h[n + 1] /\ new[L + 1 - n] = qs[L - n]
        BY <1>7, <1>8, <4>1
      <4> QED BY <1>1, <4>1, <4>2
    <3> QED BY <3>1, <3>2
  <2>3. (L + 1) - 1 = L
    BY <1>1
  <2>4. \A n \in 0 .. (L + 1) - 1 : StepOf(g[n], new[L + 1 - n], g[n + 1])
    BY <2>2, <2>3
  <2>5. g \in [0 .. Len(new) -> World]
    BY <1>7, <1>8
  <2>6. \A n \in 0 .. Len(new) - 1 : StepOf(g[n], new[Len(new) - n], g[n + 1])
    BY <1>7, <2>4
  <2>7. \A n \in 0 .. Len(new) : Fresh(g[n]) /\ g[n].sig_at = MaxSig
    BY <1>7, <2>1
  <2> QED BY <1>7, <2>5, <2>6, <2>7 DEF History
<1>11. \A n \in 0 .. L - 1 : new[L + 1 - n] = qs[L - n]
  <2>1. ASSUME NEW n \in 0 .. L - 1 PROVE new[L + 1 - n] = qs[L - n]
    <3>1. L - n \in 1 .. L /\ (L - n) + 1 = L + 1 - n
      BY <1>1
    <3> QED BY <1>7, <3>1
  <2> QED BY <2>1
<1>12. new[L + 1 - L] = q
  BY <1>1, <1>7
<1>13. k \in 0 .. L /\ p = h[k]
       /\ \A n \in 0 .. L - 1 : IF n < k THEN qs[L - n].ev.ts < rt ELSE qs[L - n].ev.ts >= rt
  BY <1>0 DEF Kept
<1>14. CASE e.ts < rt
  <2>1. k = L
    BY <1>0, <1>1, <1>2, <1>3, <1>13, <1>14
  <2>2. Kept(g, new, L + 1, v)
    <3>1. ASSUME NEW n \in 0 .. L PROVE new[L + 1 - n].ev.ts < rt
      <4>1. CASE n = L
        BY <1>9, <1>12, <1>14, <4>1
      <4>2. CASE n # L
        <5>1. n \in 0 .. L - 1 /\ n < k
          BY <1>1, <2>1, <4>2
        <5> QED BY <1>11, <1>13, <5>1
      <4> QED BY <4>1, <4>2
    <3>2. \A n \in 0 .. L : n < L + 1
      BY <1>1
    <3>3. L + 1 \in 0 .. L + 1 /\ (L + 1) - 1 = L
      BY <1>1
    <3> QED BY <1>7, <1>8, <3>1, <3>2, <3>3 DEF Kept
  <2>3. now = v /\ ~(L + 1 < L + 1)
    BY <1>1, <1>14
  <2> QED BY <1>7, <1>8, <1>10, <2>2, <2>3 DEF new, q, Grown
<1>15. CASE ~(e.ts < rt)
  <2>1. e.ts >= rt /\ k \in 0 .. L + 1 /\ ~(L < k)
    BY <1>0, <1>1, <1>2, <1>3, <1>13, <1>15
  <2>2. Kept(g, new, k, p)
    <3>1. ASSUME NEW n \in 0 .. L
          PROVE IF n < k THEN new[L + 1 - n].ev.ts < rt ELSE new[L + 1 - n].ev.ts >= rt
      <4>1. CASE n = L
        BY <1>9, <1>12, <2>1, <4>1
      <4>2. CASE n # L
        <5>1. n \in 0 .. L - 1
          BY <1>1, <4>2
        <5> QED BY <1>11, <1>13, <5>1
      <4> QED BY <4>1, <4>2
    <3>2. (L + 1) - 1 = L /\ p = g[k]
      BY <1>1, <1>8, <1>13
    <3> QED BY <1>7, <2>1, <3>1, <3>2 DEF Kept
  <2>3. now = p
    BY <1>15
  <2>4. \A c \in v.pq : c.ts >= rt
    <3>1. ASSUME NEW c \in v.pq PROVE c.ts >= rt
      <4>1. c \in s.pq \/ c \in v.caused
        BY <1>4, <1>5
      <4>2. c.ts \in Nat
        BY <1>2, <1>5, <4>1 DEF Ev
      <4>3. e.ts <= c.ts
        BY <1>3, <1>5, <4>1, <4>2
      <4> QED BY <1>2, <1>3, <2>1, <4>2, <4>3
    <3> QED BY <3>1
  <2> QED BY <1>7, <1>8, <1>10, <2>2, <2>3, <2>4 DEF new, q, Grown
<1> QED BY <1>14, <1>15

\* An event less: pq has it again.
LEMMA BackwardHistory ==
  ASSUME Program, Right,
         NEW h, NEW qs, NEW k, NEW p, NEW s, History(h, qs), Kept(h, qs, k, p), Restores(s, h[Len(qs)]),
         qs # <<>>, NEW q, q = Head(qs),
         NEW x, x = tw_event_rollback(s, q.ev, q.caused, q.aborted)
  PROVE  Restores([x EXCEPT !.pq = x.pq \cup {q.ev}], h[Len(qs) - 1])
<1> DEFINE L == Len(qs)
           a == h[L - 1]
           v == h[L]
           e == q.ev
           l == e.dest
<1>1. q = qs[1] /\ L \in Nat \ {0} /\ L - 1 \in 0 .. L - 1 /\ L - (L - 1) = 1 /\ (L - 1) + 1 = L /\ L - 1 \in 0 .. L
      /\ L \in 0 .. L
  BY Behind DEF History
<1>2. a \in World /\ v \in World /\ Fresh(a) /\ a.sig_at = MaxSig /\ v.sig_at = MaxSig /\ StepOf(a, q, v)
  BY <1>1 DEF History
<1> HIDE DEF a, v, L
<1>3. e \in a.pq /\ v = Event(Without(a, e), e) /\ q.caused = v.caused /\ q.aborted = v.aborted
  BY <1>2 DEF StepOf
<1> DEFINE w == Without(a, e)
<1>4. /\ e \in Ev /\ l \in Lps /\ w \in World /\ w.lp = a.lp /\ w.sig_at = a.sig_at /\ w.pq = a.pq \ {e}
      /\ w.free = a.free /\ w.hooked = a.hooked /\ Effects(w, e, v)
  BY <1>2, <1>3, TakenIs
<1> HIDE DEF w, e
<1>5. s \in World /\ Like(s, v) /\ s.sig_at = MaxSig
  BY <1>2 DEF Restores, v, L
<1>6. x = tw_event_rollback(s, e, v.caused, v.aborted)
  BY <1>3 DEF e
<1>7. UndoneAs(w, e, s, x)
  <2>1. UndoneAs(w, e, s, tw_event_rollback(s, e, v.caused, v.aborted))
    BY <1>4, <1>5, Undone, Zenon
  <2> QED BY <1>6, <2>1
<1>8. conf.wrong # "state" /\ conf.wrong # "rng"
  BY DEF Right
<1>9. SameLp(x.lp[l], w.lp[l])
  BY <1>7, <1>8 DEF UndoneAs, SameLp
<1>10. \A j \in Lps \ {l} : SameLp(x.lp[j], w.lp[j])
  <2>1. ASSUME NEW j \in Lps \ {l} PROVE SameLp(x.lp[j], w.lp[j])
    <3>1. x.lp[j] = s.lp[j] /\ SameLp(s.lp[j], v.lp[j])
      BY <1>5, <1>7 DEF UndoneAs, Like
    <3>2. v.lp[j] = w.lp[j]
      BY <1>2, <1>4 DEF Effects, World
    <3> QED BY <3>1, <3>2 DEF SameLp
  <2> QED BY <2>1
<1>11. x \in World /\ x.pq = w.pq /\ x.free = w.free /\ x.hooked = w.hooked /\ x.sig_at = MaxSig
  BY <1>5, <1>7 DEF UndoneAs
<1> DEFINE y == [x EXCEPT !.pq = x.pq \cup {e}]
<1>12. y \in World /\ y.lp = x.lp /\ y.pq = x.pq \cup {e} /\ y.free = x.free /\ y.hooked = x.hooked /\ y.sig_at = x.sig_at
  <2>1. x.pq \cup {e} \in SUBSET Ev
    BY <1>4, <1>11 DEF World
  <2> QED BY <1>11, <2>1 DEF World
<1> HIDE DEF y
<1>13. y.pq = a.pq
  BY <1>3, <1>4, <1>11, <1>12
<1>14. Like(y, a)
  BY <1>4, <1>9, <1>10, <1>11, <1>12, <1>13 DEF Like
<1>15. Restores(y, a)
  BY <1>2, <1>11, <1>12, <1>14 DEF Restores
<1> QED BY <1>15 DEF y, e, a, L

\* The oldest states stay when the newest entry goes.
LEMMA ShorterHistory ==
  ASSUME NEW h, NEW qs, NEW k, NEW p, History(h, qs), Kept(h, qs, k, p), qs # <<>>, k < Len(qs)
  PROVE  LET g == [n \in 0 .. Len(qs) - 1 |-> h[n]]
         IN  History(g, Tail(qs)) /\ Kept(g, Tail(qs), k, p) /\ g[Len(Tail(qs))] = h[Len(qs) - 1]
<1> DEFINE L == Len(qs)
           t == Tail(qs)
           g == [n \in 0 .. L - 1 |-> h[n]]
<1>1. /\ qs \in Seq(Entries) /\ h \in [0 .. L -> World]
      /\ \A n \in 0 .. L : Fresh(h[n]) /\ h[n].sig_at = MaxSig
      /\ \A n \in 0 .. L - 1 : StepOf(h[n], qs[L - n], h[n + 1])
  BY DEF History
<1>2. t \in Seq(Entries) /\ Len(t) = L - 1 /\ L \in Nat \ {0} /\ \A i \in 1 .. L - 1 : t[i] = qs[i + 1]
  BY <1>1, Behind
<1>3. /\ k \in 0 .. L /\ p = h[k]
      /\ \A n \in 0 .. L - 1 : IF n < k THEN qs[L - n].ev.ts < conf.rollback_time ELSE qs[L - n].ev.ts >= conf.rollback_time
  BY DEF Kept
<1> HIDE DEF t, L
<1>4. g \in [0 .. L - 1 -> World] /\ \A n \in 0 .. L - 1 : g[n] = h[n]
  BY <1>1, <1>2
<1> HIDE DEF g
<1>5. \A n \in 0 .. (L - 1) - 1 : t[(L - 1) - n] = qs[L - n]
  <2>1. ASSUME NEW n \in 0 .. (L - 1) - 1 PROVE t[(L - 1) - n] = qs[L - n]
    <3>1. (L - 1) - n \in 1 .. L - 1 /\ ((L - 1) - n) + 1 = L - n
      BY <1>2
    <3> QED BY <1>2, <3>1
  <2> QED BY <2>1
<1>6. History(g, t)
  <2>1. ASSUME NEW n \in 0 .. L - 1 PROVE Fresh(g[n]) /\ g[n].sig_at = MaxSig
    <3>1. n \in 0 .. L
      BY <1>2
    <3> QED BY <1>1, <1>4, <3>1
  <2>2. ASSUME NEW n \in 0 .. (L - 1) - 1 PROVE StepOf(g[n], t[(L - 1) - n], g[n + 1])
    <3>1. n \in 0 .. L - 1 /\ n + 1 \in 0 .. L - 1
      BY <1>2
    <3> QED BY <1>1, <1>4, <1>5, <3>1
  <2> QED BY <1>2, <1>4, <2>1, <2>2 DEF History
<1>7. Kept(g, t, k, p)
  <2>1. k \in 0 .. L - 1
    BY <1>2, <1>3 DEF L
  <2>2. \A n \in 0 .. (L - 1) - 1 : n \in 0 .. L - 1
    BY <1>2
  <2> QED BY <1>2, <1>3, <1>4, <1>5, <2>1, <2>2 DEF Kept
<1>8. g[L - 1] = h[L - 1]
  BY <1>2, <1>4
<1> QED BY <1>2, <1>6, <1>7, <1>8 DEF g, t, L

\* The invariant after a step, in the phase of the rollbacks.
LEMMA AfterUndo ==
  ASSUME conf' = conf, conf.synch = "debug", NEW g, NEW qs, NEW j, NEW p, NEW s, Undoing(g, qs, j, p, s),
         qs = pevent_q', p = plain', s = sim', pc' = "undo"
  PROVE  DebugInv'
<1>1. History(g, pevent_q)'
  <2>1. History(g, qs)'
    BY HistoryFrame DEF Undoing
  <2> QED BY <2>1 DEF History
<1>2. Kept(g, pevent_q, j, plain)'
  <2>1. Kept(g, qs, j, p)'
    BY DEF Kept, Undoing
  <2> QED BY <2>1 DEF Kept
<1>3. (Right => Restores(sim, g[Len(pevent_q)]))'
  <2>1. (Right => Restores(s, g[Len(qs)]))'
    BY RestoresFrame DEF Undoing
  <2> QED BY <2>1 DEF Restores, Like, SameLp
<1> QED BY <1>1, <1>2, <1>3 DEF DebugInv

\* And in that of the executions, or at its end.
LEMMA AfterForward ==
  ASSUME conf' = conf, conf.synch = "debug", NEW g, NEW qs, NEW j, NEW p, NEW s, Grown(g, qs, j, p, s),
         qs = pevent_q', p = plain', s = sim', pc' \in {"debug", "undo"}
  PROVE  DebugInv'
<1>1. CASE pc' = "undo"
  <2>1. g[Len(qs)] \in World
    BY DEF Grown, History
  <2>2. Undoing(g, qs, j, p, s)
    BY <2>1 DEF Grown, Undoing, Restores, Like, SameLp
  <2> QED BY <1>1, <2>2, AfterUndo
<1>2. CASE pc' = "debug"
  <2>1. History(g, pevent_q)'
    <3>1. History(g, qs)'
      BY HistoryFrame DEF Grown
    <3> QED BY <3>1 DEF History
  <2>2. Kept(g, pevent_q, j, plain)'
    <3>1. Kept(g, qs, j, p)'
      BY DEF Kept, Grown
    <3> QED BY <3>1 DEF Kept
  <2>3. (sim = g[Len(pevent_q)] /\ (j < Len(pevent_q) => \A c \in sim.pq : c.ts >= conf.rollback_time))'
    BY DEF Grown
  <2> QED BY <1>2, <2>1, <2>2, <2>3 DEF DebugInv
<1> QED BY <1>1, <1>2

\* Every step of the debug scheduler keeps the invariant.
LEMMA DebugStep ==
  ASSUME ProgramHere, Sane, SetupInv, AloneInv, DebugInv, [Next]_vars
  PROVE  DebugInv'
<1>1. ASSUME UNCHANGED progVars PROVE DebugInv'
  <2>1. CASE pc = "setup"
    BY <1>1, <2>1 DEF progVars, DebugInv
  <2>2. CASE pc # "setup"
    BY <1>1, <2>2, ConfStays, DebugFrame
  <2> QED BY <2>1, <2>2
<1>2. CASE tw_run
  <2>1. conf' = conf /\ pc = "setup" /\ pevent_q' = pevent_q /\ pc' # "setup"
    BY <1>2 DEF tw_run, setupVars
  <2>2. ASSUME conf.synch = "debug" PROVE DebugInv'
    <3>1. CASE pc' = "error"
      BY <3>1 DEF DebugInv
    <3>2. CASE pc' # "error"
      <4>1. pc' = "debug" /\ sim' = tw_init_lps /\ plain' = tw_init_lps
        BY <1>2, <2>2, <3>2 DEF tw_run
      <4>2. stage[0] = "run"
        BY <1>2 DEF tw_run, Sane, Rank
      <4>3. tw_init_lps \in World /\ Fresh(tw_init_lps) /\ tw_init_lps.sig_at = MaxSig
        BY <2>2, <4>2, InitLpsIn DEF ProgramHere
      <4>4. pevent_q' = <<>>
        BY <2>1 DEF DebugInv
      <4> DEFINE w == tw_init_lps
                 h == [n \in 0 .. 0 |-> w]
      <4> HIDE DEF w
      <4>5. h \in [0 .. 0 -> World] /\ h[0] = w
        BY <4>3 DEF w
      <4> HIDE DEF h
      <4>6. Len(<<>>) = 0 /\ <<>> \in Seq(Entries) /\ 0 \in 0 .. 0 /\ \A n : ~(n \in 0 .. 0 - 1)
        OBVIOUS
      <4>7. History(h, <<>>)
        <5>1. \A n \in 0 .. 0 : n = 0
          OBVIOUS
        <5> QED BY <4>3, <4>5, <4>6, <5>1 DEF History, w
      <4>8. Kept(h, <<>>, 0, w)
        BY <4>5, <4>6 DEF Kept
      <4>9. Grown(h, <<>>, 0, w, w)
        BY <4>5, <4>6, <4>7, <4>8 DEF Grown
      <4>10. \E g, qs, p, s : Grown(g, qs, 0, p, s) /\ qs = pevent_q' /\ p = plain' /\ s = sim'
        BY <4>1, <4>4, <4>9 DEF w
      <4>11. PICK g, qs, p, s : Grown(g, qs, 0, p, s) /\ qs = pevent_q' /\ p = plain' /\ s = sim'
        BY <4>10
      <4> QED BY <2>1, <2>2, <4>1, <4>11, AfterForward
    <3> QED BY <3>1, <3>2
  <2> QED BY <2>1, <2>2 DEF DebugInv
<1>3. ASSUME NEW x, x = pc, x \in {"debug", "undo"}
      PROVE  conf.synch = "debug" /\ Program
  BY <1>3 DEF AloneInv, ProgramHere
<1>4. CASE DebugForward
  <2>1. pc = "debug" /\ conf.synch = "debug" /\ Program /\ conf' = conf
    BY <1>3, <1>4 DEF DebugForward, setupVars
  <2>2. PICK h, k : /\ History(h, pevent_q) /\ Kept(h, pevent_q, k, plain) /\ sim = h[Len(pevent_q)]
                    /\ k < Len(pevent_q) => \A c \in sim.pq : c.ts >= conf.rollback_time
    BY <2>1 DEF DebugInv
  <2>3. Grown(h, pevent_q, k, plain, sim)
    BY <2>2 DEF Grown
  <2>4. \E g, qs, j, p, s : Grown(g, qs, j, p, s) /\ qs = pevent_q' /\ p = plain' /\ s = sim'
    <3>1. CASE sim.pq = {}
      BY <1>4, <2>3, <3>1 DEF DebugForward
    <3>2. CASE sim.pq # {}
      <4> DEFINE e == First(sim)
                 v == Event(Without(sim, e), e)
                 new == <<[ev |-> e, caused |-> v.caused, aborted |-> v.aborted]>> \o pevent_q
                 now == IF e.ts < conf.rollback_time THEN v ELSE plain
      <4>1. sim' = v /\ pevent_q' = new /\ plain' = now
        BY <1>4, <2>1, <3>2 DEF DebugForward, Without
      <4>2. \E g, j : Grown(g, new, j, now, v)
        BY <2>1, <2>3, <3>2, ForwardHistory, Zenon
      <4> HIDE DEF v, new, now, e
      <4> QED BY <4>1, <4>2
    <3> QED BY <3>1, <3>2
  <2>5. PICK g, qs, j, p, s : Grown(g, qs, j, p, s) /\ qs = pevent_q' /\ p = plain' /\ s = sim'
    BY <2>4
  <2>6. pc' \in {"debug", "undo"}
    BY <1>4 DEF DebugForward
  <2> QED BY <2>1, <2>5, <2>6, AfterForward
<1>5. CASE DebugRollback
  <2>1. pc = "undo" /\ conf.synch = "debug" /\ Program /\ conf' = conf /\ plain' = plain
    BY <1>3, <1>5 DEF DebugRollback, setupVars
  <2>2. PICK h, k : /\ History(h, pevent_q) /\ Kept(h, pevent_q, k, plain)
                    /\ Right => Restores(sim, h[Len(pevent_q)])
    BY <2>1 DEF DebugInv
  <2>3. pevent_q \in Seq(Entries) /\ Len(pevent_q) \in Nat /\ k \in 0 .. Len(pevent_q)
    BY <2>2 DEF History, Kept
  <2>4. ASSUME pevent_q # <<>>
        PROVE  /\ Head(pevent_q) = pevent_q[1] /\ Len(pevent_q) \in Nat \ {0}
               /\ k < Len(pevent_q) <=> Head(pevent_q).ev.ts >= conf.rollback_time
               /\ Head(pevent_q).ev.ts < conf.rollback_time <=> ~(Head(pevent_q).ev.ts >= conf.rollback_time)
    <3>1. Head(pevent_q) = pevent_q[1] /\ Len(pevent_q) \in Nat \ {0}
      BY <2>3, <2>4, Behind
    <3>2. Len(pevent_q) - 1 \in 0 .. Len(pevent_q) - 1 /\ Len(pevent_q) - (Len(pevent_q) - 1) = 1
      BY <3>1
    <3>3. IF Len(pevent_q) - 1 < k THEN pevent_q[1].ev.ts < conf.rollback_time
                                   ELSE pevent_q[1].ev.ts >= conf.rollback_time
      BY <2>2, <3>2 DEF Kept
    <3>4. pevent_q[1].ev.ts \in Nat /\ conf.rollback_time \in Nat
      <4>1. pevent_q[1] \in Entries
        BY <2>3, <3>1
      <4> QED BY <2>1, <4>1 DEF Entries, Ev, Program
    <3>5. Len(pevent_q) - 1 < k <=> ~(k < Len(pevent_q))
      BY <2>3
    <3> QED BY <3>1, <3>3, <3>4, <3>5
  <2>5. CASE pevent_q = <<>> \/ Head(pevent_q).ev.ts < conf.rollback_time
    <3>1. pc' = "end" /\ sim' = sim
      BY <1>5, <2>5 DEF DebugRollback
    <3>2. k = Len(pevent_q)
      <4>1. CASE pevent_q = <<>>
        BY <2>3, <4>1
      <4>2. CASE pevent_q # <<>>
        BY <2>3, <2>4, <2>5, <4>2
      <4> QED BY <4>1, <4>2
    <3>3. Right => Restores(sim, plain)
      BY <2>2, <3>2 DEF Kept
    <3>4. (Right => Restores(sim, plain))'
      BY <2>1, <3>1, <3>3, RestoresFrame
    <3> QED BY <3>1, <3>4 DEF DebugInv
  <2>6. CASE ~(pevent_q = <<>> \/ Head(pevent_q).ev.ts < conf.rollback_time)
    <3> DEFINE q == Head(pevent_q)
               x == tw_event_rollback(sim, q.ev, q.caused, q.aborted)
               y == [x EXCEPT !.pq = x.pq \cup {q.ev}]
               g == [n \in 0 .. Len(pevent_q) - 1 |-> h[n]]
               t == Tail(pevent_q)
    <3>1. pc' = "undo" /\ sim' = y /\ pevent_q' = t
      BY <1>5, <2>1, <2>6 DEF DebugRollback
    <3>2. k < Len(pevent_q) /\ pevent_q # <<>>
      BY <2>4, <2>6
    <3>3. History(g, t) /\ Kept(g, t, k, plain) /\ g[Len(t)] = h[Len(pevent_q) - 1]
      BY <2>2, <3>2, ShorterHistory
    <3>4. Right => Restores(y, h[Len(pevent_q) - 1])
      BY <2>1, <2>2, <3>2, BackwardHistory
    <3> HIDE DEF q, x, y, g, t
    <3>5. Undoing(g, t, k, plain, y)
      BY <3>3, <3>4 DEF Undoing
    <3>6. \E f, qs, p, s : Undoing(f, qs, k, p, s) /\ qs = pevent_q' /\ p = plain' /\ s = sim'
      BY <2>1, <3>1, <3>5
    <3>7. PICK f, qs, p, s : Undoing(f, qs, k, p, s) /\ qs = pevent_q' /\ p = plain' /\ s = sim'
      BY <3>6
    <3> QED BY <2>1, <3>1, <3>7, AfterUndo
  <2> QED BY <2>5, <2>6
<1>6. ASSUME Dequeue \/ ForwardPass \/ RollbackPass \/ AgainPass
      PROVE  DebugInv'
  <2>1. conf' = conf /\ pc \in {"loop", "forward", "rollback", "again"} /\ pc' # "setup"
    BY <1>6 DEF Dequeue, ForwardPass, RollbackPass, AgainPass, setupVars
  <2> QED BY <2>1 DEF DebugInv, AloneInv
<1>7. DefineLps \/ RioJob \/ StatsJob \/ UNCHANGED vars => UNCHANGED progVars
  BY DEF DefineLps, RioJob, StatsJob, vars
<1> QED BY <1>1, <1>2, <1>4, <1>5, <1>6, <1>7 DEF Next, Ended

\* With the check scheduler, executing, undoing and executing again adds up to
\* executing once; with the debug scheduler, the rollback to g_tw_rollback_time
\* of everything executed until few buffers are free restores the LPs, their
\* streams, the pending events and the free buffers of that time.
THEOREM RollbackRestores ==
  Spec /\ [](Sane /\ ProgramHere) => []Restored
<1> DEFINE Inv == SetupInv /\ AloneInv /\ CheckInv /\ DebugInv /\ NoFalseAlarm
<1>1. Init => Inv
  BY SetupInitOK DEF Init, RioInit, AloneInv, CheckInv, DebugInv, NoFalseAlarm
<1>2. (Sane /\ ProgramHere) /\ Inv /\ [Next]_vars => Inv'
  BY SetupInvStep, AloneStep, CheckStep, DebugStep
<1>3. (Sane /\ ProgramHere) /\ Inv => Restored
  <2> SUFFICES ASSUME Sane, ProgramHere, Inv PROVE Restored
    OBVIOUS
  <2>1. ASSUME conf.synch = "check", pc \in {"loop", "end"} PROVE sim = plain
    BY <2>1 DEF CheckInv
  <2>2. ASSUME conf.synch = "debug", pc = "end", conf.wrong \in {"none", "commit"}
        PROVE  /\ sim.pq = plain.pq /\ sim.free = plain.free /\ sim.io_free = plain.io_free
               /\ sim.sig_at = plain.sig_at /\ sim.hooked = plain.hooked
               /\ \A l \in DOMAIN sim.lp :
                    /\ sim.lp[l].state = plain.lp[l].state
                    /\ sim.lp[l].rng = plain.lp[l].rng /\ sim.lp[l].core_rng = plain.lp[l].core_rng
    <3>1. Restores(sim, plain)
      BY <2>2 DEF DebugInv, Right
    <3>2. sim.io_free = 0 /\ plain.io_free = 0 /\ DOMAIN sim.lp = Lps
      BY <3>1 DEF Restores, World
    <3> QED BY <3>1, <3>2 DEF Restores, Like, SameLp
  <2> QED BY <2>1, <2>2 DEF Restored
<1> QED BY <1>1, <1>2, <1>3, PTL DEF Spec

-----------------------------------------------------------------------------
\* More than one place for samples (g_st_sample_count): analysis_init links a first place to a second in any case.
ManySamples == conf.samples \in Nat /\ conf.samples >= 2

Places == 1 .. conf.samples

\* The places of a list in the order o: next follows it, prev goes back.
InOrder(l, o) ==
  /\ o \in [Places -> Places]
  /\ \A s \in Places : \E i \in Places : o[i] = s
  /\ \A i, j \in Places : o[i] = o[j] => i = j
  /\ DOMAIN l = {"head", "current", "tail", "next", "prev", "ts", "data"}
  /\ l.next = [s \in Places |-> l.next[s]] /\ l.prev = [s \in Places |-> l.prev[s]]
  /\ l.ts = [s \in Places |-> l.ts[s]] /\ l.data = [s \in Places |-> l.data[s]]
  /\ l.head = o[1] /\ l.tail = o[conf.samples]
  /\ \A i \in Places : l.next[o[i]] = IF i = conf.samples THEN NULL ELSE o[i + 1]
  /\ \A i \in Places : l.prev[o[i]] = IF i = 1 THEN NULL ELSE o[i - 1]

\* The first places in that order have the samples q, and the current place is the next, if there was one.
Holds(l, q, o) ==
  /\ Len(q) <= conf.samples
  /\ \A i \in 1 .. Len(q) : [ts |-> l.ts[o[i]], at |-> l.data[o[i]]] = q[i]
  /\ l.current # NULL => Len(q) < conf.samples /\ l.current = o[Len(q) + 1]

\* The order after the k-th place was moved to the tail.
Rotated(o, k) ==
  [i \in Places |-> IF i < k THEN o[i] ELSE IF i < conf.samples THEN o[i + 1] ELSE o[k]]

\* A walk along a link that goes p[1], p[2], ... and ends.
Path(link, p) ==
  /\ DOMAIN link = Places
  /\ p \in Seq(Places) /\ Len(p) \in Places
  /\ \A i \in 1 .. Len(p) : link[p[i]] = IF i = Len(p) THEN NULL ELSE p[i + 1]

\* Along finds the whole of such a walk.
LEMMA AlongIs ==
  ASSUME ManySamples, NEW link, NEW p, Path(link, p)
  PROVE  Along(link, p[1]) = p
<1> DEFINE n == conf.samples
           m == Len(p)
           Go(v) == LET i == IF v = <<>> THEN p[1] ELSE link[Last(v)]
                    IN  IF i = NULL \/ (v # <<>> /\ Last(v) = NULL) THEN v ELSE Append(v, i)
           w[j \in 0 .. Cardinality(DOMAIN link)] == IF j = 0 THEN <<>> ELSE Go(w[j - 1])
           f == [j \in 0 .. n |-> SubSeq(p, 1, IF j < m THEN j ELSE m)]
<1>1. n \in Nat /\ n >= 2 /\ m \in 1 .. n /\ p \in Seq(Places) /\ \A i \in 1 .. m : p[i] \in Places /\ p[i] # NULL
  BY DEF ManySamples, Path, Places, NULL
<1>2. Cardinality(DOMAIN link) = n
  <2>1. Cardinality(1 .. n) = IF 1 > n THEN 0 ELSE n - 1 + 1
    BY <1>1, FS_Interval
  <2> QED BY <1>1, <2>1 DEF Path, Places
<1>3. ASSUME NEW j \in 1 .. n PROVE f[j] = Go(f[j - 1])
  <2>1. j - 1 \in 0 .. n /\ j \in 0 .. n
    BY <1>1
  <2>2. CASE j <= m
    <3> DEFINE v == SubSeq(p, 1, j - 1)
    <3>1. f[j - 1] = v /\ f[j] = SubSeq(p, 1, j)
      BY <1>1, <2>1, <2>2
    <3>2. /\ v \in Seq(Places) /\ Len(v) = j - 1 /\ \A i \in 1 .. j - 1 : v[i] = p[i]
      BY <1>1, <2>2, SubSeqProperties
    <3>3. SubSeq(p, 1, j) = Append(v, p[j])
      BY <1>1, <2>2, SubSeqRecursiveSecond
    <3> HIDE DEF v, f
    <3>4. CASE j = 1
      <4>1. v = <<>>
        BY <3>2, <3>4, EmptySeq
      <4> QED BY <1>1, <3>1, <3>3, <3>4, <4>1
    <3>5. CASE j # 1
      <4>1. j - 1 \in 1 .. m /\ j - 1 # m /\ (j - 1) + 1 = j
        BY <1>1, <2>2, <3>5
      <4>2. v # <<>> /\ Last(v) = p[j - 1] /\ Last(v) # NULL
        BY <1>1, <3>2, <4>1 DEF Last
      <4>3. link[Last(v)] = p[j] /\ p[j] # NULL
        BY <1>1, <2>2, <4>1, <4>2 DEF Path
      <4> QED BY <3>1, <3>3, <4>2, <4>3
    <3> QED BY <3>4, <3>5
  <2>3. CASE j > m
    <3>1. f[j - 1] = SubSeq(p, 1, m) /\ f[j] = SubSeq(p, 1, m)
      BY <1>1, <2>1, <2>3
    <3>2. SubSeq(p, 1, m) = p
      BY <1>1, SubSeqFull
    <3> HIDE DEF f
    <3>3. p # <<>> /\ Last(p) = p[m] /\ link[p[m]] = NULL
      BY <1>1 DEF Last, Path
    <3> QED BY <3>1, <3>2, <3>3
  <2> QED BY <1>1, <2>2, <2>3
<1>4. f[0] = <<>> /\ f[n] = p
  <2>1. f[0] = SubSeq(p, 1, 0) /\ SubSeq(p, 1, 0) = <<>>
    BY <1>1, SubSeqEmpty
  <2>2. f[n] = SubSeq(p, 1, m)
    <3>1. n \in 0 .. n /\ (IF n < m THEN n ELSE m) = m
      BY <1>1
    <3> HIDE DEF n, m
    <3> QED BY <3>1
  <2>3. SubSeq(p, 1, m) = p
    BY <1>1, SubSeqFull
  <2> QED BY <2>1, <2>2, <2>3
<1>5. f = [j \in 0 .. n |-> IF j = 0 THEN <<>> ELSE Go(f[j - 1])]
  <2> HIDE DEF Go
  <2>1. f = [j \in 0 .. n |-> f[j]]
    OBVIOUS
  <2> HIDE DEF f
  <2>2. ASSUME NEW j \in 0 .. n PROVE f[j] = IF j = 0 THEN <<>> ELSE Go(f[j - 1])
    BY <1>1, <1>3, <1>4
  <2> QED BY <2>1, <2>2
<1>6. w = [j \in 0 .. n |-> IF j = 0 THEN <<>> ELSE Go(w[j - 1])]
  <2> HIDE DEF f, Go
  <2> QED BY <1>2, <1>5
<1>7. w = f
  <2> HIDE DEF w, f, Go
  <2>1. w = [j \in 0 .. n |-> w[j]] /\ f = [j \in 0 .. n |-> f[j]]
    BY <1>5, <1>6
  <2>2. w[0] = f[0]
    BY <1>1, <1>4, <1>6
  <2>3. ASSUME NEW j \in 0 + 1 .. n, w[j - 1] = f[j - 1]
        PROVE  w[j] = f[j]
    BY <1>1, <1>5, <1>6, <2>3
  <2>4. Alike(w, f, 0, n)
    BY <2>1, <2>2, <2>3 DEF Alike
  <2> QED BY <1>1, <2>4, SameRecursion
<1>8. Along(link, p[1]) = w[n]
  BY <1>2 DEF Along
<1> QED BY <1>4, <1>7, <1>8

\* A search that starts at a place with the time stamp ends there.
LEMMA FoundFirst ==
  ASSUME ManySamples, NEW l, NEW link, NEW p, Path(link, p), NEW t, l.ts[p[1]] = t
  PROVE  Search(l, link, p[1], t) = p[1]
<1> DEFINE hits == {i \in DOMAIN p : l.ts[p[i]] = t}
<1>1. 1 \in hits /\ \A i \in hits : i \in Nat /\ 1 <= i
  BY DEF Path, Places, ManySamples
<1>2. Search(l, link, p[1], t) = p[Min(hits)]
  <2>1. hits # {}
    BY <1>1
  <2> QED BY <2>1, AlongIs DEF Search
<1> HIDE DEF hits
<1>3. \A x \in hits : (\A y \in hits : x =< y) => x = 1
  BY <1>1
<1>4. Min(hits) = 1
  BY <1>1, <1>3 DEF Min
<1> QED BY <1>2, <1>4

\* The walks of a list in order: forward from the head, back from the tail or any place.
LEMMA Walks ==
  ASSUME ManySamples, NEW l, NEW o, InOrder(l, o)
  PROVE  /\ o \in Seq(Places) /\ Len(o) = conf.samples /\ Path(l.next, o)
         /\ \A k \in Places : Path(l.prev, [i \in 1 .. k |-> o[k + 1 - i]])
<1> DEFINE n == conf.samples
<1>1. n \in Nat /\ n >= 2
  BY DEF ManySamples
<1>2. o \in Seq(Places) /\ Len(o) = n
  <2>1. o \in [1 .. n -> Places]
    BY DEF InOrder, Places
  <2> HIDE DEF n
  <2> QED BY <1>1, <2>1
<1>3. Path(l.next, o)
  <2>1. DOMAIN l.next = Places /\ n \in Places /\ 1 .. n = Places
    BY <1>1 DEF InOrder, Places
  <2>2. \A i \in Places : l.next[o[i]] = IF i = n THEN NULL ELSE o[i + 1]
    BY DEF InOrder
  <2> HIDE DEF n
  <2> QED BY <1>2, <2>1, <2>2 DEF Path
<1>4. ASSUME NEW k \in Places
      PROVE  Path(l.prev, [i \in 1 .. k |-> o[k + 1 - i]])
  <2> DEFINE p == [i \in 1 .. k |-> o[k + 1 - i]]
  <2>0. o \in [Places -> Places] /\ k \in Nat /\ \A i \in 1 .. k : k + 1 - i \in Places
    <3>1. o \in [Places -> Places]
      BY DEF InOrder
    <3>2. k \in Nat /\ \A i \in 1 .. k : k + 1 - i \in Places
      BY <1>1 DEF Places
    <3> QED BY <3>1, <3>2
  <2>1. p \in Seq(Places) /\ Len(p) = k /\ k \in Nat
    <3>1. p \in [1 .. k -> Places]
      BY <2>0
    <3> HIDE DEF p
    <3> QED BY <2>0, <3>1
  <2>2. ASSUME NEW i \in 1 .. k
        PROVE  l.prev[p[i]] = IF i = k THEN NULL ELSE p[i + 1]
    <3>0. \A x \in Places : l.prev[o[x]] = IF x = 1 THEN NULL ELSE o[x - 1]
      BY DEF InOrder
    <3>1. k + 1 - i \in Places /\ p[i] = o[k + 1 - i] /\ (k + 1 - i = 1 <=> i = k) /\ (k + 1 - i) - 1 = k + 1 - (i + 1)
      BY <1>1, <2>1 DEF Places
    <3>2. i # k => p[i + 1] = o[k + 1 - (i + 1)]
      <4>1. i # k => i + 1 \in 1 .. k
        BY <2>1
      <4> QED BY <4>1
    <3> HIDE DEF p
    <3> QED BY <3>0, <3>1, <3>2
  <2> HIDE DEF p
  <2>3. DOMAIN l.prev = Places
    BY DEF InOrder
  <2>4. Path(l.prev, p)
    BY <2>1, <2>2, <2>3 DEF Path
  <2> QED BY <2>4 DEF p
<1> QED BY <1>2, <1>3, <1>4

\* MoveToTail takes a place out of the order and puts it at the end; no other sample is touched.
LEMMA MovedToTail ==
  ASSUME ManySamples, NEW l, NEW o, InOrder(l, o), NEW k \in Places, k # conf.samples
  PROVE  /\ InOrder(MoveToTail(l, o[k]), Rotated(o, k))
         /\ MoveToTail(l, o[k]).current = l.current /\ MoveToTail(l, o[k]).data = l.data
         /\ \A i \in Places : i # k => MoveToTail(l, o[k]).ts[o[i]] = l.ts[o[i]]
<1> DEFINE n == conf.samples
           s == o[k]
           a == l.prev[s]
           b == l.next[s]
           z == MoveToTail(l, s)
           u == Rotated(o, k)
<1>1. n \in Nat /\ n >= 2 /\ k \in 1 .. n - 1 /\ n \in Places /\ 1 \in Places /\ k + 1 \in Places
  BY DEF ManySamples, Places
<1>2. /\ l.tail # s /\ l.tail = o[n] /\ s \in Places /\ l.tail \in Places
      /\ b = o[k + 1] /\ a = IF k = 1 THEN NULL ELSE o[k - 1]
  <2>1. /\ o \in [Places -> Places] /\ \A i, j \in Places : o[i] = o[j] => i = j
        /\ l.tail = o[n]
        /\ \A i \in Places : l.next[o[i]] = IF i = n THEN NULL ELSE o[i + 1]
        /\ \A i \in Places : l.prev[o[i]] = IF i = 1 THEN NULL ELSE o[i - 1]
    BY DEF InOrder
  <2>2. k # n
    BY <1>1
  <2> HIDE DEF n
  <2> QED BY <1>1, <2>1, <2>2
<1>3. /\ z.next = [[i \in Places |-> IF i = a THEN b ELSE l.next[i]] EXCEPT ![l.tail] = s, ![s] = NULL]
      /\ z.prev = [[i \in Places |-> IF i = b THEN a ELSE l.prev[i]] EXCEPT ![s] = l.tail]
      /\ z.ts = [l.ts EXCEPT ![s] = 0] /\ z.data = l.data /\ z.current = l.current
      /\ z.head = (IF l.head = s THEN b ELSE l.head) /\ z.tail = s
      /\ DOMAIN z = DOMAIN l
  <2>1. DOMAIN l.next = Places /\ DOMAIN l.prev = Places
    BY DEF InOrder
  <2>2. DOMAIN l = {"head", "current", "tail", "next", "prev", "ts", "data"}
    BY DEF InOrder
  <2> QED BY <1>2, <2>1, <2>2 DEF MoveToTail
<1>4. /\ DOMAIN z.next = Places /\ DOMAIN z.prev = Places
      /\ \A i \in Places : z.next[i] = IF i = s THEN NULL ELSE IF i = l.tail THEN s ELSE IF i = a THEN b ELSE l.next[i]
      /\ \A i \in Places : z.prev[i] = IF i = s THEN l.tail ELSE IF i = b THEN a ELSE l.prev[i]
  BY <1>2, <1>3
<1> HIDE DEF z
<1>5. /\ o \in [Places -> Places] /\ \A i, j \in Places : o[i] = o[j] => i = j
      /\ \A i \in Places : l.next[o[i]] = IF i = n THEN NULL ELSE o[i + 1]
      /\ \A i \in Places : l.prev[o[i]] = IF i = 1 THEN NULL ELSE o[i - 1]
      /\ \A i \in Places : o[i] # NULL
  <2>1. \A x \in Places : x # NULL
    BY <1>1 DEF Places, NULL
  <2>2. o \in [Places -> Places]
    BY DEF InOrder
  <2>3. \A i \in Places : o[i] # NULL
    BY <2>1, <2>2
  <2> QED BY <2>3 DEF InOrder
<1>6. /\ u = [i \in Places |-> u[i]]
      /\ \A i \in Places : i < k => u[i] = o[i]
      /\ \A i \in Places : ~(i < k) /\ i # n => u[i] = o[i + 1]
      /\ u[n] = s
  BY <1>1 DEF Rotated, Places
<1> HIDE DEF u
<1>7. u \in [Places -> Places]
  <2>1. ASSUME NEW i \in Places PROVE u[i] \in Places
    <3>1. i # n => i + 1 \in Places
      BY <1>1 DEF Places
    <3> QED BY <1>1, <1>2, <1>5, <1>6, <3>1
  <2> QED BY <1>6, <2>1
<1>8. ASSUME NEW x \in Places PROVE \E i \in Places : u[i] = x
  <2>1. PICK j \in Places : o[j] = x
    BY DEF InOrder
  <2>2. CASE j < k
    BY <1>6, <2>1, <2>2
  <2>3. CASE j = k
    BY <1>1, <1>6, <2>1, <2>3
  <2>4. CASE j > k
    <3>1. j - 1 \in Places /\ ~(j - 1 < k) /\ j - 1 # n /\ (j - 1) + 1 = j
      BY <1>1, <2>4 DEF Places
    <3> QED BY <1>6, <2>1, <3>1
  <2> QED BY <1>1, <2>2, <2>3, <2>4 DEF Places
<1>9. ASSUME NEW i \in Places, NEW j \in Places, u[i] = u[j] PROVE i = j
  <2> DEFINE from(x) == IF x < k THEN x ELSE IF x # n THEN x + 1 ELSE k
  <2>1. ASSUME NEW x \in Places PROVE from(x) \in Places /\ u[x] = o[from(x)]
    <3>1. from(x) \in Places
      BY <1>1 DEF Places
    <3>2. u[x] = o[from(x)]
      BY <1>6
    <3> QED BY <3>1, <3>2
  <2>2. from(i) = from(j)
    <3> HIDE DEF from
    <3> QED BY <1>5, <1>9, <2>1
  <2> QED BY <1>1, <2>2 DEF Places
<1>10. ASSUME NEW i \in Places
       PROVE  z.next[u[i]] = IF i = n THEN NULL ELSE u[i + 1]
  <2>1. CASE i = n
    BY <1>2, <1>4, <1>6, <2>1
  <2>2. CASE i = n - 1
    <3>1. ~(i < k) /\ i # n /\ i + 1 = n
      BY <1>1, <2>2
    <3> QED BY <1>2, <1>4, <1>6, <3>1
  <2>3. CASE i < k /\ i # n - 1
    <3>1. i # n /\ i # k /\ i + 1 \in Places
      BY <1>1, <2>3 DEF Places
    <3>2. u[i] = o[i] /\ o[i] # s /\ o[i] # l.tail /\ o[i] \in Places
      BY <1>1, <1>2, <1>5, <1>6, <2>3, <3>1
    <3>3. CASE i = k - 1
      <4>1. k # 1 /\ o[i] = a /\ ~(k < k) /\ k # n /\ i + 1 = k
        BY <1>1, <1>2, <3>3 DEF Places
      <4>2. z.next[u[i]] = b /\ u[k] = o[k + 1]
        BY <1>4, <1>6, <3>2, <4>1
      <4> QED BY <1>2, <3>1, <4>1, <4>2
    <3>4. CASE i # k - 1
      <4>1. o[i] # a
        <5>1. k # 1 => k - 1 \in Places
          BY <1>1 DEF Places
        <5> QED BY <1>2, <1>5, <3>4, <5>1
      <4>2. i + 1 < k
        BY <1>1, <2>3, <3>4 DEF Places
      <4>3. z.next[u[i]] = l.next[o[i]]
        BY <1>4, <3>2, <4>1
      <4> QED BY <1>5, <1>6, <3>1, <4>2, <4>3
    <3> QED BY <3>3, <3>4
  <2>4. CASE ~(i < k) /\ i # n - 1 /\ i # n
    <3>1. i + 1 \in Places /\ i + 1 # n /\ ~(i + 1 < k) /\ i + 1 # k /\ (i + 1) + 1 \in Places
      BY <1>1, <2>4 DEF Places
    <3>2. u[i] = o[i + 1] /\ u[i + 1] = o[(i + 1) + 1]
      BY <1>6, <2>4, <3>1
    <3>3. o[i + 1] # s /\ o[i + 1] # l.tail /\ o[i + 1] \in Places
      BY <1>1, <1>2, <1>5, <3>1
    <3>4. o[i + 1] # a
      <4>1. k # 1 => k - 1 \in Places /\ k - 1 # i + 1
        BY <1>1, <2>4 DEF Places
      <4> QED BY <1>2, <1>5, <3>1, <4>1
    <3>5. z.next[o[i + 1]] = l.next[o[i + 1]]
      BY <1>4, <3>3, <3>4
    <3> QED BY <1>5, <2>4, <3>1, <3>2, <3>5
  <2> QED BY <2>1, <2>2, <2>3, <2>4
<1>11. ASSUME NEW i \in Places
       PROVE  z.prev[u[i]] = IF i = 1 THEN NULL ELSE u[i - 1]
  <2>1. CASE i = n
    <3>1. i # 1 /\ n - 1 \in Places /\ ~(n - 1 < k) /\ n - 1 # n /\ (n - 1) + 1 = n
      BY <1>1, <2>1 DEF Places
    <3>2. u[n - 1] = l.tail /\ u[n] = s
      BY <1>2, <1>6, <3>1
    <3> QED BY <1>2, <1>4, <2>1, <3>1, <3>2
  <2>2. CASE i < k
    <3>1. i # k /\ i # k + 1 /\ i # n
      BY <1>1, <2>2 DEF Places
    <3>2. u[i] = o[i] /\ o[i] # s /\ o[i] # b /\ o[i] \in Places
      BY <1>1, <1>2, <1>5, <1>6, <2>2, <3>1
    <3>3. z.prev[u[i]] = l.prev[o[i]]
      BY <1>4, <3>2
    <3>4. i # 1 => i - 1 \in Places /\ i - 1 < k
      BY <1>1, <2>2 DEF Places
    <3> QED BY <1>5, <1>6, <3>3, <3>4
  <2>3. CASE i = k
    <3>1. i # n /\ u[i] = o[k + 1] /\ o[k + 1] # s /\ o[k + 1] \in Places
      <4>1. k + 1 # k /\ ~(i < k) /\ i # n
        BY <1>1, <2>3
      <4> QED BY <1>1, <1>5, <1>6, <2>3, <4>1
    <3>2. z.prev[u[i]] = a
      BY <1>2, <1>4, <3>1
    <3>3. k # 1 => k - 1 \in Places /\ k - 1 < k
      BY <1>1 DEF Places
    <3> QED BY <1>2, <1>6, <2>3, <3>2, <3>3
  <2>4. CASE k < i /\ i # n
    <3>1. /\ i + 1 \in Places /\ i + 1 # k /\ i + 1 # k + 1 /\ ~(i < k) /\ i + 1 # 1 /\ i # 1
          /\ i - 1 \in Places /\ ~(i - 1 < k) /\ i - 1 # n /\ (i - 1) + 1 = i /\ (i + 1) - 1 = i
      BY <1>1, <2>4 DEF Places
    <3>2. u[i] = o[i + 1] /\ u[i - 1] = o[i]
      BY <1>6, <2>4, <3>1
    <3>3. o[i + 1] # s /\ o[i + 1] # b /\ o[i + 1] \in Places
      BY <1>1, <1>2, <1>5, <3>1
    <3>4. z.prev[o[i + 1]] = l.prev[o[i + 1]]
      BY <1>4, <3>3
    <3> QED BY <1>5, <3>1, <3>2, <3>4
  <2> QED BY <1>1, <2>1, <2>2, <2>3, <2>4 DEF Places
<1>12. z.head = u[1]
  <2>1. CASE k = 1
    <3>1. ~(1 < k) /\ 1 # n /\ 1 + 1 = k + 1
      BY <1>1, <2>1
    <3>2. l.head = s
      BY <2>1 DEF InOrder
    <3> QED BY <1>1, <1>2, <1>3, <1>6, <3>1, <3>2
  <2>2. CASE k # 1
    <3>1. 1 < k
      BY <1>1, <2>2
    <3>2. l.head = o[1] /\ o[1] # s
      BY <1>1, <1>5, <2>2 DEF InOrder
    <3> QED BY <1>1, <1>3, <1>6, <3>1, <3>2
  <2> QED BY <2>1, <2>2
<1>13. ASSUME NEW i \in Places, i # k PROVE z.ts[o[i]] = l.ts[o[i]]
  <2>1. o[i] # s
    BY <1>5, <1>13
  <2> QED BY <1>3, <2>1
<1>14. InOrder(z, u)
  <2>1. z.ts = [x \in Places |-> z.ts[x]] /\ z.data = [x \in Places |-> z.data[x]]
    BY <1>3 DEF InOrder
  <2>2. z.next = [x \in Places |-> z.next[x]] /\ z.prev = [x \in Places |-> z.prev[x]]
    BY <1>3
  <2>3. DOMAIN z = {"head", "current", "tail", "next", "prev", "ts", "data"}
    BY <1>3 DEF InOrder
  <2>4. z.tail = u[n]
    BY <1>3, <1>6
  <2> QED BY <1>7, <1>8, <1>9, <1>10, <1>11, <1>12, <2>1, <2>2, <2>3, <2>4 DEF InOrder
<1> QED BY <1>3, <1>13, <1>14 DEF z, u

\* A sample as its event carries it: the time stamp and what its last execution saw.
Samp == [ts : Nat, at : Nat]

StatFields == {"phase", "gvt", "gvt_done", "final", "l", "q", "committed", "processed", "last", "buffer", "missed",
               "prev_offset", "sizes"}

\* What a rank keeps of its samples.
RankInv(w) ==
  /\ DOMAIN w = StatFields
  /\ w.q \in Seq(Samp) /\ w.committed \in Seq(Samp) /\ w.processed \in Nat
  /\ \E o : InOrder(w.l, o) /\ Holds(w.l, w.q, o)

\* The inductive invariant of the samples.
SamplesInv ==
  st # NoStats =>
    /\ conf.synch = "stats" /\ DOMAIN st = Rank
    /\ \A r \in Rank : RankInv(st[r])

\* A rank whose samples are those of w.
SameSamples(u, w) ==
  /\ DOMAIN u = DOMAIN w
  /\ u.l = w.l /\ u.q = w.q /\ u.committed = w.committed /\ u.processed = w.processed

LEMMA SamplesSame ==
  ASSUME NEW u, NEW w, RankInv(w), SameSamples(u, w)
  PROVE  RankInv(u)
  BY DEF RankInv, SameSamples

\* Nothing that is collected changes the samples.
LEMMA CollectedSame ==
  ASSUME NEW w, DOMAIN w = StatFields, NEW r
  PROVE  /\ \A t, recs : SameSamples(st_buffer_push(w, t, recs), w)
         /\ \A t : SameSamples(st_collect_engine_data(w, r, t), w)
         /\ SameSamples(st_collect_model_data(w, r), w)
         /\ \A e : SameSamples(st_collect_event_data(w, r, e), w)
<1>1. ASSUME NEW t, NEW recs PROVE SameSamples(st_buffer_push(w, t, recs), w)
  <2> DEFINE a(x) == x \o SubSeq(recs, 1, IF Len(recs) < conf.buffer_size - Len(w.buffer[t]) THEN Len(recs) ELSE conf.buffer_size - Len(w.buffer[t]))
             b(x) == x \o SubSeq(recs, (IF Len(recs) < conf.buffer_size - Len(w.buffer[t]) THEN Len(recs) ELSE conf.buffer_size - Len(w.buffer[t])) + 1, Len(recs))
             u == [w EXCEPT !.buffer[t] = a(@), !.missed[t] = b(@)]
  <2>1. st_buffer_push(w, t, recs) = IF t \notin conf.types THEN w ELSE u
    BY DEF st_buffer_push
  <2> HIDE DEF a, b
  <2>2. SameSamples(u, w)
    BY DEF SameSamples, StatFields
  <2>3. SameSamples(w, w)
    BY DEF SameSamples
  <2> HIDE DEF u
  <2> QED BY <2>1, <2>2, <2>3
<1>2. ASSUME NEW t PROVE SameSamples(st_collect_engine_data(w, r, t), w)
  <2> DEFINE u == st_buffer_push(w, t, <<[rank |-> r, n |-> w.processed - w.last[t], at |-> w.processed]>>)
  <2>1. st_collect_engine_data(w, r, t) = IF t \notin conf.types THEN w ELSE [u EXCEPT !.last[t] = w.processed]
    BY DEF st_collect_engine_data
  <2>2. SameSamples(u, w)
    BY <1>1
  <2> HIDE DEF u
  <2>3. SameSamples([u EXCEPT !.last[t] = w.processed], w)
    BY <2>2 DEF SameSamples, StatFields
  <2>4. SameSamples(w, w)
    BY DEF SameSamples
  <2> QED BY <2>1, <2>3, <2>4
<1>3. SameSamples(st_collect_model_data(w, r), w)
  BY <1>1 DEF st_collect_model_data
<1>4. ASSUME NEW e PROVE SameSamples(st_collect_event_data(w, r, e), w)
  BY <1>1 DEF st_collect_event_data
<1> QED BY <1>1, <1>2, <1>3, <1>4

\* They are the same through any number of such steps.
LEMMA SameTwice ==
  ASSUME NEW u, NEW v, NEW w, SameSamples(u, v), SameSamples(v, w)
  PROVE  SameSamples(u, w)
  BY DEF SameSamples

\* The list as analysis_init makes it.
LEMMA StartInv ==
  ASSUME ManySamples
  PROVE  RankInv(StartStats)
<1> DEFINE n == conf.samples
           o == [i \in Places |-> i]
           l == Samples(n)
<1>1. n \in Nat /\ n >= 2 /\ Places = 1 .. n
  BY DEF ManySamples, Places
<1>2. InOrder(l, o)
  <2>1. /\ l.next = [s \in Places |-> IF s = n THEN NULL ELSE s + 1] /\ l.prev = [s \in Places |-> s - 1]
        /\ l.ts = [s \in Places |-> 0] /\ l.data = [s \in Places |-> 0] /\ l.head = 1 /\ l.tail = n
        /\ DOMAIN l = {"head", "current", "tail", "next", "prev", "ts", "data"}
    BY <1>1 DEF Samples
  <2>2. 1 \in Places /\ n \in Places /\ \A i \in Places : i # n => i + 1 \in Places
    BY <1>1
  <2>3. \A i \in Places : i # 1 => i - 1 \in Places
    BY <1>1
  <2>4. \A i \in Places : l.prev[i] = IF i = 1 THEN NULL ELSE i - 1
    BY <1>1, <2>1 DEF NULL
  <2> HIDE DEF l
  <2>5. \A i \in Places : l.next[o[i]] = IF i = n THEN NULL ELSE o[i + 1]
    BY <2>1, <2>2
  <2>6. \A i \in Places : l.prev[o[i]] = IF i = 1 THEN NULL ELSE o[i - 1]
    BY <2>3, <2>4
  <2> QED BY <2>1, <2>2, <2>5, <2>6 DEF InOrder
<1>3. Holds(l, <<>>, o)
  <2>1. l.current = 1 /\ 1 \in Places
    BY <1>1 DEF Samples
  <2> HIDE DEF l
  <2> QED BY <1>1, <2>1 DEF Holds
<1>4. /\ DOMAIN StartStats = StatFields /\ StartStats.l = l /\ StartStats.q = <<>>
      /\ StartStats.committed = <<>> /\ StartStats.processed = 0
  BY DEF StartStats, StatFields
<1> HIDE DEF l, o
<1> QED BY <1>2, <1>3, <1>4 DEF RankInv

\* A sample undone: its place goes to the end, the current place stays.
LEMMA SampleUndone ==
  ASSUME ManySamples, NEW l, NEW q \in Seq(Samp), q # <<>>, NEW o, InOrder(l, o), Holds(l, q, o), l.current # NULL
  PROVE  LET s == Search(l, l.prev, l.prev[l.current], Last(q).ts)
         IN  s # NULL /\ \E u : InOrder(MoveToTail(l, s), u) /\ Holds(MoveToTail(l, s), Front(q), u)
<1> DEFINE n == conf.samples
           k == Len(q)
           p == [i \in 1 .. k |-> o[k + 1 - i]]
           z == MoveToTail(l, o[k])
           u == Rotated(o, k)
<1>1. n \in Nat /\ n >= 2 /\ Places = 1 .. n /\ k \in 1 .. n - 1 /\ k \in Places /\ k + 1 \in Places /\ k # n
  <2>1. k # 0 /\ k \in Nat
    BY EmptySeq
  <2> QED BY <2>1 DEF ManySamples, Places, Holds
<1>2. l.current = o[k + 1] /\ l.prev[l.current] = o[k] /\ o[k] # NULL
  <2>1. l.current = o[k + 1]
    BY DEF Holds
  <2>2. l.prev[o[k + 1]] = o[k]
    <3>1. k + 1 # 1 /\ (k + 1) - 1 = k
      BY <1>1
    <3>2. \A i \in Places : l.prev[o[i]] = IF i = 1 THEN NULL ELSE o[i - 1]
      BY DEF InOrder
    <3> HIDE DEF k
    <3> QED BY <1>1, <3>1, <3>2
  <2>3. o[k] \in Places
    BY <1>1 DEF InOrder
  <2> QED BY <1>1, <2>1, <2>2, <2>3 DEF NULL
<1>3. l.ts[o[k]] = Last(q).ts
  <2>1. [ts |-> l.ts[o[k]], at |-> l.data[o[k]]] = q[k]
    BY <1>1 DEF Holds
  <2> QED BY <2>1 DEF Last
<1>4. p[1] = o[k] /\ Path(l.prev, p)
  <2>1. 1 \in 1 .. k /\ k + 1 - 1 = k
    BY <1>1
  <2>2. Path(l.prev, p)
    BY <1>1, Walks
  <2> QED BY <2>1, <2>2
<1>5. Search(l, l.prev, l.prev[l.current], Last(q).ts) = o[k]
  <2> HIDE DEF p
  <2>1. l.ts[p[1]] = Last(q).ts
    BY <1>3, <1>4
  <2>2. Search(l, l.prev, p[1], Last(q).ts) = p[1]
    BY <1>4, <2>1, FoundFirst
  <2> QED BY <1>2, <1>4, <2>2
<1>6. /\ InOrder(z, u) /\ z.current = l.current /\ z.data = l.data
      /\ \A i \in Places : i # k => z.ts[o[i]] = l.ts[o[i]]
  BY <1>1, MovedToTail
<1>7. Len(Front(q)) = k - 1 /\ \A i \in 1 .. k - 1 : Front(q)[i] = q[i]
  <2>1. \A i \in 1 .. k - 1 : q[i] \in Samp
    BY <1>1
  <2>2. 1 \in Int /\ k - 1 \in Int /\ k - 1 >= 0
    BY <1>1
  <2>3. Front(q) = SubSeq(q, 1, k - 1)
    BY DEF Front
  <2> HIDE DEF k
  <2>4. /\ Len(SubSeq(q, 1, k - 1)) = IF 1 <= k - 1 THEN (k - 1) - 1 + 1 ELSE 0
        /\ \A i \in 1 .. (k - 1) - 1 + 1 : SubSeq(q, 1, k - 1)[i] = q[1 + i - 1]
    BY <2>1, <2>2, SubSeqProperties
  <2> QED BY <2>2, <2>3, <2>4
<1> HIDE DEF z
<1>8. Holds(z, Front(q), u)
  <2>1. ASSUME NEW i \in 1 .. k - 1
        PROVE  [ts |-> z.ts[u[i]], at |-> z.data[u[i]]] = Front(q)[i]
    <3>1. i \in Places /\ i < k /\ i # k /\ i \in 1 .. k
      BY <1>1
    <3>2. u[i] = o[i]
      BY <3>1 DEF Rotated
    <3>3. [ts |-> l.ts[o[i]], at |-> l.data[o[i]]] = q[i]
      BY <3>1 DEF Holds
    <3> QED BY <1>6, <1>7, <3>1, <3>2, <3>3
  <2>2. z.current = u[k]
    <3>1. u[k] = o[k + 1]
      BY <1>1 DEF Rotated
    <3> QED BY <1>2, <1>6, <3>1
  <2>3. (k - 1) + 1 = k /\ k - 1 <= n /\ k - 1 < n
    BY <1>1
  <2> HIDE DEF u, k, n
  <2> QED BY <1>7, <2>1, <2>2, <2>3 DEF Holds, n
<1> HIDE DEF u
<1> QED BY <1>2, <1>5, <1>6, <1>8 DEF z

\* A sample committed: the head goes to the end.
LEMMA SampleCommitted ==
  ASSUME ManySamples, NEW l, NEW q \in Seq(Samp), q # <<>>, NEW o, InOrder(l, o), Holds(l, q, o)
  PROVE  LET s == Search(l, l.next, l.head, q[1].ts)
         IN  s # NULL /\ \E u : InOrder(MoveToTail(l, s), u) /\ Holds(MoveToTail(l, s), Tail(q), u)
<1> DEFINE n == conf.samples
           k == Len(q)
           z == MoveToTail(l, o[1])
           u == Rotated(o, 1)
<1>1. n \in Nat /\ n >= 2 /\ Places = 1 .. n /\ k \in 1 .. n /\ 1 \in Places /\ 1 # n
  <2>1. k # 0 /\ k \in Nat
    BY EmptySeq
  <2> QED BY <2>1 DEF ManySamples, Places, Holds
<1>2. l.head = o[1] /\ o[1] # NULL
  <2>1. l.head = o[1] /\ o[1] \in Places
    BY <1>1 DEF InOrder
  <2> QED BY <1>1, <2>1 DEF NULL
<1>3. l.ts[o[1]] = q[1].ts
  <2>1. [ts |-> l.ts[o[1]], at |-> l.data[o[1]]] = q[1]
    BY <1>1 DEF Holds
  <2> QED BY <2>1
<1>4. Search(l, l.next, l.head, q[1].ts) = o[1]
  <2>1. Path(l.next, o)
    BY Walks
  <2> QED BY <1>2, <1>3, <2>1, FoundFirst
<1>5. /\ InOrder(z, u) /\ z.current = l.current /\ z.data = l.data
      /\ \A i \in Places : i # 1 => z.ts[o[i]] = l.ts[o[i]]
  BY <1>1, MovedToTail
<1>6. Len(Tail(q)) = k - 1 /\ \A i \in 1 .. k - 1 : Tail(q)[i] = q[i + 1]
  BY <1>1, HeadTailProperties
<1>7. \A i \in Places : i # n => u[i] = o[i + 1]
  <2>1. \A i \in Places : ~(i < 1) /\ (i # n => i < n)
    BY <1>1
  <2> QED BY <2>1 DEF Rotated
<1> HIDE DEF z, u
<1>8. Holds(z, Tail(q), u)
  <2>1. ASSUME NEW i \in 1 .. k - 1
        PROVE  [ts |-> z.ts[u[i]], at |-> z.data[u[i]]] = Tail(q)[i]
    <3>1. i \in Places /\ i # n /\ i + 1 \in Places /\ i + 1 # 1 /\ i + 1 \in 1 .. k
      BY <1>1
    <3>2. u[i] = o[i + 1]
      BY <1>7, <3>1
    <3>3. [ts |-> l.ts[o[i + 1]], at |-> l.data[o[i + 1]]] = q[i + 1]
      BY <3>1 DEF Holds
    <3> QED BY <1>5, <1>6, <3>1, <3>2, <3>3
  <2>2. ASSUME z.current # NULL
        PROVE  k - 1 < n /\ z.current = u[(k - 1) + 1]
    <3>1. k < n /\ l.current = o[k + 1]
      BY <1>5, <2>2 DEF Holds
    <3>2. k \in Places /\ k # n /\ (k - 1) + 1 = k
      BY <1>1, <3>1
    <3>3. u[k] = o[k + 1]
      BY <1>7, <3>2
    <3> QED BY <1>1, <1>5, <3>1, <3>2, <3>3
  <2>3. k - 1 <= n
    BY <1>1
  <2> HIDE DEF k, n
  <2> QED BY <1>6, <2>1, <2>2, <2>3 DEF Holds, n
<1> QED BY <1>2, <1>4, <1>5, <1>8 DEF z

\* What fossil collection does with one sample.
Fossil(w, r, e) ==
  analysis_commit(IF conf.ev_trace = "COMMIT_TRACE" THEN st_collect_event_data(w, r, e) ELSE w, r, e)

\* A rank at fossil collection: its events are those of w, its places those of the samples q.
Collecting(x, w, q) ==
  /\ DOMAIN x = StatFields
  /\ x.q = w.q /\ x.committed = w.committed /\ x.processed = w.processed
  /\ \E o : InOrder(x.l, o) /\ Holds(x.l, q, o)

LEMMA FossilStep ==
  ASSUME ManySamples, NEW r, NEW w, NEW q \in Seq(Samp), q # <<>>, NEW x, Collecting(x, w, q)
  PROVE  Collecting(Fossil(x, r, q[1]), w, Tail(q))
<1> DEFINE e == q[1]
           y == IF conf.ev_trace = "COMMIT_TRACE" THEN st_collect_event_data(x, r, e) ELSE x
           s == Search(y.l, y.l.next, y.l.head, e.ts)
           recs == [i \in 1 .. conf.nlp[r] |-> [rank |-> r, lp |-> i, ts |-> e.ts, at |-> y.l.data[s]]]
           z == st_buffer_push(y, "ANALYSIS_LP", recs)
<1>1. DOMAIN y = StatFields /\ SameSamples(y, x)
  <2>1. SameSamples(x, x) /\ DOMAIN x = StatFields
    BY DEF SameSamples, Collecting
  <2>2. SameSamples(st_collect_event_data(x, r, e), x)
    BY <2>1, CollectedSame
  <2> QED BY <2>1, <2>2 DEF SameSamples
<1>2. Fossil(x, r, e) = IF s = NULL THEN y ELSE [z EXCEPT !.l = MoveToTail(z.l, s)]
  BY DEF Fossil, analysis_commit
<1> HIDE DEF y, recs
<1>3. SameSamples(z, y)
  BY <1>1, CollectedSame
<1>4. PICK o : InOrder(x.l, o) /\ Holds(x.l, q, o)
  BY DEF Collecting
<1>5. s # NULL /\ \E u : InOrder(MoveToTail(x.l, s), u) /\ Holds(MoveToTail(x.l, s), Tail(q), u)
  <2>1. y.l = x.l
    BY <1>1 DEF SameSamples
  <2> HIDE DEF e
  <2> QED BY <1>4, <2>1, SampleCommitted DEF e
<1> HIDE DEF s, z
<1>6. /\ DOMAIN z = StatFields /\ z.l = x.l
      /\ z.q = w.q /\ z.committed = w.committed /\ z.processed = w.processed
  BY <1>1, <1>3 DEF SameSamples, Collecting
<1> DEFINE f == [z EXCEPT !.l = MoveToTail(z.l, s)]
<1>7. /\ DOMAIN f = StatFields /\ f.l = MoveToTail(x.l, s)
      /\ f.q = w.q /\ f.committed = w.committed /\ f.processed = w.processed
  BY <1>6 DEF StatFields
<1> HIDE DEF f
<1>8. Fossil(x, r, e) = f
  BY <1>2, <1>5 DEF f
<1> QED BY <1>5, <1>7, <1>8 DEF Collecting

\* Fossil collection of the n oldest samples.
LEMMA Fossils ==
  ASSUME ManySamples, NEW r, NEW w, RankInv(w), NEW n \in 0 .. Len(w.q)
  PROVE  LET v[i \in 0 .. n] == IF i = 0 THEN w ELSE Fossil(v[i - 1], r, w.q[i])
         IN  Collecting(v[n], w, SubSeq(w.q, n + 1, Len(w.q)))
<1> DEFINE v[i \in 0 .. n] == IF i = 0 THEN w ELSE Fossil(v[i - 1], r, w.q[i])
           m == Len(w.q)
           Is(g, k) == g = [i \in 0 .. k |-> IF i = 0 THEN w ELSE Fossil(g[i - 1], r, w.q[i])]
           X == {k \in 0 .. n : \E g : Is(g, k)}
           Y == {k \in 0 .. n : Collecting(v[k], w, SubSeq(w.q, k + 1, m))}
<1>0. n \in Nat /\ n \in Int /\ 0 \in Int /\ w.q \in Seq(Samp) /\ m \in Nat /\ n <= m /\ 0 \in 0 .. n /\ n \in 0 .. n
  BY DEF RankInv
<1>1. 0 \in X
  <2>1. Is([i \in 0 .. 0 |-> w], 0)
    OBVIOUS
  <2> HIDE DEF Is
  <2> QED BY <1>0, <2>1
<1>2. ASSUME NEW i \in 0 .. n - 1, i \in X PROVE i + 1 \in X
  <2>1. PICK g : Is(g, i)
    BY <1>2
  <2> DEFINE h == [j \in 0 .. i + 1 |-> IF j = i + 1 THEN Fossil(g[i], r, w.q[i + 1]) ELSE g[j]]
  <2>2. ASSUME NEW j \in 0 .. i + 1
        PROVE  h[j] = IF j = 0 THEN w ELSE Fossil(h[j - 1], r, w.q[j])
    <3>1. CASE j = i + 1
      <4>1. j # 0 /\ j - 1 = i /\ i \in 0 .. i + 1 /\ i # i + 1
        BY <3>1
      <4> QED BY <3>1, <4>1
    <3>2. CASE j # i + 1
      <4>1. j \in 0 .. i /\ (j # 0 => j - 1 \in 0 .. i + 1 /\ j - 1 # i + 1)
        BY <3>2
      <4>2. g[j] = IF j = 0 THEN w ELSE Fossil(g[j - 1], r, w.q[j])
        BY <2>1, <4>1
      <4> QED BY <3>2, <4>1, <4>2
    <3> QED BY <3>1, <3>2
  <2>3. Is(h, i + 1)
    <3>1. h = [j \in 0 .. i + 1 |-> h[j]]
      OBVIOUS
    <3> HIDE DEF h
    <3> QED BY <2>2, <3>1
  <2>4. i + 1 \in 0 .. n
    BY <1>0, <1>2
  <2> HIDE DEF h, Is
  <2> QED BY <2>3, <2>4
<1>3. \E g : Is(g, n)
  <2> HIDE DEF Is
  <2>1. n \in X
    <3> HIDE DEF X
    <3> QED BY <1>0, <1>1, <1>2, UpTo
  <2> QED BY <2>1
<1>4. Is(v, n)
  BY <1>3
<1> HIDE DEF v
<1>5. v[0] = w /\ \A i \in 1 .. n : v[i] = Fossil(v[i - 1], r, w.q[i])
  BY <1>0, <1>4
<1>6. 0 \in Y
  <2>1. SubSeq(w.q, 0 + 1, m) = w.q
    BY <1>0, SubSeqFull
  <2>2. Collecting(w, w, w.q)
    BY DEF RankInv, Collecting
  <2> HIDE DEF m
  <2> QED BY <1>0, <1>5, <2>1, <2>2
<1>7. ASSUME NEW i \in 0 .. n - 1, i \in Y PROVE i + 1 \in Y
  <2> DEFINE rest == SubSeq(w.q, i + 1, m)
  <2>1. i + 1 \in 1 .. m /\ m \in i + 1 .. m /\ i + 1 \in 1 .. n /\ (i + 1) - 1 = i /\ i \in Int
    BY <1>0, <1>7
  <2>2. Head(rest) = w.q[i + 1] /\ Tail(rest) = SubSeq(w.q, (i + 1) + 1, m)
    <3> HIDE DEF m
    <3>1. i + 1 \in 1 .. Len(w.q) /\ m \in i + 1 .. Len(w.q)
      BY <2>1 DEF m
    <3> QED BY <1>0, <3>1, HeadTailOfSubSeq
  <2>3. rest \in Seq(Samp) /\ Len(rest) = m - (i + 1) + 1
    <3>1. \A j \in i + 1 .. m : w.q[j] \in Samp
      BY <1>0, <2>1
    <3>2. i + 1 \in Int /\ m \in Int /\ i + 1 <= m
      BY <2>1
    <3> HIDE DEF m
    <3> QED BY <3>1, <3>2, SubSeqProperties
  <2> HIDE DEF rest
  <2>4. rest # <<>> /\ rest[1] = w.q[i + 1]
    <3>1. Len(rest) # 0
      BY <2>1, <2>3
    <3> QED BY <2>2, <2>3, <3>1
  <2>5. Collecting(v[i], w, rest)
    BY <1>7 DEF rest
  <2>6. Collecting(v[i + 1], w, Tail(rest))
    <3>1. v[i + 1] = Fossil(v[i], r, rest[1])
      BY <1>5, <2>1, <2>4
    <3> QED BY <2>3, <2>4, <2>5, <3>1, FossilStep
  <2>7. i + 1 \in 0 .. n
    BY <2>1
  <2> QED BY <2>2, <2>6, <2>7
<1>8. n \in Y
  <2> HIDE DEF Y
  <2> QED BY <1>0, <1>6, <1>7, UpTo
<1> QED BY <1>8 DEF v

\* A sample taken: the current place has it, and the next place is current.
LEMMA SampleTaken ==
  ASSUME ManySamples, NEW l, NEW q \in Seq(Samp), NEW o, InOrder(l, o), Holds(l, q, o), l.current # NULL,
         NEW e \in Samp
  PROVE  LET z == [l EXCEPT !.ts[l.current] = e.ts, !.data[l.current] = e.at, !.current = l.next[l.current]]
         IN  InOrder(z, o) /\ Holds(z, Append(q, e), o)
<1> DEFINE n == conf.samples
           k == Len(q)
           s == l.current
           z == [l EXCEPT !.ts[s] = e.ts, !.data[s] = e.at, !.current = l.next[s]]
<1>1. n \in Nat /\ n >= 2 /\ Places = 1 .. n /\ k \in Nat /\ k < n /\ k + 1 \in Places /\ s = o[k + 1]
  <2>1. k \in Nat /\ k < n /\ s = o[k + 1]
    BY DEF Holds
  <2> QED BY <2>1 DEF ManySamples, Places
<1>2. o \in [Places -> Places] /\ (\A i, j \in Places : o[i] = o[j] => i = j) /\ s \in Places
  <2>1. o \in [Places -> Places] /\ (\A i, j \in Places : o[i] = o[j] => i = j)
    BY DEF InOrder
  <2> HIDE DEF s
  <2> QED BY <1>1, <2>1
<1>3. /\ DOMAIN z = DOMAIN l /\ z.next = l.next /\ z.prev = l.prev /\ z.head = l.head /\ z.tail = l.tail
      /\ z.ts = [l.ts EXCEPT ![s] = e.ts] /\ z.data = [l.data EXCEPT ![s] = e.at] /\ z.current = l.next[s]
  <2>1. DOMAIN l = {"head", "current", "tail", "next", "prev", "ts", "data"}
    BY DEF InOrder
  <2> HIDE DEF s
  <2> QED BY <2>1
<1> HIDE DEF z
<1>4. z.ts = [x \in Places |-> z.ts[x]] /\ z.data = [x \in Places |-> z.data[x]]
      /\ z.ts[s] = e.ts /\ z.data[s] = e.at
      /\ \A x \in Places : x # s => z.ts[x] = l.ts[x] /\ z.data[x] = l.data[x]
  <2>1. DOMAIN l.ts = Places /\ DOMAIN l.data = Places
    BY DEF InOrder
  <2> HIDE DEF s
  <2> QED BY <1>2, <1>3, <2>1
<1>5. InOrder(z, o)
  <2>1. /\ o \in [Places -> Places] /\ (\A x \in Places : \E i \in Places : o[i] = x)
        /\ (\A i, j \in Places : o[i] = o[j] => i = j)
        /\ DOMAIN l = {"head", "current", "tail", "next", "prev", "ts", "data"}
    BY DEF InOrder
  <2>2. /\ l.next = [x \in Places |-> l.next[x]] /\ l.prev = [x \in Places |-> l.prev[x]]
        /\ l.head = o[1] /\ l.tail = o[conf.samples]
        /\ (\A i \in Places : l.next[o[i]] = IF i = conf.samples THEN NULL ELSE o[i + 1])
        /\ (\A i \in Places : l.prev[o[i]] = IF i = 1 THEN NULL ELSE o[i - 1])
    BY DEF InOrder
  <2>3. DOMAIN z = {"head", "current", "tail", "next", "prev", "ts", "data"}
    BY <1>3, <2>1
  <2>4. /\ z.next = [x \in Places |-> z.next[x]] /\ z.prev = [x \in Places |-> z.prev[x]]
        /\ z.head = o[1] /\ z.tail = o[conf.samples]
        /\ (\A i \in Places : z.next[o[i]] = IF i = conf.samples THEN NULL ELSE o[i + 1])
        /\ (\A i \in Places : z.prev[o[i]] = IF i = 1 THEN NULL ELSE o[i - 1])
    BY <1>3, <2>2
  <2> QED BY <1>4, <2>1, <2>3, <2>4 DEF InOrder
<1>6. Holds(z, Append(q, e), o)
  <2>1. Len(Append(q, e)) = k + 1 /\ Append(q, e)[k + 1] = e /\ \A i \in 1 .. k : Append(q, e)[i] = q[i]
    BY AppendProperties
  <2>2. ASSUME NEW i \in 1 .. k + 1
        PROVE  [ts |-> z.ts[o[i]], at |-> z.data[o[i]]] = Append(q, e)[i]
    <3>1. CASE i = k + 1
      <4>1. e = [ts |-> e.ts, at |-> e.at]
        BY DEF Samp
      <4> QED BY <1>1, <1>4, <2>1, <3>1, <4>1
    <3>2. CASE i # k + 1
      <4>1. i \in 1 .. k /\ i \in Places /\ o[i] # s /\ o[i] \in Places
        BY <1>1, <1>2, <3>2
      <4>2. [ts |-> l.ts[o[i]], at |-> l.data[o[i]]] = q[i]
        BY <4>1 DEF Holds
      <4> QED BY <1>4, <2>1, <4>1, <4>2
    <3> QED BY <3>1, <3>2
  <2>3. ASSUME z.current # NULL
        PROVE  k + 1 < n /\ z.current = o[(k + 1) + 1]
    <3>1. l.next[o[k + 1]] = IF k + 1 = n THEN NULL ELSE o[(k + 1) + 1]
      <4>1. \A i \in Places : l.next[o[i]] = IF i = n THEN NULL ELSE o[i + 1]
        BY DEF InOrder
      <4> HIDE DEF n
      <4> QED BY <1>1, <4>1
    <3> QED BY <1>1, <1>3, <2>3, <3>1
  <2>4. k + 1 <= n
    BY <1>1
  <2> HIDE DEF k, n
  <2> QED BY <2>1, <2>2, <2>3, <2>4 DEF Holds, n
<1> QED BY <1>5, <1>6 DEF z

\* What a rank keeps depends on the configuration only.
LEMMA RankFrame ==
  ASSUME conf' = conf, NEW r
  PROVE  RankInv(st[r])' <=> RankInv(st'[r])
  BY DEF RankInv, InOrder, Holds, Places

\* A step of one rank.
LEMMA BecomesInv ==
  ASSUME SamplesInv, st # NoStats, conf' = conf, NEW r \in Rank, NEW w, RankInv(w), Becomes(r, w)
  PROVE  SamplesInv'
<1>1. st' = [st EXCEPT ![r] = w] /\ DOMAIN st = Rank /\ conf.synch = "stats" /\ Rank' = Rank
  BY DEF Becomes, SamplesInv, Rank
<1>2. ASSUME NEW s \in Rank PROVE RankInv(st[s])'
  <2>1. st'[s] = IF s = r THEN w ELSE st[s]
    BY <1>1
  <2>2. RankInv(st'[s])
    BY <2>1 DEF SamplesInv
  <2> QED BY <2>2, RankFrame
<1>3. DOMAIN st' = Rank
  BY <1>1
<1> QED BY <1>1, <1>2, <1>3 DEF SamplesInv

\* A sample is taken, and what else the event collects.
LEMMA EventKeeps ==
  ASSUME ManySamples, SamplesInv, st # NoStats, conf' = conf, NEW r \in Rank, analysis_event(r)
  PROVE  SamplesInv'
<1> DEFINE w == st[r]
           e == [ts |-> NextTs(w), at |-> w.processed + 1]
           s == w.l.current
           z == [w.l EXCEPT !.ts[s] = e.ts, !.data[s] = e.at, !.current = w.l.next[s]]
           w1 == [w EXCEPT !.l = z, !.q = Append(w.q, e), !.processed = w.processed + 1]
           w2 == IF conf.engine_vt THEN st_collect_engine_data(w1, r, "ANALYSIS_LP") ELSE w1
           w3 == IF conf.ev_trace = "FULL_TRACE" THEN st_collect_event_data(w2, r, e) ELSE w2
           w4 == st_collect_engine_data(w3, r, "RT_COL")
           w5 == st_collect_model_data(w4, r)
           bad == [w EXCEPT !.phase = "fault"]
<1>1. \/ s = NULL /\ Becomes(r, bad)
      \/ s # NULL /\ (Becomes(r, w3) \/ Becomes(r, w5))
  BY DEF analysis_event
<1>2. RankInv(w)
  BY DEF SamplesInv
<1>3. e \in Samp
  <2>1. Len(w.committed) \in Nat /\ Len(w.q) \in Nat /\ w.processed \in Nat
    BY <1>2 DEF RankInv
  <2>2. NextTs(w) = Len(w.committed) + Len(w.q) + 1
    BY DEF NextTs
  <2> HIDE DEF w
  <2>3. NextTs(w) \in Nat /\ w.processed + 1 \in Nat
    <3>1. \A a, b, c \in Nat : a + b + 1 \in Nat /\ c + 1 \in Nat
      OBVIOUS
    <3> QED BY <2>1, <2>2, <3>1, Zenon
  <2> QED BY <2>3 DEF Samp
<1> HIDE DEF e, w2, w3, w4, w5
<1>4. CASE s = NULL
  <2>1. SameSamples(bad, w)
    BY <1>2 DEF RankInv, SameSamples, StatFields
  <2> HIDE DEF bad, w
  <2> QED BY <1>1, <1>2, <1>4, <2>1, SamplesSame, BecomesInv
<1>5. CASE s # NULL
  <2>1. PICK o : InOrder(w.l, o) /\ Holds(w.l, w.q, o)
    BY <1>2 DEF RankInv
  <2>2. w.q \in Seq(Samp) /\ w.processed \in Nat /\ w.committed \in Seq(Samp) /\ DOMAIN w = StatFields
    BY <1>2 DEF RankInv
  <2>3. InOrder(z, o) /\ Holds(z, Append(w.q, e), o)
    <3> HIDE DEF w
    <3> QED BY <1>3, <1>5, <2>1, <2>2, SampleTaken
  <2>4. Append(w.q, e) \in Seq(Samp) /\ w.processed + 1 \in Nat
    BY <1>3, <2>2
  <2> HIDE DEF z, w
  <2>5. /\ DOMAIN w1 = StatFields /\ w1.l = z /\ w1.q = Append(w.q, e) /\ w1.processed = w.processed + 1
        /\ w1.committed = w.committed
    BY <2>2 DEF StatFields
  <2> HIDE DEF w1
  <2>6. RankInv(w1)
    BY <2>2, <2>3, <2>4, <2>5 DEF RankInv
  <2>7. RankInv(w2)
    BY <2>5, <2>6, CollectedSame, SamplesSame DEF w2
  <2>8. RankInv(w3)
    <3>1. DOMAIN w2 = StatFields
      BY <2>7 DEF RankInv
    <3> QED BY <2>7, <3>1, CollectedSame, SamplesSame DEF w3
  <2>9. RankInv(w5)
    <3>1. DOMAIN w3 = StatFields
      BY <2>8 DEF RankInv
    <3>2. RankInv(w4)
      BY <2>8, <3>1, CollectedSame, SamplesSame DEF w4
    <3>3. DOMAIN w4 = StatFields
      BY <3>2 DEF RankInv
    <3> QED BY <3>2, <3>3, CollectedSame, SamplesSame DEF w5
  <2> QED BY <1>1, <1>5, <2>8, <2>9, BecomesInv
<1> QED BY <1>4, <1>5

\* The newest sample is undone.
LEMMA UndoKeeps ==
  ASSUME ManySamples, SamplesInv, st # NoStats, conf' = conf, NEW r \in Rank, analysis_event_rc(r)
  PROVE  SamplesInv'
<1> DEFINE w == st[r]
           s == Search(w.l, w.l.prev, w.l.prev[w.l.current], Last(w.q).ts)
           bad == [w EXCEPT !.phase = "fault"]
           z == MoveToTail(w.l, s)
           x == [w EXCEPT !.q = Front(w.q), !.l = IF s = NULL THEN w.l ELSE z]
<1>1. w.q # <<>> /\ Becomes(r, IF w.l.current = NULL THEN bad ELSE x)
  BY DEF analysis_event_rc
<1>2. RankInv(w)
  BY DEF SamplesInv
<1>3. CASE w.l.current = NULL
  <2>1. SameSamples(bad, w)
    BY <1>2 DEF RankInv, SameSamples, StatFields
  <2> HIDE DEF bad, x, w
  <2> QED BY <1>1, <1>2, <1>3, <2>1, SamplesSame, BecomesInv
<1>4. CASE w.l.current # NULL
  <2>1. PICK o : InOrder(w.l, o) /\ Holds(w.l, w.q, o)
    BY <1>2 DEF RankInv
  <2>2. w.q \in Seq(Samp) /\ w.processed \in Nat /\ w.committed \in Seq(Samp) /\ DOMAIN w = StatFields
    BY <1>2 DEF RankInv
  <2> HIDE DEF w
  <2>3. s # NULL /\ \E u : InOrder(z, u) /\ Holds(z, Front(w.q), u)
    BY <1>1, <1>4, <2>1, <2>2, SampleUndone
  <2> HIDE DEF s, z
  <2>4. /\ DOMAIN x = StatFields /\ x.l = z /\ x.q = Front(w.q) /\ x.processed = w.processed
        /\ x.committed = w.committed
    BY <2>2, <2>3 DEF StatFields
  <2>5. Front(w.q) \in Seq(Samp)
    <3>1. Len(w.q) - 1 \in Int /\ \A i \in 1 .. Len(w.q) - 1 : w.q[i] \in Samp
      BY <2>2
    <3> QED BY <3>1, SubSeqProperties DEF Front
  <2> HIDE DEF x
  <2>6. RankInv(x)
    BY <2>2, <2>3, <2>4, <2>5 DEF RankInv
  <2> QED BY <1>1, <1>4, <2>6, BecomesInv
<1> QED BY <1>3, <1>4

\* Fossil collection commits the samples before the GVT.
LEMMA FossilKeeps ==
  ASSUME ManySamples, SamplesInv, st # NoStats, conf' = conf, NEW r \in Rank, tw_gvt_step2(r)
  PROVE  SamplesInv'
<1> DEFINE w == st[r]
           old == {i \in DOMAIN w.q : w.q[i].ts < w.gvt}
           n == Cardinality(old)
           v[i \in 0 .. n] == IF i = 0 THEN w ELSE Fossil(v[i - 1], r, w.q[i])
           y == v[n]
           w1 == [y EXCEPT !.q = SubSeq(y.q, n + 1, Len(y.q)), !.committed = y.committed \o SubSeq(w.q, 1, n)]
           w2 == st_collect_engine_data(w1, r, "GVT_COL")
           w3 == st_collect_model_data(w2, r)
           w4 == IF w.gvt_done % conf.num_gvt = 0 THEN w3 ELSE w1
           w5 == [w4 EXCEPT !.phase = "dump"]
<1>1. Becomes(r, w5)
  BY DEF tw_gvt_step2, Fossil
<1>2. RankInv(w)
  BY DEF SamplesInv
<1>3. w.q \in Seq(Samp) /\ w.processed \in Nat /\ w.committed \in Seq(Samp) /\ DOMAIN w = StatFields
  BY <1>2 DEF RankInv
<1> HIDE DEF w
<1>4. n \in 0 .. Len(w.q)
  <2>1. old \subseteq 1 .. Len(w.q) /\ Len(w.q) \in Nat
    BY <1>3
  <2> HIDE DEF old
  <2>2. IsFiniteSet(1 .. Len(w.q)) /\ Cardinality(1 .. Len(w.q)) = IF 1 > Len(w.q) THEN 0 ELSE Len(w.q) - 1 + 1
    <3>1. 1 \in Int /\ Len(w.q) \in Int
      BY <2>1
    <3> QED BY <3>1, FS_Interval, Zenon
  <2>3. IsFiniteSet(old) /\ Cardinality(old) <= Cardinality(1 .. Len(w.q))
    BY <2>1, <2>2, FS_Subset
  <2>4. Cardinality(old) \in Nat
    BY <2>3, FS_CardinalityType
  <2> QED BY <2>1, <2>2, <2>3, <2>4
<1> HIDE DEF n
<1>5. Collecting(y, w, SubSeq(w.q, n + 1, Len(w.q)))
  BY <1>2, <1>4, Fossils
<1> HIDE DEF y
<1>6. /\ DOMAIN w1 = StatFields /\ w1.l = y.l /\ w1.q = SubSeq(w.q, n + 1, Len(w.q))
      /\ w1.committed = w.committed \o SubSeq(w.q, 1, n) /\ w1.processed = w.processed
  <2>1. DOMAIN y = StatFields /\ y.q = w.q /\ y.committed = w.committed /\ y.processed = w.processed
    BY <1>5 DEF Collecting
  <2> QED BY <2>1 DEF StatFields
<1>7. SubSeq(w.q, n + 1, Len(w.q)) \in Seq(Samp) /\ SubSeq(w.q, 1, n) \in Seq(Samp)
  <2>1. /\ n + 1 \in Int /\ n \in Int /\ Len(w.q) \in Int
        /\ (\A i \in n + 1 .. Len(w.q) : w.q[i] \in Samp) /\ (\A i \in 1 .. n : w.q[i] \in Samp)
    BY <1>3, <1>4
  <2> QED BY <2>1, SubSeqProperties
<1>8. w.committed \o SubSeq(w.q, 1, n) \in Seq(Samp)
  BY <1>3, <1>7, ConcatProperties
<1> HIDE DEF w1
<1>9. RankInv(w1)
  BY <1>3, <1>5, <1>6, <1>7, <1>8 DEF RankInv, Collecting
<1> HIDE DEF w2, w3
<1>10. RankInv(w3)
  <2>1. RankInv(w2)
    BY <1>6, <1>9, CollectedSame, SamplesSame DEF w2
  <2>2. DOMAIN w2 = StatFields
    BY <2>1 DEF RankInv
  <2> QED BY <2>1, <2>2, CollectedSame, SamplesSame DEF w3
<1>11. RankInv(w4)
  BY <1>9, <1>10
<1> HIDE DEF w4
<1>12. SameSamples(w5, w4)
  BY <1>11 DEF RankInv, SameSamples, StatFields
<1> HIDE DEF w5
<1>13. RankInv(w5)
  BY <1>11, <1>12, SamplesSame
<1> QED BY <1>1, <1>13, BecomesInv

\* The instrumentation keeps the samples.
LEMMA StatsStep ==
  ASSUME ManySamples, SamplesInv, StatsNext, conf' = conf
  PROVE  SamplesInv'
<1>0. Rank' = Rank
  BY DEF Rank
<1>1. CASE StatsRun
  <2>1. st' = [r \in Rank |-> StartStats] /\ conf.synch = "stats"
    BY <1>1 DEF StatsRun
  <2>2. ASSUME NEW r \in Rank PROVE RankInv(st[r])'
    <3>1. RankInv(st'[r])
      BY <2>1, StartInv
    <3> QED BY <3>1, RankFrame
  <2> QED BY <1>0, <2>1, <2>2 DEF SamplesInv
<1>2. CASE st # NoStats /\ tw_gvt_begin
  <2>1. PICK g : st' = [r \in Rank |-> [st[r] EXCEPT !.phase = "gvt", !.gvt = g]]
    BY <1>2 DEF tw_gvt_begin
  <2>2. ASSUME NEW r \in Rank PROVE RankInv(st[r])'
    <3>1. RankInv(st[r])
      BY <1>2 DEF SamplesInv
    <3>2. SameSamples([st[r] EXCEPT !.phase = "gvt", !.gvt = g], st[r])
      BY <3>1 DEF RankInv, SameSamples, StatFields
    <3>3. RankInv(st'[r])
      BY <2>1, <3>1, <3>2, SamplesSame
    <3> QED BY <3>3, RankFrame
  <2> QED BY <1>0, <1>2, <2>1, <2>2 DEF SamplesInv
<1>3. CASE st # NoStats /\ AllgatherSizes
  <2> DEFINE sz == [t \in ColType |-> [q \in Rank |-> Len(st[q].buffer[t])]]
  <2>1. st' = [r \in Rank |-> [st[r] EXCEPT !.phase = "write", !.sizes = sz]]
    BY <1>3 DEF AllgatherSizes
  <2> HIDE DEF sz
  <2>2. ASSUME NEW r \in Rank PROVE RankInv(st[r])'
    <3>1. RankInv(st[r])
      BY <1>3 DEF SamplesInv
    <3>2. SameSamples([st[r] EXCEPT !.phase = "write", !.sizes = sz], st[r])
      BY <3>1 DEF RankInv, SameSamples, StatFields
    <3>3. RankInv(st'[r])
      BY <2>1, <3>1, <3>2, SamplesSame
    <3> QED BY <3>3, RankFrame
  <2> QED BY <1>0, <1>3, <2>1, <2>2 DEF SamplesInv
<1>4. ASSUME st # NoStats, NEW r \in Rank, st_inst_finalize(r)
      PROVE  SamplesInv'
  <2> DEFINE w == st[r]
             w1 == st_collect_engine_data(w, r, "RT_COL")
             w2 == [w1 EXCEPT !.phase = "dump", !.final = TRUE]
  <2>1. Becomes(r, w2)
    BY <1>4 DEF st_inst_finalize
  <2>2. RankInv(w) /\ DOMAIN w = StatFields
    BY <1>4 DEF SamplesInv, RankInv
  <2> HIDE DEF w, w1
  <2>3. RankInv(w1)
    BY <2>2, CollectedSame, SamplesSame DEF w1
  <2>4. SameSamples(w2, w1)
    BY <2>3 DEF RankInv, SameSamples, StatFields
  <2> HIDE DEF w2
  <2>5. RankInv(w2)
    BY <2>3, <2>4, SamplesSame
  <2> QED BY <1>4, <2>1, <2>5, BecomesInv
<1>5. ASSUME st # NoStats, NEW r \in Rank, st_buffer_write(r)
      PROVE  SamplesInv'
  <2>1. PICK u : st' = [st EXCEPT ![r] = u] /\ SameSamples(u, st[r])
    <3> DEFINE w == st[r]
      <3>1. DOMAIN st[r] = StatFields
      BY <1>5 DEF SamplesInv, RankInv
    <3>2. \E b, p, z, d, f : st' = [st EXCEPT ![r] =
            [st[r] EXCEPT !.buffer = b, !.prev_offset = p, !.sizes = z, !.gvt_done = d, !.phase = f]]
      BY <1>5, Zenon DEF st_buffer_write
    <3>3. PICK b, p, z, d, f : st' = [st EXCEPT ![r] =
            [st[r] EXCEPT !.buffer = b, !.prev_offset = p, !.sizes = z, !.gvt_done = d, !.phase = f]]
      BY <3>2
    <3>4. SameSamples([st[r] EXCEPT !.buffer = b, !.prev_offset = p, !.sizes = z, !.gvt_done = d, !.phase = f], st[r])
      BY <3>1 DEF SameSamples, StatFields
    <3> QED BY <3>3, <3>4
  <2>2. DOMAIN st = Rank /\ conf.synch = "stats" /\ \A s \in Rank : RankInv(st[s])
    BY <1>5 DEF SamplesInv
  <2>3. RankInv(u)
    BY <2>1, <2>2, SamplesSame
  <2>4. ASSUME NEW s \in Rank PROVE RankInv(st[s])'
    <3>1. st'[s] = IF s = r THEN u ELSE st[s]
      BY <2>1, <2>2
    <3>2. RankInv(st'[s])
      BY <2>2, <2>3, <3>1
    <3> QED BY <3>2, RankFrame
  <2> QED BY <1>0, <2>1, <2>2, <2>4 DEF SamplesInv
<1> QED BY <1>1, <1>2, <1>3, <1>4, <1>5, EventKeeps, UndoKeeps, FossilKeeps DEF StatsNext

\* A job with instrumentation has places for its samples.
SamplesHere == conf.synch = "stats" => ManySamples

\* Every step keeps them: no other runs along with the instrumentation.
LEMMA SamplesStep ==
  ASSUME SamplesHere, AloneInv, SamplesInv, [Next]_vars
  PROVE  SamplesInv'
<1>1. CASE StatsJob
  <2>1. StatsNext /\ conf' = conf
    BY <1>1, StatsLeaves DEF StatsJob, setupVars
  <2>2. conf.synch = "stats"
    BY <2>1 DEF StatsNext, StatsRun, SamplesInv
  <2> QED BY <2>1, <2>2, StatsStep DEF SamplesHere
<1>2. CASE ~StatsJob
  <2>1. st' = st
    BY <1>2 DEF Next, DefineLps, RioJob, tw_run, Dequeue, ForwardPass, RollbackPass, AgainPass, DebugForward,
                DebugRollback, Ended, vars, statVars
  <2>2. CASE st = NoStats
    BY <2>1, <2>2 DEF SamplesInv, NoStats
  <2>3. CASE st # NoStats
    <3>1. conf.synch = "stats" /\ DOMAIN st = Rank /\ \A r \in Rank : RankInv(st[r])
      BY <2>3 DEF SamplesInv
    <3>2. conf' = conf
      BY <3>1, ConfStays
    <3>3. Rank' = Rank
      BY <3>2 DEF Rank
    <3>4. ASSUME NEW r \in Rank PROVE RankInv(st[r])'
      <4>1. RankInv(st'[r])
        BY <2>1, <3>1
      <4> QED BY <3>2, <4>1, RankFrame
    <3> QED BY <2>1, <3>1, <3>2, <3>3, <3>4 DEF SamplesInv
  <2> QED BY <2>2, <2>3
<1> QED BY <1>1, <1>2

\* What that says of the walks along the list.
LEMMA KeptIs ==
  ASSUME SamplesHere, SamplesInv
  PROVE  SamplesKept
<1> SUFFICES ASSUME st # NoStats, NEW r \in Rank
             PROVE  LET l == st[r].l
                        all == Along(l.next, l.head)
                        used == {i \in DOMAIN all : i <= Len(st[r].q)}
                    IN  /\ Len(all) = conf.samples /\ ToSet(all) = 1 .. conf.samples
                        /\ l.tail = Last(all) /\ Along(l.prev, l.tail) = Reverse(all)
                        /\ \A i \in used : [ts |-> l.ts[all[i]], at |-> l.data[all[i]]] = st[r].q[i]
                        /\ l.current # NULL => l.current = all[Len(st[r].q) + 1]
  BY DEF SamplesKept
<1> DEFINE l == st[r].l
           q == st[r].q
           n == conf.samples
<1>1. ManySamples /\ RankInv(st[r])
  BY DEF SamplesHere, SamplesInv
<1>2. q \in Seq(Samp) /\ n \in Nat /\ n >= 2 /\ Places = 1 .. n
  BY <1>1 DEF RankInv, ManySamples, Places
<1>3. PICK o : InOrder(l, o) /\ Holds(l, q, o)
  BY <1>1 DEF RankInv
<1> HIDE DEF l, q
<1>4. o \in Seq(Places) /\ Len(o) = n /\ Path(l.next, o)
      /\ \A k \in Places : Path(l.prev, [i \in 1 .. k |-> o[k + 1 - i]])
  BY <1>1, <1>3, Walks
<1>5. l.head = o[1] /\ l.tail = o[n] /\ (\A s \in Places : \E i \in Places : o[i] = s) /\ o \in [Places -> Places]
  BY <1>3 DEF InOrder
<1>6. Along(l.next, l.head) = o
  BY <1>1, <1>4, <1>5, AlongIs
<1>7. Along(l.prev, l.tail) = Reverse(o)
  <2> DEFINE p == [i \in 1 .. n |-> o[n + 1 - i]]
  <2>1. Path(l.prev, p) /\ p[1] = o[n]
    <3>1. n \in Places /\ 1 \in 1 .. n /\ n + 1 - 1 = n
      BY <1>2
    <3> QED BY <1>4, <3>1
  <2>2. Reverse(o) = p
    <3>1. \A i \in 1 .. n : (n - i) + 1 = n + 1 - i
      BY <1>2
    <3> QED BY <1>4, <3>1 DEF Reverse
  <2> HIDE DEF p
  <2> QED BY <1>1, <1>5, <2>1, <2>2, AlongIs
<1>8. ToSet(o) = 1 .. n /\ Last(o) = l.tail
  <2>1. DOMAIN o = Places
    BY <1>5
  <2> HIDE DEF n
  <2> QED BY <1>2, <1>4, <1>5, <2>1 DEF ToSet, Last
<1>9. ASSUME NEW i \in DOMAIN o, i <= Len(q)
      PROVE  [ts |-> l.ts[o[i]], at |-> l.data[o[i]]] = q[i]
  <2>1. i \in 1 .. Len(q)
    BY <1>2, <1>5, <1>9
  <2> QED BY <1>3, <2>1 DEF Holds
<1>10. l.current # NULL => l.current = o[Len(q) + 1]
  BY <1>3 DEF Holds
<1> QED BY <1>4, <1>6, <1>7, <1>8, <1>9, <1>10 DEF l, q

\* The list of an analysis LP loses no place and mixes up no sample, in any order of samples, rollbacks
\* and commits (analysis_event, analysis_event_rc, analysis_commit), for any number of places above one.
THEOREM SamplesInOrder ==
  Spec /\ []SamplesHere => []SamplesKept
<1>1. Init => AloneInv /\ SamplesInv
  BY DEF Init, RioInit, StatsInit, AloneInv, SamplesInv
<1>2. SamplesHere /\ (AloneInv /\ SamplesInv) /\ [Next]_vars => (AloneInv /\ SamplesInv)'
  BY AloneStep, SamplesStep
<1>3. SamplesHere /\ (AloneInv /\ SamplesInv) => SamplesKept
  BY KeptIs
<1> QED BY <1>1, <1>2, <1>3, PTL DEF Spec
=============================================================================

------------------------------- MODULE Setup -------------------------------
(***************************************************************************)
(* From tw_define_lps to tw_run: every rank makes its KPs and LPs, maps    *)
(* one to the other, starts the random number streams of its LPs, and      *)
(* checks the result.  tw_error on one rank ends the program on all.       *)
(* Custom mappings are the model's own.                                    *)
(***************************************************************************)
EXTENDS Rng, FiniteSets

\* What the user may choose: records with the number of ranks nnodes, nlp for
\* each of them, mapping, g_tw_nkp as the model set it, nkp_per_pe as the
\* option did, numbers of streams per LP, the two seeds, synch, and analysis,
\* whether there are analysis LPs.
CONSTANT Conf

VARIABLES
  conf,
  stage,        \* "define", "allreduce", "map", "check", "run" or "error"
  g_tw_total_lps,
  g_tw_nkp,
  g_tw_kp,      \* the KPs allocated on each rank
  g_tw_lp       \* the LPs of each rank, by local number

setupVars == <<conf, stage, g_tw_total_lps, g_tw_nkp, g_tw_kp, g_tw_lp>>

Rank == 0 .. conf.nnodes - 1

SetupInit ==
  /\ conf \in Conf
  /\ stage = [r \in Rank |-> "define"]
  /\ g_tw_total_lps = 0
  /\ g_tw_nkp = [r \in Rank |-> conf.nkp]
  /\ g_tw_kp = [r \in Rank |-> {}]
  /\ g_tw_lp = [r \in Rank |-> <<>>]

Up == \A r \in Rank : stage[r] # "error"

\* tw_define_lps up to its Allreduce.
EnterDefine(r) ==
  /\ Up /\ stage[r] = "define"
  /\ stage' = [stage EXCEPT ![r] = "allreduce"]
  /\ UNCHANGED <<conf, g_tw_total_lps, g_tw_nkp, g_tw_kp, g_tw_lp>>

\* The Allreduce adds the numbers of LPs up.
AllreduceLps ==
  /\ \A r \in Rank : stage[r] = "allreduce"
  /\ g_tw_total_lps' = LET sum[r \in -1 .. conf.nnodes - 1] ==
                             IF r < 0 THEN 0 ELSE sum[r - 1] + conf.nlp[r]
                       IN  sum[conf.nnodes - 1]
  /\ stage' = [r \in Rank |-> "map"]
  /\ UNCHANGED <<conf, g_tw_nkp, g_tw_kp, g_tw_lp>>

\* g_tw_nkp after the adjustment for --nkp=0.
early_sanity_check == IF conf.nkp_per_pe = 0 THEN 1 ELSE conf.nkp

\* The option overrides g_tw_nkp while it has its default, adjusted or not.
Nkp ==
  IF early_sanity_check = 1 /\ conf.synch # "debug" THEN conf.nkp_per_pe ELSE early_sanity_check

\* The KPs ids, one after the other, are below g_tw_nkp and new.
tw_kp_onpe(ids, nkp) ==
  \A i \in DOMAIN ids : ids[i] < nkp /\ \A j \in DOMAIN ids : ids[j] = ids[i] => j = i

\* The tables of rank r, or ok FALSE where an error is reported: a KP beyond
\* g_tw_nkp, or LPs left over.  Without a KP there are, whatever the quotient
\* by zero becomes.
map_linear(r, nkp) ==
  LET nlp == conf.nlp[r]
      kps == [k \in 0 .. conf.nkp_per_pe - 1 |-> k]
      nlp_per_kp == IF nkp = 0 THEN 1 ELSE (nlp + nkp - 1) \div nkp
  IN  [ok |-> tw_kp_onpe(kps, nkp) /\ nlp <= conf.nkp_per_pe * nlp_per_kp,
       kp |-> DOMAIN kps,
       gid |-> [i \in 0 .. nlp - 1 |-> r * nlp + i],
       on |-> [i \in 0 .. nlp - 1 |-> i \div nlp_per_kp]]

\* Mutant: the ranks number their LPs one after the other here too.
map_round_robin_blocks(r, nkp) ==
  LET nlp == conf.nlp[r]
      kps == [i \in 0 .. nlp - 1 |-> IF nkp = 0 THEN 0 ELSE i % nkp]
  IN  [ok |-> tw_kp_onpe(kps, nkp),
       kp |-> {kps[i] : i \in DOMAIN kps},
       gid |-> [i \in 0 .. nlp - 1 |-> r * nlp + i],
       on |-> kps]

\* The same by turns, with a KP for every LP: two LPs on one KP are an error, as
\* is the remainder by zero without KPs.
map_round_robin(r, nkp) ==
  LET nlp == conf.nlp[r]
      kps == [i \in 0 .. nlp - 1 |-> IF nkp = 0 THEN 0 ELSE i % nkp]
  IN  [ok |-> tw_kp_onpe(kps, nkp),
       kp |-> {kps[i] : i \in DOMAIN kps},
       gid |-> [i \in 0 .. nlp - 1 |-> r + i * conf.nnodes],
       on |-> kps]

\* The numbers of an LP's streams; those of the core follow all others.
StreamIds(gid) ==
  [rng  |-> [i \in 0 .. conf.nrng - 1 |-> gid * conf.nrng + i],
   core |-> [i \in 0 .. conf.ncore - 1 |->
               ((g_tw_total_lps * conf.nrng) % (2 ^ IntBits)) + gid * conf.ncore + i]]

\* The seeds of the two generators, given or default.
rng_seed == clamp_seed(conf.seed)
core_rng_seed == clamp_seed(conf.core_seed)

tw_rand_init_streams(gid) ==
  LET ids == StreamIds(gid)
  IN  [rng  |-> [i \in DOMAIN ids.rng |-> tw_rand_initial_seed(ids.rng[i], rng_seed)],
       core |-> [i \in DOMAIN ids.core |-> tw_rand_initial_seed(ids.core[i], core_rng_seed)]]

\* An LP in its place.
tw_lp_onkp(gid, kp, streams) ==
  [gid |-> gid, kp |-> kp, rng |-> streams.rng, core_rng |-> streams.core]

\* With virtual time sampling there is an LP more for each KP, behind the LPs of
\* the model on the rank and in all; a KP that was never made is a fault.
specialized_lp_init_mapping(r, nkp, tables) ==
  IF ~conf.analysis THEN tables
  ELSE LET n == conf.nlp[r]
       IN  [ok |-> tables.ok /\ 0 .. nkp - 1 \subseteq tables.kp,
            kp |-> tables.kp,
            gid |-> [i \in 0 .. n + nkp - 1 |->
                       IF i < n THEN tables.gid[i] ELSE g_tw_total_lps + r * nkp + (i - n)],
            on |-> [i \in 0 .. n + nkp - 1 |-> IF i < n THEN tables.on[i] ELSE i - n]]

\* tw_define_lps after its Allreduce.
tw_define_lps(r) ==
  LET nkp == Nkp
      tables == specialized_lp_init_mapping(r, nkp,
                  IF conf.mapping = "linear" THEN map_linear(r, nkp) ELSE map_round_robin(r, nkp))
  IN  /\ Up /\ stage[r] = "map"
      /\ IF conf.nlp[r] = 0 \/ ~tables.ok
         THEN /\ stage' = [stage EXCEPT ![r] = "error"]
              /\ UNCHANGED <<g_tw_nkp, g_tw_kp, g_tw_lp>>
         ELSE /\ stage' = [stage EXCEPT ![r] = "check"]
              /\ g_tw_nkp' = [g_tw_nkp EXCEPT ![r] = nkp]
              /\ g_tw_kp' = [g_tw_kp EXCEPT ![r] = tables.kp]
              /\ g_tw_lp' = [g_tw_lp EXCEPT ![r] =
                    [i \in DOMAIN tables.gid |->
                       tw_lp_onkp(tables.gid[i], tables.on[i], tw_rand_init_streams(tables.gid[i]))]]
      /\ UNCHANGED <<conf, g_tw_total_lps>>

\* tw_run begins with this: a KP that was never mapped is an error.
late_sanity_check(r) ==
  /\ Up /\ stage[r] = "check"
  /\ stage' = [stage EXCEPT ![r] =
        IF /\ \A k \in 0 .. g_tw_nkp[r] - 1 : k \in g_tw_kp[r]
           /\ \A i \in DOMAIN g_tw_lp[r] : g_tw_lp[r][i].kp \in g_tw_kp[r]
        THEN "run" ELSE "error"]
  /\ UNCHANGED <<conf, g_tw_total_lps, g_tw_nkp, g_tw_kp, g_tw_lp>>

IsAnalysis(gid) == conf.analysis /\ gid >= g_tw_total_lps

\* The LP that rank r finds for a number.
tw_getlocal_lp(r, gid) ==
  IF IsAnalysis(gid) THEN ((gid - g_tw_total_lps) % g_tw_nkp[r]) + conf.nlp[r]
  ELSE IF conf.mapping = "linear" THEN gid - r * conf.nlp[r] ELSE gid \div conf.nnodes

analysis_map(r, gid) == (gid - g_tw_total_lps) \div g_tw_nkp[r]

\* The rank an event for gid is sent to, which the model says: the map that
\* fits the numbering of the LPs.
lp_map(r, gid) ==
  IF IsAnalysis(gid) THEN analysis_map(r, gid)
  ELSE IF conf.mapping = "linear" THEN gid \div conf.nlp[r] ELSE gid % conf.nnodes

SetupNext ==
  \/ \E r \in Rank : EnterDefine(r) \/ tw_define_lps(r) \/ late_sanity_check(r)
  \/ AllreduceLps

-----------------------------------------------------------------------------
\* Once the checks let all ranks run, whoever sends to any LP of the simulation
\* reaches a rank that finds this LP in its table, and each KP is the rank's own;
\* analysis LPs are found by arithmetic of their own.
LpsFound ==
  (\A r \in Rank : stage[r] = "run") =>
    \A r \in Rank,
       gid \in 0 .. g_tw_total_lps + (IF conf.analysis THEN conf.nnodes * g_tw_nkp[0] ELSE 0) - 1 :
      LET d == lp_map(r, gid)
          i == tw_getlocal_lp(d, gid)
      IN  /\ d \in Rank /\ i \in DOMAIN g_tw_lp[d]
          /\ g_tw_lp[d][i].gid = gid /\ g_tw_lp[d][i].kp < g_tw_nkp[d]

\* "ROSS core rng streams should be seeded after lp rng streams" (rand-clcg4.c):
\* the streams of all LPs of all ranks have numbers of their own, and a stream
\* starts 2^(V+W) draws times its number behind the seed, as the squarings
\* and 32 bit products should make it.  The streams of analysis LPs, which
\* draw tie-breakers only, have the numbers of core streams.
StreamsApart ==
  LET Power(x, n, j) == LET f[i \in 0 .. n] == IF i = 0 THEN 1 ELSE (x * f[i - 1]) % M[j] IN f[n]
      At(s, j, id) == (Power(Power(A[j], 2 ^ (V + W), j), id, j) * s[j]) % M[j]
      N  == g_tw_total_lps * conf.nrng
      Lp == UNION {{g_tw_lp[r][i] : i \in DOMAIN g_tw_lp[r]} : r \in Rank}
      Id(lp) == StreamIds(lp.gid)
  IN  \A lp \in Lp :
        /\ \A i \in DOMAIN lp.rng :
             /\ IsAnalysis(lp.gid) \/ Id(lp).rng[i] < N
             /\ \A j \in J : lp.rng[i].Ig[j] = At(rng_seed, j, Id(lp).rng[i])
        /\ \A i \in DOMAIN lp.core_rng :
             /\ Id(lp).core[i] >= N
             /\ \A j \in J : lp.core_rng[i].Ig[j] = At(core_rng_seed, j, Id(lp).core[i])
        /\ \A other \in Lp \ {lp}, i \in DOMAIN lp.rng, k \in DOMAIN lp.core_rng :
             /\ \A n \in DOMAIN other.rng : Id(other).rng[n] # Id(lp).rng[i]
             /\ \A n \in DOMAIN other.core_rng : Id(other).core[n] # Id(lp).core[k]
=============================================================================

---------------------------- MODULE EventQProofs ----------------------------
(***************************************************************************)
(* The pointer operations of EventQ do to the three queues what sequences  *)
(* would: the facts from which EventMemoryProofs has that no buffer is     *)
(* lost and that EventLists is implemented.                                *)
(*                                                                         *)
(* IsQueue(mm, q, s) says that next, prev, head, tail and size of q all    *)
(* describe the sequence s.  Each operation takes a queue that holds s to  *)
(* one that holds what it should, and touches no pointer Elsewhere (PushIs *)
(* to PopListIs); a list can be joined to another (LinkedIs) and what its  *)
(* events had sent be freed onto the same queue while it is walked         *)
(* (FreeSentIs, PushListIs, FossilIs).  The invariant ListInv adds whose   *)
(* each event is; then every action is a step of EventLists or leaves it.  *)
(*                                                                         *)
(* A loop of the model is a recursive function: Recursion says there is    *)
(* one, and the proofs compare it with what it should be, pass by pass.    *)
(***************************************************************************)
EXTENDS EventQ, FiniteSetTheorems, SequenceTheorems, WellFoundedInduction, TLAPS

\* Least elements.
LEMMA NatMin ==
  ASSUME NEW T \in SUBSET Nat, T # {}
  PROVE  \E x \in T : \A y \in T : x <= y
<1> DEFINE R == OpToRel(<, Nat)
<1>1. PICK x \in T : \A y \in T : <<y, x>> \notin R
  <2> HIDE DEF R
  <2> QED BY WFMin, NatLessThanWellFounded DEF R
<1>2. \A y \in T : ~(y < x)
  BY <1>1 DEF OpToRel
<1> QED BY <1>2

\* Induction over the passes 0 to n of a loop.
LEMMA UpTo ==
  ASSUME NEW n \in Nat, NEW T, 0 \in T, \A i \in 0 .. n - 1 : i \in T => i + 1 \in T
  PROVE  \A i \in 0 .. n : i \in T
<1>1. SUFFICES ASSUME NEW i \in 0 .. n, i \notin T PROVE FALSE
  OBVIOUS
<1> DEFINE S == {k \in 0 .. n : k \notin T}
<1>2. S # {} /\ S \in SUBSET Nat
  BY <1>1
<1>3. PICK k \in S : \A j \in S : k <= j
  BY <1>2, NatMin, Zenon
<1>4. k # 0 /\ k \in Nat
  BY <1>3
<1>5. k - 1 \in Nat /\ k - 1 \notin S
  BY <1>3, <1>4
<1>6. k - 1 \in 0 .. n - 1 /\ k - 1 \in T /\ (k - 1) + 1 = k
  BY <1>3, <1>4, <1>5
<1> QED BY <1>3, <1>6

\* f is the loop that starts with a and goes on as G says.
Goes(f, n, S, a, G) ==
  f \in [0 .. n -> S] /\ f[0] = a /\ \A i \in 1 .. n : f[i] = G[f[i - 1]]

\* A loop has a value at each of its passes.
LEMMA Recursion ==
  ASSUME NEW n \in Nat, NEW S, NEW a \in S, NEW G \in [S -> S]
  PROVE  \E f : Goes(f, n, S, a, G)
<1> DEFINE T == {k \in 0 .. n : \E f : Goes(f, k, S, a, G)}
<1>1. 0 \in T
  <2>1. Goes([i \in 0 .. 0 |-> a], 0, S, a, G)
    BY DEF Goes
  <2> QED BY <2>1
<1>2. ASSUME NEW i \in 0 .. n - 1, i \in T
      PROVE  i + 1 \in T
  <2>1. PICK f : Goes(f, i, S, a, G)
    BY <1>2
  <2> DEFINE g == [j \in 0 .. i + 1 |-> IF j = i + 1 THEN G[f[i]] ELSE f[j]]
  <2>2. f \in [0 .. i -> S] /\ f[i] \in S /\ i + 1 \in 0 .. n
    BY <2>1 DEF Goes
  <2>3. G[f[i]] \in S
    BY <2>2
  <2>4. g \in [0 .. i + 1 -> S] /\ g[0] = a
    BY <2>1, <2>2, <2>3 DEF Goes
  <2>5. \A j \in 1 .. i + 1 : g[j] = G[g[j - 1]]
    <3>1. TAKE j \in 1 .. i + 1
    <3>2. CASE j = i + 1
      <4>1. j - 1 = i /\ i \in 0 .. i + 1 /\ i # i + 1 /\ i + 1 \in 0 .. i + 1
        BY <3>2
      <4> QED BY <3>2, <4>1
    <3>3. CASE j # i + 1
      <4>1. j \in 1 .. i /\ j - 1 \in 0 .. i + 1 /\ j - 1 # i + 1 /\ j \in 0 .. i + 1
        BY <3>3
      <4> QED BY <2>1, <3>3, <4>1 DEF Goes
    <3> QED BY <3>2, <3>3
  <2>6. Goes(g, i + 1, S, a, G)
    BY <2>4, <2>5 DEF Goes
  <2> HIDE DEF g
  <2> QED BY <2>2, <2>6
<1>3. n \in T
  <2> HIDE DEF T
  <2>1. \A i \in 0 .. n : i \in T
    BY <1>1, <1>2, UpTo
  <2> QED BY <2>1
<1> QED BY <1>3
-----------------------------------------------------------------------------
\* An event or none.
Ref == Event \cup {Null}

\* The memory that the operators of EventQ work on.
Mem ==
  [next : [Event -> Ref], prev : [Event -> Ref],
   head : [Queue -> Ref], tail : [Queue -> Ref], size : [Queue -> Nat]]

\* Lists: sequences of events without repetition.
Lists == {s \in Seq(Event) : \A i, j \in 1 .. Len(s) : s[i] = s[j] => i = j}

\* The elements of a list.
On(s) == {s[i] : i \in 1 .. Len(s)}

\* The i-th event of s, none beyond its ends.
At(s, i) == IF i \in 1 .. Len(s) THEN s[i] ELSE Null

\* The next fields from e on give s.
IsChain(mm, e, s) ==
  /\ s \in Lists /\ e = At(s, 1)
  /\ \A i \in 1 .. Len(s) : mm.next[s[i]] = At(s, i + 1)

\* The queue q holds s: both directions, both ends and the size agree.
IsQueue(mm, q, s) ==
  /\ IsChain(mm, mm.head[q], s)
  /\ \A i \in 1 .. Len(s) : mm.prev[s[i]] = At(s, i - 1)
  /\ mm.tail[q] = At(s, Len(s)) /\ mm.size[q] = Len(s)

\* Between mm and r only the events of R and the queue q may differ.
Elsewhere(mm, r, q, R) ==
  /\ \A e \in Event \ R : r.next[e] = mm.next[e] /\ r.prev[e] = mm.prev[e]
  /\ \A k \in Queue \ {q} : r.head[k] = mm.head[k] /\ r.tail[k] = mm.tail[k] /\ r.size[k] = mm.size[k]

\* What is elsewhere stays.
LEMMA QueueFrame ==
  ASSUME NEW mm, NEW r, NEW q, NEW R, Elsewhere(mm, r, q, R),
         NEW k \in Queue \ {q}, NEW s, IsQueue(mm, k, s), On(s) \cap R = {}
  PROVE  IsQueue(r, k, s)
<1>1. \A i \in 1 .. Len(s) : s[i] \in Event \ R
  BY DEF On, IsQueue, IsChain, Lists
<1> QED BY <1>1 DEF Elsewhere, IsQueue, IsChain

\* So does a part of a list that is elsewhere.
LEMMA ChainFrame ==
  ASSUME NEW mm, NEW r, NEW q, NEW R, Elsewhere(mm, r, q, R),
         NEW e, NEW s, IsChain(mm, e, s), On(s) \cap R = {}
  PROVE  IsChain(r, e, s)
<1>1. \A i \in 1 .. Len(s) : s[i] \in Event \ R
  BY DEF On, IsChain, Lists
<1> QED BY <1>1 DEF Elsewhere, IsChain

\* A list is no longer than there are events.
LEMMA ListLength ==
  ASSUME NEW s \in Lists
  PROVE  Len(s) \in 0 .. N
<1>1. N \in Nat /\ Len(s) \in Nat /\ s \in [1 .. Len(s) -> Event]
  BY EventQAssumption DEF Lists
<1>2. IsFiniteSet(1 .. Len(s)) /\ Cardinality(1 .. Len(s)) = Len(s)
  BY SMTT(30), <1>1, FS_Interval
<1>3. IsFiniteSet(Event) /\ Cardinality(Event) = N
  BY SMTT(30), <1>1, FS_Interval DEF Event
<1>4. s \in Injection(1 .. Len(s), Event)
  BY <1>1 DEF Lists, Injection, IsInjective
<1> QED BY <1>1, <1>2, <1>3, <1>4, FS_Injection
-----------------------------------------------------------------------------
\* A part of a list, from place a to place z.
LEMMA Part ==
  ASSUME NEW s \in Lists, NEW a \in 1 .. Len(s) + 1, NEW z \in a - 1 .. Len(s)
  PROVE  /\ SubSeq(s, a, z) \in Lists /\ Len(SubSeq(s, a, z)) = z - a + 1
         /\ \A i \in 1 .. z - a + 1 : SubSeq(s, a, z)[i] = s[a + i - 1]
         /\ On(SubSeq(s, a, z)) = {s[i] : i \in a .. z}
<1> DEFINE t == SubSeq(s, a, z)
<1>1. s \in Seq(Event) /\ Len(s) \in Nat /\ a \in Int /\ z \in Int /\ z - a + 1 \in Nat
  BY DEF Lists
<1>2. \A i \in a .. z : i \in 1 .. Len(s) /\ s[i] \in Event
  BY <1>1
<1>3. /\ t \in Seq(Event) /\ Len(t) = z - a + 1
      /\ \A i \in 1 .. z - a + 1 : t[i] = s[a + i - 1]
  BY <1>1, <1>2, SubSeqProperties
<1> HIDE DEF t
<1>4. \A i \in 1 .. z - a + 1 : a + i - 1 \in 1 .. Len(s) /\ a + i - 1 \in a .. z
  BY <1>1
<1>5. t \in Lists
  <2>1. ASSUME NEW i \in 1 .. Len(t), NEW j \in 1 .. Len(t), t[i] = t[j] PROVE i = j
    <3>1. i \in 1 .. z - a + 1 /\ j \in 1 .. z - a + 1
      BY <1>3
    <3>2. s[a + i - 1] = s[a + j - 1]
      BY <1>3, <2>1, <3>1
    <3>3. a + i - 1 = a + j - 1
      BY <1>4, <3>1, <3>2 DEF Lists
    <3> QED BY <1>1, <3>1, <3>3
  <2> QED BY <1>3, <2>1 DEF Lists
<1>6. On(t) = {s[i] : i \in a .. z}
  <2>1. ASSUME NEW i \in a .. z PROVE s[i] \in On(t)
    <3>1. i - a + 1 \in 1 .. z - a + 1 /\ a + (i - a + 1) - 1 = i
      BY <1>1
    <3>2. t[i - a + 1] = s[i]
      BY <1>3, <3>1
    <3> QED BY <1>3, <3>1, <3>2 DEF On
  <2>2. \A i \in 1 .. Len(t) : t[i] \in {s[j] : j \in a .. z}
    BY <1>3, <1>4
  <2> QED BY <2>1, <2>2 DEF On
<1> QED BY <1>3, <1>5, <1>6 DEF t

\* Two lists with no event in common, one after the other.
LEMMA Joined ==
  ASSUME NEW s \in Lists, NEW t \in Lists, On(s) \cap On(t) = {}
  PROVE  /\ s \o t \in Lists /\ Len(s \o t) = Len(s) + Len(t)
         /\ \A i \in 1 .. Len(s) : (s \o t)[i] = s[i]
         /\ \A i \in 1 .. Len(t) : (s \o t)[Len(s) + i] = t[i]
         /\ On(s \o t) = On(s) \cup On(t)
<1> DEFINE u == s \o t
<1>1. s \in Seq(Event) /\ t \in Seq(Event) /\ Len(s) \in Nat /\ Len(t) \in Nat
  BY DEF Lists
<1>2. /\ u \in Seq(Event) /\ Len(u) = Len(s) + Len(t)
      /\ \A i \in 1 .. Len(s) + Len(t) : u[i] = IF i <= Len(s) THEN s[i] ELSE t[i - Len(s)]
  BY <1>1, ConcatProperties
<1> HIDE DEF u
<1>3. \A i \in 1 .. Len(s) : i \in 1 .. Len(u) /\ u[i] = s[i] /\ s[i] \in On(s)
  BY <1>1, <1>2 DEF On
<1>4. ASSUME NEW i \in 1 .. Len(t)
      PROVE  Len(s) + i \in 1 .. Len(u) /\ u[Len(s) + i] = t[i] /\ t[i] \in On(t)
  <2>1. Len(s) + i \in 1 .. Len(s) + Len(t) /\ ~(Len(s) + i <= Len(s)) /\ (Len(s) + i) - Len(s) = i
    BY <1>1
  <2> QED BY <1>2, <2>1 DEF On
<1>5. ASSUME NEW i \in 1 .. Len(u)
      PROVE  \/ i \in 1 .. Len(s) /\ u[i] = s[i]
             \/ i - Len(s) \in 1 .. Len(t) /\ u[i] = t[i - Len(s)]
  BY <1>1, <1>2
<1>6. u \in Lists
  <2>1. ASSUME NEW i \in 1 .. Len(u), NEW j \in 1 .. Len(u), u[i] = u[j] PROVE i = j
    <3>1. CASE i \in 1 .. Len(s) /\ u[i] = s[i]
      <4>1. u[j] \in On(s)
        BY <2>1, <3>1 DEF On
      <4>2. j \in 1 .. Len(s) /\ u[j] = s[j]
        BY <1>4, <1>5, <4>1
      <4> QED BY <2>1, <3>1, <4>2 DEF Lists
    <3>2. CASE i - Len(s) \in 1 .. Len(t) /\ u[i] = t[i - Len(s)]
      <4>1. u[j] \in On(t)
        BY <2>1, <3>2 DEF On
      <4>2. j - Len(s) \in 1 .. Len(t) /\ u[j] = t[j - Len(s)]
        BY <1>3, <1>5, <4>1
      <4>3. i - Len(s) = j - Len(s)
        BY <2>1, <3>2, <4>2 DEF Lists
      <4> QED BY <1>1, <4>3
    <3> QED BY <1>5, <3>1, <3>2
  <2> QED BY <1>2, <2>1 DEF Lists
<1>7. On(u) = On(s) \cup On(t)
  <2>1. \A i \in 1 .. Len(u) : u[i] \in On(s) \cup On(t)
    BY <1>5 DEF On
  <2>2. \A i \in 1 .. Len(s) : s[i] \in On(u)
    BY <1>3 DEF On
  <2>3. \A i \in 1 .. Len(t) : t[i] \in On(u)
    BY <1>4 DEF On
  <2> QED BY <2>1, <2>2, <2>3 DEF On
<1> QED BY <1>2, <1>3, <1>4, <1>6, <1>7 DEF u

\* One event alone.
LEMMA Single ==
  ASSUME NEW e \in Event
  PROVE  <<e>> \in Lists /\ Len(<<e>>) = 1 /\ <<e>>[1] = e /\ On(<<e>>) = {e}
  BY DEF Lists, On

\* A list with an event at its end, and with one before it.
LEMMA Appended ==
  ASSUME NEW s \in Lists, NEW e \in Event \ On(s)
  PROVE  /\ Append(s, e) \in Lists /\ Len(Append(s, e)) = Len(s) + 1
         /\ \A i \in 1 .. Len(s) : Append(s, e)[i] = s[i]
         /\ Append(s, e)[Len(s) + 1] = e
         /\ On(Append(s, e)) = On(s) \cup {e}
<1>1. Append(s, e) = s \o <<e>> /\ Len(s) \in Nat
  BY AppendIsConcat DEF Lists
<1>2. <<e>> \in Lists /\ Len(<<e>>) = 1 /\ <<e>>[1] = e /\ On(<<e>>) = {e}
  BY Single
<1>3. On(s) \cap On(<<e>>) = {} /\ 1 \in 1 .. Len(<<e>>)
  BY <1>2
<1> QED BY <1>1, <1>2, <1>3, Joined

\* See Appended.
LEMMA Prepended ==
  ASSUME NEW s \in Lists, NEW e \in Event \ On(s)
  PROVE  /\ <<e>> \o s \in Lists /\ Len(<<e>> \o s) = Len(s) + 1
         /\ \A i \in 1 .. Len(s) : (<<e>> \o s)[1 + i] = s[i]
         /\ (<<e>> \o s)[1] = e
         /\ On(<<e>> \o s) = On(s) \cup {e}
<1>1. Len(s) \in Nat
  BY DEF Lists
<1>2. <<e>> \in Lists /\ Len(<<e>>) = 1 /\ <<e>>[1] = e /\ On(<<e>>) = {e}
  BY Single
<1>3. On(<<e>>) \cap On(s) = {} /\ 1 \in 1 .. Len(<<e>>)
  BY <1>2
<1>4. /\ <<e>> \o s \in Lists /\ Len(<<e>> \o s) = Len(<<e>>) + Len(s)
      /\ \A i \in 1 .. Len(<<e>>) : (<<e>> \o s)[i] = <<e>>[i]
      /\ \A i \in 1 .. Len(s) : (<<e>> \o s)[Len(<<e>>) + i] = s[i]
      /\ On(<<e>> \o s) = On(<<e>>) \cup On(s)
  BY <1>2, <1>3, Joined
<1> QED BY <1>1, <1>2, <1>3, <1>4

\* A list without its first, without its last, and without its n-th event.
LEMMA Headless ==
  ASSUME NEW s \in Lists, s # <<>>
  PROVE  /\ Tail(s) \in Lists /\ Len(s) \in Nat \ {0} /\ Len(Tail(s)) = Len(s) - 1
         /\ \A i \in 1 .. Len(s) - 1 : Tail(s)[i] = s[i + 1]
         /\ On(Tail(s)) = On(s) \ {s[1]}
<1>1. s \in Seq(Event) /\ Len(s) \in Nat \ {0} /\ Tail(s) = SubSeq(s, 2, Len(s))
  BY EmptySeq, TailIsSubSeq DEF Lists
<1>2. 2 \in 1 .. Len(s) + 1 /\ Len(s) \in 2 - 1 .. Len(s)
  BY <1>1
<1>3. /\ Tail(s) \in Lists /\ Len(Tail(s)) = Len(s) - 2 + 1
      /\ \A i \in 1 .. Len(s) - 2 + 1 : Tail(s)[i] = s[2 + i - 1]
      /\ On(Tail(s)) = {s[i] : i \in 2 .. Len(s)}
  <2> DEFINE two == 2
             t == SubSeq(s, two, Len(s))
  <2>1. /\ t \in Lists /\ Len(t) = Len(s) - two + 1
        /\ \A i \in 1 .. Len(s) - two + 1 : t[i] = s[two + i - 1]
        /\ On(t) = {s[i] : i \in two .. Len(s)}
    <3> HIDE DEF two
    <3> QED BY <1>2, Part, Zenon DEF two
  <2> QED BY <1>1, <2>1
<1>4. {s[i] : i \in 2 .. Len(s)} = On(s) \ {s[1]}
  BY <1>1 DEF On, Lists
<1>5. \A i \in 1 .. Len(s) - 1 : 2 + i - 1 = i + 1 /\ i \in 1 .. Len(s) - 2 + 1
  BY <1>1
<1> QED BY <1>1, <1>3, <1>4, <1>5

\* See Headless.
LEMMA Lastless ==
  ASSUME NEW s \in Lists, s # <<>>
  PROVE  /\ Front(s) \in Lists /\ Len(s) \in Nat \ {0} /\ Len(Front(s)) = Len(s) - 1
         /\ \A i \in 1 .. Len(s) - 1 : Front(s)[i] = s[i]
         /\ On(Front(s)) = On(s) \ {s[Len(s)]}
<1>1. s \in Seq(Event) /\ Len(s) \in Nat \ {0}
  BY EmptySeq DEF Lists
<1>2. 1 \in 1 .. Len(s) + 1 /\ Len(s) - 1 \in 1 - 1 .. Len(s)
  BY <1>1
<1>3. /\ Front(s) \in Lists /\ Len(Front(s)) = Len(s) - 1 - 1 + 1
      /\ \A i \in 1 .. Len(s) - 1 - 1 + 1 : Front(s)[i] = s[1 + i - 1]
      /\ On(Front(s)) = {s[i] : i \in 1 .. Len(s) - 1}
  BY <1>1, <1>2, Part DEF Front
<1>4. {s[i] : i \in 1 .. Len(s) - 1} = On(s) \ {s[Len(s)]}
  BY <1>1 DEF On, Lists
<1>5. \A i \in 1 .. Len(s) - 1 : 1 + i - 1 = i /\ i \in 1 .. Len(s) - 1 - 1 + 1
  BY <1>1
<1> QED BY <1>1, <1>3, <1>4, <1>5

\* See Headless.
LEMMA Removed ==
  ASSUME NEW s \in Lists, NEW n \in 1 .. Len(s)
  PROVE  /\ RemoveAt(s, n) \in Lists /\ Len(s) \in Nat /\ Len(RemoveAt(s, n)) = Len(s) - 1
         /\ \A i \in 1 .. n - 1 : RemoveAt(s, n)[i] = s[i]
         /\ \A i \in n .. Len(s) - 1 : RemoveAt(s, n)[i] = s[i + 1]
         /\ On(RemoveAt(s, n)) = On(s) \ {s[n]}
<1> DEFINE t == SubSeq(s, 1, n - 1)
           u == SubSeq(s, n + 1, Len(s))
<1>1. Len(s) \in Nat /\ n \in Nat /\ 1 \in 1 .. Len(s) + 1 /\ n - 1 \in 1 - 1 .. Len(s)
      /\ n + 1 \in 1 .. Len(s) + 1 /\ Len(s) \in (n + 1) - 1 .. Len(s)
  BY DEF Lists
<1>2. /\ t \in Lists /\ Len(t) = (n - 1) - 1 + 1
      /\ \A i \in 1 .. (n - 1) - 1 + 1 : t[i] = s[1 + i - 1]
      /\ On(t) = {s[i] : i \in 1 .. n - 1}
  BY <1>1, Part
<1>3. /\ u \in Lists /\ Len(u) = Len(s) - (n + 1) + 1
      /\ \A i \in 1 .. Len(s) - (n + 1) + 1 : u[i] = s[(n + 1) + i - 1]
      /\ On(u) = {s[i] : i \in n + 1 .. Len(s)}
  BY <1>1, Part
<1>4. RemoveAt(s, n) = t \o u
  BY DEF RemoveAt
<1> HIDE DEF t, u
<1>5. On(t) \cap On(u) = {} /\ On(t) \cup On(u) = On(s) \ {s[n]}
  <2>1. \A i, j \in 1 .. Len(s) : s[i] = s[j] => i = j
    BY DEF Lists
  <2>2. {s[i] : i \in 1 .. n - 1} \cap {s[i] : i \in n + 1 .. Len(s)} = {}
    BY <1>1, <2>1
  <2>3. {s[i] : i \in 1 .. n - 1} \cup {s[i] : i \in n + 1 .. Len(s)} = {s[i] : i \in 1 .. Len(s)} \ {s[n]}
    BY <1>1, <2>1
  <2> QED BY <1>2, <1>3, <2>2, <2>3 DEF On
<1>6. Len(t) = n - 1 /\ Len(u) = Len(s) - n
  BY <1>1, <1>2, <1>3
<1>7. /\ t \o u \in Lists /\ Len(t \o u) = Len(t) + Len(u)
      /\ \A i \in 1 .. Len(t) : (t \o u)[i] = t[i]
      /\ \A i \in 1 .. Len(u) : (t \o u)[Len(t) + i] = u[i]
      /\ On(t \o u) = On(t) \cup On(u)
  BY <1>2, <1>3, <1>5, Joined
<1>8. ASSUME NEW i \in 1 .. n - 1 PROVE (t \o u)[i] = s[i]
  <2>1. i \in 1 .. Len(t) /\ i \in 1 .. (n - 1) - 1 + 1 /\ 1 + i - 1 = i
    BY <1>1, <1>6
  <2> QED BY <1>2, <1>7, <2>1
<1>9. ASSUME NEW i \in n .. Len(s) - 1 PROVE (t \o u)[i] = s[i + 1]
  <2> DEFINE j == i - n + 1
  <2>1. j \in 1 .. Len(u) /\ j \in 1 .. Len(s) - (n + 1) + 1 /\ Len(t) + j = i /\ (n + 1) + j - 1 = i + 1
    BY <1>1, <1>6
  <2> HIDE DEF j
  <2> QED BY <1>3, <1>7, <2>1
<1>10. Len(t \o u) = Len(s) - 1
  BY <1>1, <1>6, <1>7
<1> QED BY <1>1, <1>4, <1>5, <1>7, <1>8, <1>9, <1>10
-----------------------------------------------------------------------------
\* f with x sent to v, and f itself if x is Null.
Put(f, x, v) == [k \in DOMAIN f |-> IF k = x THEN v ELSE f[k]]

\* The fields that the operations leave.
LEMMA PushFields ==
  ASSUME NEW mm \in Mem, NEW q \in Queue, NEW e \in Event
  PROVE  LET r == tw_eventq_push(mm, q, e)
         IN  /\ r \in Mem
             /\ r.next = Put(Put(mm.next, e, Null), mm.tail[q], e)
             /\ r.prev = Put(mm.prev, e, mm.tail[q])
             /\ r.head = IF mm.tail[q] = Null THEN Put(mm.head, q, e) ELSE mm.head
             /\ r.tail = Put(mm.tail, q, e)
             /\ r.size = Put(mm.size, q, mm.size[q] + 1)
<1> DEFINE t == mm.tail[q]
           a == [mm EXCEPT !.next[e] = Null, !.prev[e] = t, !.tail[q] = e, !.size[q] = mm.size[q] + 1]
<1>1. t \in Ref /\ mm.size[q] + 1 \in Nat /\ Null \notin Event
  BY EventQAssumption DEF Mem, Event
<1>2. /\ a \in Mem /\ a.next = Put(mm.next, e, Null) /\ a.prev = Put(mm.prev, e, t) /\ a.head = mm.head
      /\ a.tail = Put(mm.tail, q, e) /\ a.size = Put(mm.size, q, mm.size[q] + 1)
  BY <1>1 DEF Mem, Put, Ref
<1>3. tw_eventq_push(mm, q, e) = IF t # Null THEN [a EXCEPT !.next[t] = e] ELSE [a EXCEPT !.head[q] = e]
  BY DEF tw_eventq_push
<1> HIDE DEF t, a
<1>4. CASE t # Null
  <2>1. t \in Event /\ tw_eventq_push(mm, q, e) = [a EXCEPT !.next[t] = e]
    BY <1>1, <1>3, <1>4 DEF Ref
  <2> DEFINE r == [a EXCEPT !.next[t] = e]
  <2>2. r \in Mem /\ r.next = Put(a.next, t, e) /\ r.prev = a.prev /\ r.head = a.head /\ r.tail = a.tail /\ r.size = a.size
    BY <1>2, <2>1 DEF Mem, Put, Ref
  <2> HIDE DEF r
  <2> QED BY <1>2, <1>4, <2>1, <2>2 DEF r, t
<1>5. CASE t = Null
  <2>1. tw_eventq_push(mm, q, e) = [a EXCEPT !.head[q] = e]
    BY <1>3, <1>5
  <2> DEFINE r == [a EXCEPT !.head[q] = e]
  <2>2. r \in Mem /\ r.next = a.next /\ r.prev = a.prev /\ r.head = Put(a.head, q, e) /\ r.tail = a.tail /\ r.size = a.size
    BY <1>2 DEF Mem, Put, Ref
  <2>3. Put(a.next, t, e) = a.next
    BY <1>1, <1>2, <1>5 DEF Mem, Put
  <2> HIDE DEF r
  <2> QED BY <1>2, <1>5, <2>1, <2>2, <2>3 DEF r, t
<1> QED BY <1>4, <1>5

\* See PushFields.
LEMMA PopFields ==
  ASSUME NEW mm \in Mem, NEW q \in Queue, mm.tail[q] # Null, mm.size[q] # 0
  PROVE  LET r == tw_eventq_pop(mm, q)
             t == mm.tail[q]
             p == mm.prev[t]
         IN  /\ r \in Mem
             /\ r.next = Put(Put(mm.next, t, Null), p, Null)
             /\ r.prev = Put(mm.prev, t, Null)
             /\ r.head = IF p = Null THEN Put(mm.head, q, Null) ELSE mm.head
             /\ r.tail = Put(mm.tail, q, p)
             /\ r.size = Put(mm.size, q, mm.size[q] - 1)
<1> DEFINE t == mm.tail[q]
           p == mm.prev[t]
           a == [mm EXCEPT !.tail[q] = p, !.size[q] = mm.size[q] - 1, !.next[t] = Null, !.prev[t] = Null]
<1>1. t \in Event /\ p \in Ref /\ mm.size[q] - 1 \in Nat /\ Null \notin Event
  BY EventQAssumption DEF Mem, Event, Ref
<1>2. /\ a \in Mem /\ a.next = Put(mm.next, t, Null) /\ a.prev = Put(mm.prev, t, Null) /\ a.head = mm.head
      /\ a.tail = Put(mm.tail, q, p) /\ a.size = Put(mm.size, q, mm.size[q] - 1)
  BY <1>1 DEF Mem, Put, Ref
<1>3. tw_eventq_pop(mm, q) = IF p # Null THEN [a EXCEPT !.next[p] = Null] ELSE [a EXCEPT !.head[q] = Null]
  BY DEF tw_eventq_pop
<1> HIDE DEF t, p, a
<1>4. CASE p # Null
  <2>1. p \in Event /\ tw_eventq_pop(mm, q) = [a EXCEPT !.next[p] = Null]
    BY <1>1, <1>3, <1>4 DEF Ref
  <2> DEFINE r == [a EXCEPT !.next[p] = Null]
  <2>2. r \in Mem /\ r.next = Put(a.next, p, Null) /\ r.prev = a.prev /\ r.head = a.head /\ r.tail = a.tail /\ r.size = a.size
    BY <1>2, <2>1 DEF Mem, Put, Ref
  <2> HIDE DEF r
  <2> QED BY <1>2, <1>4, <2>1, <2>2 DEF r, t, p
<1>5. CASE p = Null
  <2>1. tw_eventq_pop(mm, q) = [a EXCEPT !.head[q] = Null]
    BY <1>3, <1>5
  <2> DEFINE r == [a EXCEPT !.head[q] = Null]
  <2>2. r \in Mem /\ r.next = a.next /\ r.prev = a.prev /\ r.head = Put(a.head, q, Null) /\ r.tail = a.tail /\ r.size = a.size
    BY <1>2 DEF Mem, Put, Ref
  <2>3. Put(a.next, p, Null) = a.next
    BY <1>1, <1>2, <1>5 DEF Mem, Put
  <2> HIDE DEF r
  <2> QED BY <1>2, <1>5, <2>1, <2>2, <2>3 DEF r, t, p
<1> QED BY <1>4, <1>5

\* See PushFields.
LEMMA UnshiftFields ==
  ASSUME NEW mm \in Mem, NEW q \in Queue, NEW e \in Event
  PROVE  LET r == tw_eventq_unshift(mm, q, e)
         IN  /\ r \in Mem
             /\ r.next = Put(mm.next, e, mm.head[q])
             /\ r.prev = Put(Put(mm.prev, e, Null), mm.head[q], e)
             /\ r.head = Put(mm.head, q, e)
             /\ r.tail = IF mm.head[q] = Null THEN Put(mm.tail, q, e) ELSE mm.tail
             /\ r.size = Put(mm.size, q, mm.size[q] + 1)
<1> DEFINE h == mm.head[q]
           a == [mm EXCEPT !.prev[e] = Null, !.next[e] = h, !.head[q] = e, !.size[q] = mm.size[q] + 1]
<1>1. h \in Ref /\ mm.size[q] + 1 \in Nat /\ Null \notin Event
  BY EventQAssumption DEF Mem, Event
<1>2. /\ a \in Mem /\ a.next = Put(mm.next, e, h) /\ a.prev = Put(mm.prev, e, Null) /\ a.tail = mm.tail
      /\ a.head = Put(mm.head, q, e) /\ a.size = Put(mm.size, q, mm.size[q] + 1)
  BY <1>1 DEF Mem, Put, Ref
<1>3. tw_eventq_unshift(mm, q, e) = IF h # Null THEN [a EXCEPT !.prev[h] = e] ELSE [a EXCEPT !.tail[q] = e]
  BY DEF tw_eventq_unshift
<1> HIDE DEF h, a
<1>4. CASE h # Null
  <2>1. h \in Event /\ tw_eventq_unshift(mm, q, e) = [a EXCEPT !.prev[h] = e]
    BY <1>1, <1>3, <1>4 DEF Ref
  <2> DEFINE r == [a EXCEPT !.prev[h] = e]
  <2>2. r \in Mem /\ r.prev = Put(a.prev, h, e) /\ r.next = a.next /\ r.head = a.head /\ r.tail = a.tail /\ r.size = a.size
    BY <1>2, <2>1 DEF Mem, Put, Ref
  <2> HIDE DEF r
  <2> QED BY <1>2, <1>4, <2>1, <2>2 DEF r, h
<1>5. CASE h = Null
  <2>1. tw_eventq_unshift(mm, q, e) = [a EXCEPT !.tail[q] = e]
    BY <1>3, <1>5
  <2> DEFINE r == [a EXCEPT !.tail[q] = e]
  <2>2. r \in Mem /\ r.next = a.next /\ r.prev = a.prev /\ r.tail = Put(a.tail, q, e) /\ r.head = a.head /\ r.size = a.size
    BY <1>2 DEF Mem, Put, Ref
  <2>3. Put(a.prev, h, e) = a.prev
    BY <1>1, <1>2, <1>5 DEF Mem, Put
  <2> HIDE DEF r
  <2> QED BY <1>2, <1>5, <2>1, <2>2, <2>3 DEF r, h
<1> QED BY <1>4, <1>5

\* See PushFields.
LEMMA ShiftFields ==
  ASSUME NEW mm \in Mem, NEW q \in Queue, mm.head[q] # Null, mm.size[q] # 0
  PROVE  LET r == tw_eventq_shift(mm, q)
             h == mm.head[q]
             n == mm.next[h]
         IN  /\ r \in Mem
             /\ r.next = Put(mm.next, h, Null)
             /\ r.prev = Put(Put(mm.prev, h, Null), n, Null)
             /\ r.head = Put(mm.head, q, n)
             /\ r.tail = IF n = Null THEN Put(mm.tail, q, Null) ELSE mm.tail
             /\ r.size = Put(mm.size, q, mm.size[q] - 1)
<1> DEFINE h == mm.head[q]
           n == mm.next[h]
           a == [mm EXCEPT !.head[q] = n, !.size[q] = mm.size[q] - 1, !.next[h] = Null, !.prev[h] = Null]
<1>1. h \in Event /\ n \in Ref /\ mm.size[q] - 1 \in Nat /\ Null \notin Event
  BY EventQAssumption DEF Mem, Event, Ref
<1>2. /\ a \in Mem /\ a.next = Put(mm.next, h, Null) /\ a.prev = Put(mm.prev, h, Null) /\ a.tail = mm.tail
      /\ a.head = Put(mm.head, q, n) /\ a.size = Put(mm.size, q, mm.size[q] - 1)
  BY <1>1 DEF Mem, Put, Ref
<1>3. tw_eventq_shift(mm, q) = IF n # Null THEN [a EXCEPT !.prev[n] = Null] ELSE [a EXCEPT !.tail[q] = Null]
  BY DEF tw_eventq_shift
<1> HIDE DEF h, n, a
<1>4. CASE n # Null
  <2>1. n \in Event /\ tw_eventq_shift(mm, q) = [a EXCEPT !.prev[n] = Null]
    BY <1>1, <1>3, <1>4 DEF Ref
  <2> DEFINE r == [a EXCEPT !.prev[n] = Null]
  <2>2. r \in Mem /\ r.prev = Put(a.prev, n, Null) /\ r.next = a.next /\ r.head = a.head /\ r.tail = a.tail /\ r.size = a.size
    BY <1>2, <2>1 DEF Mem, Put, Ref
  <2> HIDE DEF r
  <2> QED BY <1>2, <1>4, <2>1, <2>2 DEF r, h, n
<1>5. CASE n = Null
  <2>1. tw_eventq_shift(mm, q) = [a EXCEPT !.tail[q] = Null]
    BY <1>3, <1>5
  <2> DEFINE r == [a EXCEPT !.tail[q] = Null]
  <2>2. r \in Mem /\ r.next = a.next /\ r.prev = a.prev /\ r.tail = Put(a.tail, q, Null) /\ r.head = a.head /\ r.size = a.size
    BY <1>2 DEF Mem, Put, Ref
  <2>3. Put(a.prev, n, Null) = a.prev
    BY <1>1, <1>2, <1>5 DEF Mem, Put
  <2> HIDE DEF r
  <2> QED BY <1>2, <1>5, <2>1, <2>2, <2>3 DEF r, h, n
<1> QED BY <1>4, <1>5

\* See PushFields.
LEMMA DeleteFields ==
  ASSUME NEW mm \in Mem, NEW q \in Queue, NEW e \in Event, mm.size[q] # 0
  PROVE  LET r == tw_eventq_delete_any(mm, q, e)
             p == mm.prev[e]
             n == mm.next[e]
         IN  /\ r \in Mem
             /\ r.next = Put(Put(mm.next, p, n), e, Null)
             /\ r.prev = Put(Put(mm.prev, n, p), e, Null)
             /\ r.head = IF p = Null THEN Put(mm.head, q, n) ELSE mm.head
             /\ r.tail = IF n = Null THEN Put(mm.tail, q, p) ELSE mm.tail
             /\ r.size = Put(mm.size, q, mm.size[q] - 1)
<1> DEFINE p == mm.prev[e]
           n == mm.next[e]
           x == IF p # Null THEN [mm EXCEPT !.next[p] = n] ELSE [mm EXCEPT !.head[q] = n]
           y == IF n # Null THEN [x EXCEPT !.prev[n] = p] ELSE [x EXCEPT !.tail[q] = p]
           r == [y EXCEPT !.next[e] = Null, !.prev[e] = Null, !.size[q] = mm.size[q] - 1]
<1>1. p \in Ref /\ n \in Ref /\ mm.size[q] - 1 \in Nat /\ Null \notin Event /\ Null \in Ref
  BY EventQAssumption DEF Mem, Event, Ref
<1>2. tw_eventq_delete_any(mm, q, e) = r
  BY DEF tw_eventq_delete_any
<1>3. /\ x \in Mem /\ x.next = Put(mm.next, p, n) /\ x.prev = mm.prev /\ x.tail = mm.tail /\ x.size = mm.size
      /\ x.head = IF p = Null THEN Put(mm.head, q, n) ELSE mm.head
  <2> HIDE DEF p, n
  <2>1. CASE p # Null
    BY <1>1, <2>1 DEF Mem, Put, Ref
  <2>2. CASE p = Null
    <3>1. Put(mm.next, p, n) = mm.next
      BY <1>1, <2>2 DEF Mem, Put
    <3> QED BY <1>1, <2>2, <3>1 DEF Mem, Put, Ref
  <2> QED BY <2>1, <2>2
<1>4. /\ y \in Mem /\ y.prev = Put(x.prev, n, p) /\ y.next = x.next /\ y.head = x.head /\ y.size = x.size
      /\ y.tail = IF n = Null THEN Put(x.tail, q, p) ELSE x.tail
  <2> HIDE DEF p, n, x
  <2>1. CASE n # Null
    BY <1>1, <1>3, <2>1 DEF Mem, Put, Ref
  <2>2. CASE n = Null
    <3>1. Put(x.prev, n, p) = x.prev
      BY <1>1, <1>3, <2>2 DEF Mem, Put
    <3> QED BY <1>1, <1>3, <2>2, <3>1 DEF Mem, Put, Ref
  <2> QED BY <2>1, <2>2
<1>5. /\ r \in Mem /\ r.next = Put(y.next, e, Null) /\ r.prev = Put(y.prev, e, Null) /\ r.head = y.head
      /\ r.tail = y.tail /\ r.size = Put(y.size, q, mm.size[q] - 1)
  <2> HIDE DEF p, n, x, y
  <2> QED BY <1>1, <1>4 DEF Mem, Put, Ref
<1> HIDE DEF x, y, r
<1> QED BY <1>2, <1>3, <1>4, <1>5

\* See PushFields.
LEMMA PopListFields ==
  ASSUME NEW mm \in Mem, NEW q \in Queue
  PROVE  LET r == tw_eventq_pop_list(mm, q)
         IN  /\ r \in Mem /\ r.next = mm.next /\ r.prev = mm.prev
             /\ r.head = Put(mm.head, q, Null) /\ r.tail = Put(mm.tail, q, Null) /\ r.size = Put(mm.size, q, 0)
  BY DEF tw_eventq_pop_list, Mem, Put, Ref
-----------------------------------------------------------------------------
\* What the fields of a queue say, place by place.
LEMMA QueueParts ==
  ASSUME NEW mm \in Mem, NEW q \in Queue, NEW s, IsQueue(mm, q, s)
  PROVE  /\ s \in Lists /\ s \in Seq(Event) /\ Len(s) \in Nat /\ Null \notin Event
         /\ \A i \in 1 .. Len(s) : s[i] \in Event /\ s[i] \in On(s) /\ s[i] # Null
         /\ \A i, j \in 1 .. Len(s) : s[i] = s[j] => i = j
         /\ mm.head[q] = At(s, 1) /\ mm.tail[q] = At(s, Len(s)) /\ mm.size[q] = Len(s)
         /\ \A i \in 1 .. Len(s) : mm.next[s[i]] = At(s, i + 1) /\ mm.prev[s[i]] = At(s, i - 1)
<1>1. Null \notin Event
  BY EventQAssumption DEF Event
<1> QED BY <1>1 DEF IsQueue, IsChain, Lists, On

\* Push adds e behind s.
LEMMA PushIs ==
  ASSUME NEW mm \in Mem, NEW q \in Queue, NEW s, IsQueue(mm, q, s), NEW e \in Event \ On(s)
  PROVE  LET r == tw_eventq_push(mm, q, e)
         IN  r \in Mem /\ IsQueue(r, q, Append(s, e)) /\ Elsewhere(mm, r, q, On(s) \cup {e})
<1> DEFINE r == tw_eventq_push(mm, q, e)
           u == Append(s, e)
           t == mm.tail[q]
<1>1. /\ s \in Lists /\ s \in Seq(Event) /\ Len(s) \in Nat /\ Null \notin Event
      /\ \A i \in 1 .. Len(s) : s[i] \in Event /\ s[i] \in On(s) /\ s[i] # Null
      /\ \A i, j \in 1 .. Len(s) : s[i] = s[j] => i = j
      /\ mm.head[q] = At(s, 1) /\ t = At(s, Len(s)) /\ mm.size[q] = Len(s)
      /\ \A i \in 1 .. Len(s) : mm.next[s[i]] = At(s, i + 1) /\ mm.prev[s[i]] = At(s, i - 1)
  BY QueueParts
<1>2. /\ r \in Mem /\ r.next = Put(Put(mm.next, e, Null), t, e) /\ r.prev = Put(mm.prev, e, t)
      /\ r.head = IF t = Null THEN Put(mm.head, q, e) ELSE mm.head
      /\ r.tail = Put(mm.tail, q, e) /\ r.size = Put(mm.size, q, mm.size[q] + 1)
  BY PushFields
<1>3. /\ u \in Lists /\ Len(u) = Len(s) + 1 /\ (\A i \in 1 .. Len(s) : u[i] = s[i]) /\ u[Len(s) + 1] = e
  BY <1>1, Appended
<1> HIDE DEF r, u, t
<1>4. /\ \A x \in Event : r.next[x] = IF x = t THEN e ELSE IF x = e THEN Null ELSE mm.next[x]
      /\ \A x \in Event : r.prev[x] = IF x = e THEN t ELSE mm.prev[x]
      /\ \A k \in Queue : /\ r.head[k] = IF k = q /\ t = Null THEN e ELSE mm.head[k]
                          /\ r.tail[k] = IF k = q THEN e ELSE mm.tail[k]
                          /\ r.size[k] = IF k = q THEN mm.size[q] + 1 ELSE mm.size[k]
  BY <1>2 DEF Mem, Put
<1>5. t = Null <=> Len(s) = 0
  BY <1>1 DEF At
<1>6. r.head[q] = At(u, 1)
  BY <1>1, <1>3, <1>4, <1>5 DEF At
<1>7. r.tail[q] = At(u, Len(u)) /\ r.size[q] = Len(u)
  BY <1>1, <1>3, <1>4 DEF At
<1>8. ASSUME NEW i \in 1 .. Len(u) PROVE r.next[u[i]] = At(u, i + 1) /\ r.prev[u[i]] = At(u, i - 1)
  <2>1. CASE i = Len(s) + 1
    BY <1>1, <1>3, <1>4, <2>1 DEF At
  <2>2. CASE i # Len(s) + 1
    <3>1. i \in 1 .. Len(s) /\ u[i] = s[i] /\ s[i] # e /\ s[i] \in Event
      BY <1>1, <1>3, <2>2
    <3>2. s[i] = t <=> i = Len(s)
      BY <1>1, <3>1 DEF At
    <3>3. At(u, i + 1) = IF i = Len(s) THEN e ELSE At(s, i + 1)
      BY <1>1, <1>3, <3>1 DEF At
    <3>4. At(u, i - 1) = At(s, i - 1)
      BY SMTT(30), <1>1, <1>3, <3>1 DEF At
    <3>5. mm.next[s[i]] = At(s, i + 1) /\ mm.prev[s[i]] = At(s, i - 1)
      BY <1>1, <3>1
    <3>6. r.next[s[i]] = (IF s[i] = t THEN e ELSE mm.next[s[i]]) /\ r.prev[s[i]] = mm.prev[s[i]]
      BY <1>4, <3>1
    <3> QED BY <3>1, <3>2, <3>3, <3>4, <3>5, <3>6
  <2> QED BY <2>1, <2>2
<1>9. IsQueue(r, q, u)
  BY <1>3, <1>6, <1>7, <1>8 DEF IsQueue, IsChain
<1>10. Elsewhere(mm, r, q, On(s) \cup {e})
  <2>1. t = Null \/ t \in On(s)
    BY <1>1 DEF At
  <2> QED BY <1>1, <1>4, <2>1 DEF Elsewhere
<1> QED BY <1>2, <1>9, <1>10 DEF r, u

\* Unshift adds e before s.
LEMMA UnshiftIs ==
  ASSUME NEW mm \in Mem, NEW q \in Queue, NEW s, IsQueue(mm, q, s), NEW e \in Event \ On(s)
  PROVE  LET r == tw_eventq_unshift(mm, q, e)
         IN  r \in Mem /\ IsQueue(r, q, <<e>> \o s) /\ Elsewhere(mm, r, q, On(s) \cup {e})
<1> DEFINE r == tw_eventq_unshift(mm, q, e)
           u == <<e>> \o s
           h == mm.head[q]
<1>1. /\ s \in Lists /\ s \in Seq(Event) /\ Len(s) \in Nat /\ Null \notin Event
      /\ \A i \in 1 .. Len(s) : s[i] \in Event /\ s[i] \in On(s) /\ s[i] # Null
      /\ \A i, j \in 1 .. Len(s) : s[i] = s[j] => i = j
      /\ h = At(s, 1) /\ mm.tail[q] = At(s, Len(s)) /\ mm.size[q] = Len(s)
      /\ \A i \in 1 .. Len(s) : mm.next[s[i]] = At(s, i + 1) /\ mm.prev[s[i]] = At(s, i - 1)
  BY QueueParts
<1>2. /\ r \in Mem /\ r.next = Put(mm.next, e, h) /\ r.prev = Put(Put(mm.prev, e, Null), h, e)
      /\ r.tail = IF h = Null THEN Put(mm.tail, q, e) ELSE mm.tail
      /\ r.head = Put(mm.head, q, e) /\ r.size = Put(mm.size, q, mm.size[q] + 1)
  BY UnshiftFields
<1>3. /\ u \in Lists /\ Len(u) = Len(s) + 1 /\ (\A i \in 1 .. Len(s) : u[1 + i] = s[i]) /\ u[1] = e
  BY <1>1, Prepended
<1> HIDE DEF r, u, h
<1>4. /\ \A x \in Event : r.prev[x] = IF x = h THEN e ELSE IF x = e THEN Null ELSE mm.prev[x]
      /\ \A x \in Event : r.next[x] = IF x = e THEN h ELSE mm.next[x]
      /\ \A k \in Queue : /\ r.tail[k] = IF k = q /\ h = Null THEN e ELSE mm.tail[k]
                          /\ r.head[k] = IF k = q THEN e ELSE mm.head[k]
                          /\ r.size[k] = IF k = q THEN mm.size[q] + 1 ELSE mm.size[k]
  BY <1>2 DEF Mem, Put
<1>5. h = Null <=> Len(s) = 0
  BY <1>1 DEF At
<1>6. r.tail[q] = At(u, Len(u))
  <2>1. CASE Len(s) = 0
    BY <1>1, <1>3, <1>4, <1>5, <2>1 DEF At
  <2>2. CASE Len(s) # 0
    <3>1. Len(s) \in 1 .. Len(s) /\ u[1 + Len(s)] = s[Len(s)] /\ 1 + Len(s) = Len(u) /\ Len(u) \in 1 .. Len(u)
      BY <1>1, <1>3, <2>2
    <3> QED BY <1>1, <1>4, <1>5, <2>2, <3>1 DEF At
  <2> QED BY <2>1, <2>2
<1>7. r.head[q] = At(u, 1) /\ r.size[q] = Len(u)
  BY <1>1, <1>3, <1>4 DEF At
<1>8. ASSUME NEW i \in 1 .. Len(u) PROVE r.next[u[i]] = At(u, i + 1) /\ r.prev[u[i]] = At(u, i - 1)
  <2>1. CASE i = 1
    <3>1. At(u, 2) = At(s, 1)
      <4>1. 1 + 1 = 2
        OBVIOUS
      <4>2. CASE Len(s) = 0
        BY <1>1, <1>3, <4>2 DEF At
      <4>3. CASE Len(s) # 0
        <5>1. 1 \in 1 .. Len(s) /\ 2 \in 1 .. Len(u)
          BY <1>1, <1>3, <4>3
        <5>2. u[2] = s[1]
          BY <1>3, <4>1, <5>1
        <5> QED BY <5>1, <5>2 DEF At
      <4> QED BY <4>2, <4>3
    <3>2. u[i] = e /\ e # h
      BY <1>1, <1>3, <2>1 DEF At
    <3> QED BY <1>1, <1>3, <1>4, <2>1, <3>1, <3>2 DEF At
  <2>2. CASE i # 1
    <3> DEFINE j == i - 1
    <3>1. j \in 1 .. Len(s) /\ i = 1 + j /\ i - 1 = j
      BY <1>1, <1>3, <2>2
    <3>2. u[i] = s[j] /\ s[j] # e /\ s[j] \in Event
      BY <1>1, <1>3, <3>1
    <3>3. s[j] = h <=> j = 1
      BY <1>1, <3>1 DEF At
    <3>4. At(u, i + 1) = At(s, j + 1)
      <4>1. CASE j = Len(s)
        BY <1>1, <1>3, <3>1, <4>1 DEF At
      <4>2. CASE j # Len(s)
        <5>1. j + 1 \in 1 .. Len(s) /\ i + 1 = 1 + (j + 1) /\ i + 1 \in 1 .. Len(u)
          BY <1>1, <1>3, <3>1, <4>2
        <5>2. u[i + 1] = s[j + 1]
          BY <1>3, <5>1
        <5> QED BY <5>1, <5>2 DEF At
      <4> QED BY <4>1, <4>2
    <3>5. At(u, j) = IF j = 1 THEN e ELSE At(s, j - 1)
      <4>1. CASE j = 1
        BY <1>1, <1>3, <3>1, <4>1 DEF At
      <4>2. CASE j # 1
        <5>1. j - 1 \in 1 .. Len(s) /\ j = 1 + (j - 1) /\ j \in 1 .. Len(u)
          BY <1>1, <1>3, <3>1, <4>2
        <5>2. u[j] = s[j - 1]
          BY <1>3, <5>1
        <5> QED BY <4>2, <5>1, <5>2 DEF At
      <4> QED BY <4>1, <4>2
    <3> HIDE DEF j
    <3> QED BY SMTT(30), <1>1, <1>4, <3>1, <3>2, <3>3, <3>4, <3>5
  <2> QED BY <2>1, <2>2
<1>9. IsQueue(r, q, u)
  BY <1>3, <1>6, <1>7, <1>8 DEF IsQueue, IsChain
<1>10. Elsewhere(mm, r, q, On(s) \cup {e})
  <2>1. h = Null \/ h \in On(s)
    BY <1>1 DEF At
  <2> QED BY <1>1, <1>4, <2>1 DEF Elsewhere
<1> QED BY <1>2, <1>9, <1>10 DEF r, u

\* Pop takes the last event of s off.
LEMMA PopIs ==
  ASSUME NEW mm \in Mem, NEW q \in Queue, NEW s, IsQueue(mm, q, s), mm.tail[q] # Null
  PROVE  LET r == tw_eventq_pop(mm, q)
         IN  /\ r \in Mem /\ IsQueue(r, q, Front(s)) /\ Elsewhere(mm, r, q, On(s))
             /\ s # <<>> /\ mm.tail[q] = s[Len(s)]
<1> DEFINE r == tw_eventq_pop(mm, q)
           u == Front(s)
           t == mm.tail[q]
           p == mm.prev[t]
<1>1. /\ s \in Lists /\ s \in Seq(Event) /\ Len(s) \in Nat /\ Null \notin Event
      /\ \A i \in 1 .. Len(s) : s[i] \in Event /\ s[i] \in On(s) /\ s[i] # Null
      /\ \A i, j \in 1 .. Len(s) : s[i] = s[j] => i = j
      /\ mm.head[q] = At(s, 1) /\ t = At(s, Len(s)) /\ mm.size[q] = Len(s)
      /\ \A i \in 1 .. Len(s) : mm.next[s[i]] = At(s, i + 1) /\ mm.prev[s[i]] = At(s, i - 1)
  BY SMTT(30), QueueParts
<1>2. Len(s) \in 1 .. Len(s) /\ t = s[Len(s)] /\ t \in Event /\ t \in On(s) /\ s # <<>> /\ mm.size[q] # 0
  BY <1>1 DEF At
<1>3. p = At(s, Len(s) - 1)
  BY <1>1, <1>2
<1>4. /\ r \in Mem /\ r.next = Put(Put(mm.next, t, Null), p, Null) /\ r.prev = Put(mm.prev, t, Null)
      /\ r.head = IF p = Null THEN Put(mm.head, q, Null) ELSE mm.head
      /\ r.tail = Put(mm.tail, q, p) /\ r.size = Put(mm.size, q, mm.size[q] - 1)
  BY <1>2, PopFields
<1>5. /\ u \in Lists /\ Len(u) = Len(s) - 1 /\ (\A i \in 1 .. Len(s) - 1 : u[i] = s[i])
  BY <1>1, <1>2, Lastless
<1> HIDE DEF r, u, t, p
<1>6. /\ \A x \in Event : r.next[x] = IF x = p THEN Null ELSE IF x = t THEN Null ELSE mm.next[x]
      /\ \A x \in Event : r.prev[x] = IF x = t THEN Null ELSE mm.prev[x]
      /\ \A k \in Queue : /\ r.head[k] = IF k = q /\ p = Null THEN Null ELSE mm.head[k]
                          /\ r.tail[k] = IF k = q THEN p ELSE mm.tail[k]
                          /\ r.size[k] = IF k = q THEN mm.size[q] - 1 ELSE mm.size[k]
  BY <1>4 DEF Mem, Put
<1>7. p = Null <=> Len(s) = 1
  <2> DEFINE k == Len(s)
  <2>k. k \in Nat \ {0}
    BY <1>1, <1>2
  <2> HIDE DEF k
  <2>0. k = 1 <=> k - 1 \notin 1 .. k
    BY <2>k
  <2>1. Len(s) = 1 <=> Len(s) - 1 \notin 1 .. Len(s)
    BY <2>0 DEF k
  <2> QED BY <1>1, <1>3, <2>1 DEF At
<1>8. r.head[q] = At(u, 1)
  BY <1>1, <1>2, <1>5, <1>6, <1>7 DEF At
<1>9. r.tail[q] = At(u, Len(u)) /\ r.size[q] = Len(u)
  BY <1>1, <1>2, <1>3, <1>5, <1>6 DEF At
<1>10. ASSUME NEW i \in 1 .. Len(u) PROVE r.next[u[i]] = At(u, i + 1) /\ r.prev[u[i]] = At(u, i - 1)
  <2>1. i \in 1 .. Len(s) /\ i # Len(s) /\ u[i] = s[i] /\ s[i] # t /\ s[i] \in Event
    BY <1>1, <1>2, <1>5
  <2>2. s[i] = p <=> i = Len(s) - 1
    <3>1. Len(s) - 1 \in 1 .. Len(s)
      BY <1>1, <1>2, <2>1
    <3>2. p = s[Len(s) - 1]
      BY <1>3, <3>1 DEF At
    <3> QED BY <1>1, <2>1, <3>1, <3>2
  <2>3. At(u, i + 1) = IF i = Len(s) - 1 THEN Null ELSE At(s, i + 1)
    <3>1. CASE i = Len(s) - 1
      BY <1>1, <1>5, <2>1, <3>1 DEF At
    <3>2. CASE i # Len(s) - 1
      <4>1. i + 1 \in 1 .. Len(s) - 1 /\ i + 1 \in 1 .. Len(s) /\ i + 1 \in 1 .. Len(u)
        BY <1>1, <1>5, <2>1, <3>2
      <4>2. u[i + 1] = s[i + 1]
        BY <1>5, <4>1
      <4> QED BY <3>2, <4>1, <4>2 DEF At
    <3> QED BY <3>1, <3>2
  <2>4. At(u, i - 1) = At(s, i - 1)
    <3>1. CASE i = 1
      BY <3>1 DEF At
    <3>2. CASE i # 1
      <4>1. i - 1 \in 1 .. Len(s) - 1 /\ i - 1 \in 1 .. Len(s) /\ i - 1 \in 1 .. Len(u)
        BY <1>1, <1>5, <2>1, <3>2
      <4>2. u[i - 1] = s[i - 1]
        BY <1>5, <4>1
      <4> QED BY <4>1, <4>2 DEF At
    <3> QED BY <3>1, <3>2
  <2>5. mm.next[s[i]] = At(s, i + 1) /\ mm.prev[s[i]] = At(s, i - 1)
    BY <1>1, <2>1
  <2>6. r.next[s[i]] = (IF s[i] = p THEN Null ELSE mm.next[s[i]]) /\ r.prev[s[i]] = mm.prev[s[i]]
    BY <1>6, <2>1
  <2> QED BY <2>1, <2>2, <2>3, <2>4, <2>5, <2>6
<1>11. IsQueue(r, q, u)
  BY <1>5, <1>8, <1>9, <1>10 DEF IsQueue, IsChain
<1>12. Elsewhere(mm, r, q, On(s))
  <2>1. p = Null \/ p \in On(s)
    BY <1>1, <1>3 DEF At
  <2> QED BY <1>1, <1>2, <1>6, <2>1 DEF Elsewhere
<1> QED BY <1>2, <1>4, <1>11, <1>12 DEF r, u, t

\* Shift takes the first event of s off.
LEMMA ShiftIs ==
  ASSUME NEW mm \in Mem, NEW q \in Queue, NEW s, IsQueue(mm, q, s), mm.head[q] # Null
  PROVE  LET r == tw_eventq_shift(mm, q)
         IN  /\ r \in Mem /\ IsQueue(r, q, Tail(s)) /\ Elsewhere(mm, r, q, On(s))
             /\ s # <<>> /\ mm.head[q] = s[1]
<1> DEFINE r == tw_eventq_shift(mm, q)
           u == Tail(s)
           h == mm.head[q]
           n == mm.next[h]
<1>1. /\ s \in Lists /\ s \in Seq(Event) /\ Len(s) \in Nat /\ Null \notin Event
      /\ \A i \in 1 .. Len(s) : s[i] \in Event /\ s[i] \in On(s) /\ s[i] # Null
      /\ \A i, j \in 1 .. Len(s) : s[i] = s[j] => i = j
      /\ h = At(s, 1) /\ mm.tail[q] = At(s, Len(s)) /\ mm.size[q] = Len(s)
      /\ \A i \in 1 .. Len(s) : mm.next[s[i]] = At(s, i + 1) /\ mm.prev[s[i]] = At(s, i - 1)
  BY QueueParts
<1>2. 1 \in 1 .. Len(s) /\ h = s[1] /\ h \in Event /\ h \in On(s) /\ s # <<>> /\ mm.size[q] # 0
  BY <1>1 DEF At
<1>3. n = At(s, 2)
  BY <1>1, <1>2
<1>4. /\ r \in Mem /\ r.next = Put(mm.next, h, Null) /\ r.prev = Put(Put(mm.prev, h, Null), n, Null)
      /\ r.tail = IF n = Null THEN Put(mm.tail, q, Null) ELSE mm.tail
      /\ r.head = Put(mm.head, q, n) /\ r.size = Put(mm.size, q, mm.size[q] - 1)
  BY <1>2, ShiftFields
<1>5. /\ u \in Lists /\ Len(u) = Len(s) - 1 /\ (\A i \in 1 .. Len(s) - 1 : u[i] = s[i + 1])
  BY <1>1, <1>2, Headless
<1> HIDE DEF r, u, h, n
<1>6. /\ \A x \in Event : r.prev[x] = IF x = n THEN Null ELSE IF x = h THEN Null ELSE mm.prev[x]
      /\ \A x \in Event : r.next[x] = IF x = h THEN Null ELSE mm.next[x]
      /\ \A k \in Queue : /\ r.tail[k] = IF k = q /\ n = Null THEN Null ELSE mm.tail[k]
                          /\ r.head[k] = IF k = q THEN n ELSE mm.head[k]
                          /\ r.size[k] = IF k = q THEN mm.size[q] - 1 ELSE mm.size[k]
  BY <1>4 DEF Mem, Put
<1>7. n = Null <=> Len(s) = 1
  <2> DEFINE k == Len(s)
  <2>k. k \in Nat \ {0}
    BY <1>1, <1>2
  <2> HIDE DEF k
  <2>0. k = 1 <=> 2 \notin 1 .. k
    BY <2>k
  <2>1. Len(s) = 1 <=> 2 \notin 1 .. Len(s)
    BY <2>0 DEF k
  <2> QED BY <1>1, <1>3, <2>1 DEF At
<1>8. \A i \in Nat : At(u, i) = IF i = 0 THEN Null ELSE At(s, i + 1)
  BY <1>1, <1>2, <1>5 DEF At
<1>9. r.head[q] = At(u, 1)
  BY <1>3, <1>6, <1>8
<1>10. r.tail[q] = At(u, Len(u)) /\ r.size[q] = Len(u)
  BY <1>1, <1>2, <1>5, <1>6, <1>7, <1>8 DEF At
<1>11. ASSUME NEW i \in 1 .. Len(u) PROVE r.next[u[i]] = At(u, i + 1) /\ r.prev[u[i]] = At(u, i - 1)
  <2>1. i + 1 \in 1 .. Len(s) /\ i + 1 # 1 /\ u[i] = s[i + 1] /\ s[i + 1] # h /\ s[i + 1] \in Event
    BY <1>1, <1>2, <1>5
  <2>2. s[i + 1] = n <=> i = 1
    BY <1>1, <1>3, <2>1 DEF At
  <2>3. At(u, i + 1) = At(s, (i + 1) + 1)
    <3>1. i + 1 \in Nat /\ i + 1 # 0
      BY <2>1
    <3> QED BY <1>8, <3>1
  <2>4. At(u, i - 1) = IF i = 1 THEN Null ELSE At(s, (i + 1) - 1)
    <3>1. i - 1 \in Nat /\ (i - 1 = 0 <=> i = 1) /\ (i - 1) + 1 = (i + 1) - 1
      BY <2>1
    <3> QED BY <1>8, <3>1
  <2>5. mm.next[s[i + 1]] = At(s, (i + 1) + 1) /\ mm.prev[s[i + 1]] = At(s, (i + 1) - 1)
    BY <1>1, <2>1
  <2>6. r.prev[s[i + 1]] = (IF s[i + 1] = n THEN Null ELSE mm.prev[s[i + 1]]) /\ r.next[s[i + 1]] = mm.next[s[i + 1]]
    BY <1>6, <2>1
  <2> QED BY <2>1, <2>2, <2>3, <2>4, <2>5, <2>6
<1>12. IsQueue(r, q, u)
  BY <1>5, <1>9, <1>10, <1>11 DEF IsQueue, IsChain
<1>13. Elsewhere(mm, r, q, On(s))
  <2>1. n = Null \/ n \in On(s)
    BY <1>1, <1>3 DEF At
  <2> QED BY <1>1, <1>2, <1>6, <2>1 DEF Elsewhere
<1> QED BY <1>2, <1>4, <1>12, <1>13 DEF r, u, h

\* Delete takes the event in place m off.
LEMMA DeleteIs ==
  ASSUME NEW mm \in Mem, NEW q \in Queue, NEW s, IsQueue(mm, q, s), NEW d \in 1 .. Len(s)
  PROVE  LET r == tw_eventq_delete_any(mm, q, s[d])
         IN  r \in Mem /\ IsQueue(r, q, RemoveAt(s, d)) /\ Elsewhere(mm, r, q, On(s))
<1> DEFINE e == s[d]
           r == tw_eventq_delete_any(mm, q, e)
           u == RemoveAt(s, d)
           p == mm.prev[e]
           n == mm.next[e]
<1>1. /\ s \in Lists /\ s \in Seq(Event) /\ Len(s) \in Nat /\ Null \notin Event
      /\ \A i \in 1 .. Len(s) : s[i] \in Event /\ s[i] \in On(s) /\ s[i] # Null
      /\ \A i, j \in 1 .. Len(s) : s[i] = s[j] => i = j
      /\ mm.head[q] = At(s, 1) /\ mm.tail[q] = At(s, Len(s)) /\ mm.size[q] = Len(s)
      /\ \A i \in 1 .. Len(s) : mm.next[s[i]] = At(s, i + 1) /\ mm.prev[s[i]] = At(s, i - 1)
  BY QueueParts
<1>2. e \in Event /\ e \in On(s) /\ e # Null /\ mm.size[q] # 0
  BY <1>1
<1>3. n = At(s, d + 1) /\ p = At(s, d - 1)
  BY <1>1
<1>4. /\ r \in Mem /\ r.next = Put(Put(mm.next, p, n), e, Null) /\ r.prev = Put(Put(mm.prev, n, p), e, Null)
      /\ r.head = IF p = Null THEN Put(mm.head, q, n) ELSE mm.head
      /\ r.tail = IF n = Null THEN Put(mm.tail, q, p) ELSE mm.tail
      /\ r.size = Put(mm.size, q, mm.size[q] - 1)
  BY <1>2, DeleteFields
<1>5. /\ u \in Lists /\ Len(u) = Len(s) - 1
      /\ (\A i \in 1 .. d - 1 : u[i] = s[i]) /\ (\A i \in d .. Len(s) - 1 : u[i] = s[i + 1])
  BY <1>1, Removed
<1>6. \A i \in Int : At(u, i) = IF i < d THEN At(s, i) ELSE At(s, i + 1)
  <2> HIDE DEF u
  <2> QED BY <1>1, <1>5 DEF At
<1> HIDE DEF r, u, e, p, n
<1>7. /\ \A x \in Event : r.prev[x] = IF x = e THEN Null ELSE IF x = n THEN p ELSE mm.prev[x]
      /\ \A x \in Event : r.next[x] = IF x = e THEN Null ELSE IF x = p THEN n ELSE mm.next[x]
      /\ \A k \in Queue : /\ r.tail[k] = IF k = q /\ n = Null THEN p ELSE mm.tail[k]
                          /\ r.head[k] = IF k = q /\ p = Null THEN n ELSE mm.head[k]
                          /\ r.size[k] = IF k = q THEN mm.size[q] - 1 ELSE mm.size[k]
  BY <1>4 DEF Mem, Put
<1>8. (n = Null <=> d = Len(s)) /\ (p = Null <=> d = 1)
  BY <1>1, <1>3 DEF At
<1>9. r.head[q] = At(u, 1)
  <2>1. At(u, 1) = IF 1 < d THEN At(s, 1) ELSE At(s, 1 + 1)
    BY <1>6
  <2>2. r.head[q] = IF p = Null THEN n ELSE At(s, 1)
    BY <1>1, <1>7
  <2>3. CASE d = 1
    BY <1>3, <1>8, <2>1, <2>2, <2>3
  <2>4. CASE d # 1
    BY <1>8, <2>1, <2>2, <2>4
  <2> QED BY <2>3, <2>4
<1>10. r.tail[q] = At(u, Len(u)) /\ r.size[q] = Len(u)
  <2>0. Len(u) \in Int
    BY <1>1, <1>5
  <2>1. At(u, Len(u)) = IF Len(u) < d THEN At(s, Len(u)) ELSE At(s, Len(u) + 1)
    BY <1>6, <2>0
  <2>2. r.tail[q] = (IF n = Null THEN p ELSE At(s, Len(s))) /\ r.size[q] = Len(s) - 1
    BY <1>1, <1>7
  <2>3. Len(u) = Len(s) - 1 /\ Len(u) + 1 = Len(s)
    BY <1>1, <1>5
  <2>4. CASE d = Len(s)
    BY <1>3, <1>8, <2>1, <2>2, <2>3, <2>4
  <2>5. CASE d # Len(s)
    <3>1. ~(Len(u) < d)
      BY <1>1, <2>3, <2>5
    <3> QED BY <1>8, <2>1, <2>2, <2>3, <2>5, <3>1
  <2> QED BY <2>4, <2>5
<1>11. ASSUME NEW i \in 1 .. Len(u) PROVE r.next[u[i]] = At(u, i + 1) /\ r.prev[u[i]] = At(u, i - 1)
  <2> DEFINE j == IF i < d THEN i ELSE i + 1
  <2>1. j \in 1 .. Len(s) /\ j # d /\ u[i] = s[j]
    <3>1. i \in 1 .. Len(s) - 1
      BY <1>5
    <3>2. CASE i < d
      <4>1. i \in 1 .. d - 1
        BY <3>1, <3>2
      <4> QED BY <1>1, <1>5, <3>1, <3>2, <4>1
    <3>3. CASE ~(i < d)
      <4>1. i \in d .. Len(s) - 1
        BY <3>1, <3>3
      <4> QED BY <1>1, <1>5, <3>1, <3>3, <4>1
    <3> QED BY <3>2, <3>3
  <2>2. s[j] # e /\ s[j] \in Event
    BY <1>1, <2>1 DEF e
  <2>3. (s[j] = n <=> j = d + 1) /\ (s[j] = p <=> j = d - 1)
    BY <1>1, <1>3, <2>1 DEF At
  <2>4. At(u, i + 1) = IF j = d - 1 THEN n ELSE At(s, j + 1)
    <3>1. At(u, i + 1) = IF i + 1 < d THEN At(s, i + 1) ELSE At(s, (i + 1) + 1)
      BY SMTT(30), <1>6
    <3>2. CASE i = d - 1
      <4>1. j = i /\ ~(i + 1 < d) /\ (i + 1) + 1 = d + 1
        BY <3>2
      <4> QED BY <1>3, <3>1, <3>2, <4>1
    <3>3. CASE i # d - 1
      <4>1. j # d - 1 /\ j + 1 = IF i + 1 < d THEN i + 1 ELSE (i + 1) + 1
        BY <3>3
      <4> QED BY <3>1, <4>1
    <3> QED BY <3>2, <3>3
  <2>5. At(u, i - 1) = IF j = d + 1 THEN p ELSE At(s, j - 1)
    <3>1. At(u, i - 1) = IF i - 1 < d THEN At(s, i - 1) ELSE At(s, (i - 1) + 1)
      BY SMTT(30), <1>6
    <3>2. CASE i = d
      <4>1. j = d + 1 /\ i - 1 < d
        BY <3>2
      <4> QED BY <1>3, <3>1, <3>2, <4>1
    <3>3. CASE i # d
      <4>1. j # d + 1 /\ j - 1 = IF i - 1 < d THEN i - 1 ELSE (i - 1) + 1
        BY <3>3
      <4> QED BY <3>1, <4>1
    <3> QED BY <3>2, <3>3
  <2>6. mm.next[s[j]] = At(s, j + 1) /\ mm.prev[s[j]] = At(s, j - 1)
    BY <1>1, <2>1
  <2> HIDE DEF j
  <2>7. /\ r.next[s[j]] = IF s[j] = p THEN n ELSE mm.next[s[j]]
        /\ r.prev[s[j]] = IF s[j] = n THEN p ELSE mm.prev[s[j]]
    BY <1>7, <2>2
  <2> QED BY <2>1, <2>3, <2>4, <2>5, <2>6, <2>7
<1>12. IsQueue(r, q, u)
  BY <1>5, <1>9, <1>10, <1>11 DEF IsQueue, IsChain
<1>13. Elsewhere(mm, r, q, On(s))
  <2>1. (n = Null \/ n \in On(s)) /\ (p = Null \/ p \in On(s))
    BY <1>1, <1>3 DEF At
  <2> QED BY <1>1, <1>2, <1>7, <2>1 DEF Elsewhere
<1> QED BY <1>4, <1>12, <1>13 DEF r, u, e

\* Pop_list leaves the queue empty; the events keep their order.
LEMMA PopListIs ==
  ASSUME NEW mm \in Mem, NEW q \in Queue
  PROVE  LET r == tw_eventq_pop_list(mm, q)
         IN  /\ r \in Mem /\ r.next = mm.next /\ r.prev = mm.prev
             /\ IsQueue(r, q, <<>>) /\ Elsewhere(mm, r, q, {})
<1> DEFINE r == tw_eventq_pop_list(mm, q)
<1>1. /\ r \in Mem /\ r.next = mm.next /\ r.prev = mm.prev
      /\ r.head = Put(mm.head, q, Null) /\ r.tail = Put(mm.tail, q, Null) /\ r.size = Put(mm.size, q, 0)
  BY PopListFields
<1> HIDE DEF r
<1>2. \A k \in Queue : /\ r.tail[k] = IF k = q THEN Null ELSE mm.tail[k]
                       /\ r.head[k] = IF k = q THEN Null ELSE mm.head[k]
                       /\ r.size[k] = IF k = q THEN 0 ELSE mm.size[k]
  BY <1>1 DEF Mem, Put
<1>3. <<>> \in Lists /\ Len(<<>>) = 0 /\ \A i : At(<<>>, i) = Null
  BY DEF Lists, At
<1>4. IsQueue(r, q, <<>>)
  BY <1>2, <1>3 DEF IsQueue, IsChain
<1>5. Elsewhere(mm, r, q, {})
  BY <1>1, <1>2 DEF Elsewhere
<1> QED BY <1>1, <1>4, <1>5 DEF r
-----------------------------------------------------------------------------
\* What from is in From: the sequence of at most k events from f on.
Walks(g, mm, n) ==
  g = [x \in (0 .. n) \X (Event \cup {Null}) |->
         IF x[1] = 0 \/ x[2] = Null THEN <<>> ELSE <<x[2]>> \o g[<<x[1] - 1, mm.next[x[2]]>>]]

\* There is such a function.
LEMMA WalkExists ==
  ASSUME NEW mm \in Mem
  PROVE  \E g : Walks(g, mm, N)
<1> DEFINE T == {n \in 0 .. N : \E g : Walks(g, mm, n)}
           D(n) == (0 .. n) \X (Event \cup {Null})
           Next1(x) == <<x[1] - 1, mm.next[x[2]]>>
<1>1. N \in Nat /\ \A f \in Event : mm.next[f] \in Event \cup {Null}
  BY EventQAssumption DEF Mem, Ref
<1>2. 0 \in T
  <2> DEFINE g == [x \in D(0) |-> <<>>]
  <2>1. g = [x \in D(0) |-> IF x[1] = 0 \/ x[2] = Null THEN <<>> ELSE <<x[2]>> \o g[Next1(x)]]
    <3>1. \A x \in D(0) : x[1] = 0
      OBVIOUS
    <3> QED BY <3>1
  <2>2. Walks(g, mm, 0)
    BY <2>1 DEF Walks
  <2> HIDE DEF g
  <2> QED BY <1>1, <2>2
<1>3. ASSUME NEW i \in 0 .. N - 1, i \in T
      PROVE  i + 1 \in T
  <2>1. PICK h : Walks(h, mm, i)
    BY <1>3
  <2> DEFINE g == [x \in D(i + 1) |->
                     IF x[1] = i + 1 THEN IF x[2] = Null THEN <<>> ELSE <<x[2]>> \o h[<<i, mm.next[x[2]]>>]
                                     ELSE h[x]]
  <2>2. ASSUME NEW x \in D(i + 1)
        PROVE  g[x] = IF x[1] = 0 \/ x[2] = Null THEN <<>> ELSE <<x[2]>> \o g[Next1(x)]
    <3>0. x[1] \in 0 .. i + 1 /\ x[2] \in Event \cup {Null} /\ x = <<x[1], x[2]>>
      OBVIOUS
    <3>1. x[1] # i + 1 => x \in D(i) /\ g[x] = h[x]
      <4>1. x[1] # i + 1 => x[1] \in 0 .. i
        BY <3>0
      <4> QED BY <3>0, <4>1
    <3>2. \A y \in D(i) : h[y] = IF y[1] = 0 \/ y[2] = Null THEN <<>> ELSE <<y[2]>> \o h[Next1(y)]
      BY <2>1 DEF Walks
    <3>3. CASE x[1] = i + 1
      <4>1. g[x] = IF x[2] = Null THEN <<>> ELSE <<x[2]>> \o h[<<i, mm.next[x[2]]>>]
        BY <3>3
      <4>2. x[1] # 0 /\ x[1] - 1 = i
        BY <3>3
      <4>3. CASE x[2] = Null
        BY <4>1, <4>3
      <4>4. CASE x[2] # Null
        <5>1. mm.next[x[2]] \in Event \cup {Null}
          BY <1>1, <3>0, <4>4
        <5>2. Next1(x) = <<i, mm.next[x[2]]>> /\ Next1(x) \in D(i + 1) /\ Next1(x)[1] = i /\ i # i + 1
          BY <4>2, <5>1
        <5>3. g[Next1(x)] = h[Next1(x)]
          BY <5>2
        <5> QED BY <4>1, <4>2, <4>4, <5>2, <5>3
      <4> QED BY <4>3, <4>4
    <3>4. CASE x[1] # i + 1
      <4>1. g[x] = IF x[1] = 0 \/ x[2] = Null THEN <<>> ELSE <<x[2]>> \o h[Next1(x)]
        BY <3>1, <3>2, <3>4
      <4>2. CASE x[1] = 0 \/ x[2] = Null
        BY <4>1, <4>2
      <4>3. CASE ~(x[1] = 0 \/ x[2] = Null)
        <5>1. mm.next[x[2]] \in Event \cup {Null} /\ x[1] - 1 \in 0 .. i + 1 /\ x[1] - 1 # i + 1
          BY <1>1, <3>0, <4>3
        <5>2. Next1(x) \in D(i + 1) /\ Next1(x)[1] # i + 1
          BY <5>1
        <5>3. g[Next1(x)] = h[Next1(x)]
          BY <5>2
        <5> QED BY <4>1, <4>3, <5>3
      <4> QED BY <4>2, <4>3
    <3> QED BY <3>3, <3>4
  <2>3. g = [x \in D(i + 1) |-> g[x]]
    OBVIOUS
  <2> HIDE DEF g
  <2>4. Walks(g, mm, i + 1)
    BY <2>2, <2>3 DEF Walks
  <2> QED BY <1>1, <2>4
<1>4. N \in T
  <2> HIDE DEF T
  <2>1. \A i \in 0 .. N : i \in T
    BY <1>1, <1>2, <1>3, UpTo
  <2> QED BY <1>1, <2>1
<1> QED BY <1>4

\* A chain is what From finds.
LEMMA FromIs ==
  ASSUME NEW mm \in Mem, NEW e, NEW s, IsChain(mm, e, s)
  PROVE  From(mm, e) = s
<1> DEFINE D == (0 .. N) \X (Event \cup {Null})
           g == CHOOSE g : Walks(g, mm, N)
<1>1. Walks(g, mm, N)
  BY WalkExists
<1>2. From(mm, e) = g[<<N, e>>]
  BY DEF From, Walks
<1> HIDE DEF g
<1>3. \A x \in D : g[x] = IF x[1] = 0 \/ x[2] = Null THEN <<>> ELSE <<x[2]>> \o g[<<x[1] - 1, mm.next[x[2]]>>]
  BY <1>1 DEF Walks
<1> DEFINE n == Len(s)
           Rest(j) == SubSeq(s, n - j + 1, n)
           T == {j \in 0 .. n : \A k \in j .. N : g[<<k, At(s, n - j + 1)>>] = Rest(j)}
<1>4. /\ N \in Nat /\ n \in Nat /\ n <= N /\ s \in Seq(Event) /\ Null \notin Event /\ e = At(s, 1)
      /\ \A i \in 1 .. n : mm.next[s[i]] = At(s, i + 1) /\ s[i] \in Event
  <2>1. s \in Lists /\ e = At(s, 1) /\ \A i \in 1 .. Len(s) : mm.next[s[i]] = At(s, i + 1)
    BY DEF IsChain
  <2>2. Len(s) \in 0 .. N /\ N \in Nat /\ Null \notin Event
    BY <2>1, ListLength, EventQAssumption DEF Event
  <2> QED BY <2>1, <2>2 DEF Lists
<1>5. 0 \in T
  <2>1. At(s, n - 0 + 1) = Null
    BY <1>4 DEF At
  <2>2. Rest(0) = <<>>
    <3> DEFINE a == n - 0 + 1
    <3>1. a \in Int /\ n \in Int /\ n < a
      BY <1>4
    <3> HIDE DEF n, a
    <3>2. SubSeq(s, a, n) = <<>>
      BY <3>1, SubSeqEmpty, Zenon
    <3> QED BY <3>2 DEF a
  <2>3. \A k \in 0 .. N : <<k, Null>> \in D /\ <<k, Null>>[2] = Null
    OBVIOUS
  <2>4. \A k \in 0 .. N : g[<<k, Null>>] = <<>>
    BY <1>3, <2>3
  <2> HIDE DEF Rest
  <2> QED BY <1>4, <2>1, <2>2, <2>4
<1>6. ASSUME NEW j \in 0 .. n - 1, j \in T
      PROVE  j + 1 \in T
  <2> DEFINE i == n - j
  <2>1. i \in 1 .. n /\ n - (j + 1) + 1 = i /\ n - j + 1 = i + 1 /\ j + 1 \in 0 .. n
    BY <1>4
  <2>2. At(s, i) = s[i] /\ s[i] \in Event /\ mm.next[s[i]] = At(s, i + 1) /\ At(s, i + 1) \in Event \cup {Null}
    BY <1>4, <2>1 DEF At
  <2>3. ASSUME NEW k \in j + 1 .. N
        PROVE  g[<<k, s[i]>>] = <<s[i]>> \o SubSeq(s, i + 1, n)
    <3> DEFINE x == <<k, s[i]>>
    <3>1. x \in D /\ x[1] = k /\ x[2] = s[i] /\ k # 0 /\ s[i] # Null
      BY <1>4, <2>2
    <3>2. k - 1 \in j .. N
      <4>1. j \in Nat /\ N \in Nat /\ k \in j + 1 .. N
        BY <1>4
      <4> HIDE DEF i
      <4> QED BY <4>1
    <3>3. g[<<k - 1, At(s, i + 1)>>] = SubSeq(s, i + 1, n)
      BY <1>6, <2>1, <3>2
    <3> HIDE DEF x, g, D
    <3>4. g[x] = <<x[2]>> \o g[<<x[1] - 1, mm.next[x[2]]>>]
      BY <1>3, <3>1
    <3> QED BY <2>2, <3>1, <3>3, <3>4 DEF x
  <2>4. SubSeq(s, i, n) = <<s[i]>> \o SubSeq(s, i + 1, n)
    <3>1. n \in i .. Len(s)
      BY <1>4, <2>1
    <3> HIDE DEF i
    <3> QED BY <1>4, <2>1, <3>1, SubSeqRecursiveFirst
  <2> HIDE DEF i
  <2>5. \A k \in j + 1 .. N : g[<<k, At(s, n - (j + 1) + 1)>>] = SubSeq(s, n - (j + 1) + 1, n)
    BY <2>1, <2>2, <2>3, <2>4
  <2> QED BY <2>1, <2>5
<1>7. n \in T
  <2> HIDE DEF T
  <2>1. \A j \in 0 .. n : j \in T
    BY <1>4, <1>5, <1>6, UpTo
  <2> QED BY <1>4, <2>1
<1>8. g[<<N, At(s, n - n + 1)>>] = Rest(n)
  <2>1. N \in n .. N
    BY <1>4
  <2> HIDE DEF Rest, n
  <2> QED BY <1>7, <2>1
<1>9. n - n + 1 = 1
  BY <1>4
<1>10. SubSeq(s, 1, n) = s
  BY <1>4, SubSeqFull
<1> QED BY <1>2, <1>4, <1>8, <1>9, <1>10
-----------------------------------------------------------------------------
\* The events of s from its d-th on.
OldFrom(s, d) == {s[i] : i \in d .. Len(s)}

\* What the loop of fossil collection leaves when these are old.
Found(o, s, d) == o = [n |-> s[d - 1], cnt |-> Len(s) - d + 1]

\* The loop of fossil collection finds the newest event that is not old, and
\* how many are: old holds the events of s from place d on.
LEMMA OvershootIs ==
  ASSUME NEW mm \in Mem, NEW q \in Queue, NEW s, IsQueue(mm, q, s),
         NEW d \in 2 .. Len(s), NEW old, old = OldFrom(s, d)
  PROVE  Found(Overshoot(mm, s[Len(s)], old), s, d)
<1> DEFINE n == Len(s)
           t == s[n]
           Upto(i) == IF i < n - d THEN i ELSE n - d
           g == [i \in 0 .. N |-> [n |-> s[n - 1 - Upto(i)], cnt |-> 1 + Upto(i)]]
           w == CHOOSE w : w = [i \in 0 .. N |-> IF i = 0 THEN [n |-> mm.prev[t], cnt |-> 1] ELSE OldNext(mm, w[i - 1], old)]
<1>1. /\ n \in Nat /\ n <= N /\ N \in Nat /\ d \in 2 .. n
      /\ \A i \in 1 .. n : s[i] # Null /\ mm.prev[s[i]] = At(s, i - 1)
      /\ \A i, j \in 1 .. n : s[i] = s[j] => i = j
  <2>1. /\ s \in Lists /\ s \in Seq(Event) /\ Len(s) \in Nat /\ Null \notin Event
        /\ \A i \in 1 .. Len(s) : s[i] \in Event /\ s[i] \in On(s) /\ s[i] # Null
        /\ \A i, j \in 1 .. Len(s) : s[i] = s[j] => i = j
        /\ mm.head[q] = At(s, 1) /\ mm.tail[q] = At(s, Len(s)) /\ mm.size[q] = Len(s)
        /\ \A i \in 1 .. Len(s) : mm.next[s[i]] = At(s, i + 1) /\ mm.prev[s[i]] = At(s, i - 1)
    BY QueueParts
  <2>2. Len(s) \in 0 .. N /\ N \in Nat
    BY <2>1, ListLength, EventQAssumption
  <2> QED BY <2>1, <2>2
<1>2. \A i \in 2 .. n : mm.prev[s[i]] = s[i - 1]
  BY <1>1 DEF At
<1>3. \A i \in 1 .. n : s[i] \in old <=> i >= d
  <2>1. old = {s[i] : i \in d .. n}
    BY DEF OldFrom
  <2> QED BY <1>1, <2>1
<1>4. \A i \in 0 .. N : Upto(i) \in 0 .. n - d
  BY <1>1
<1>5. Overshoot(mm, t, old) = w[N]
  BY DEF Overshoot
<1> HIDE DEF n, t
<1>6. g = [i \in 0 .. N |-> IF i = 0 THEN [n |-> mm.prev[t], cnt |-> 1] ELSE OldNext(mm, g[i - 1], old)]
  <2>1. ASSUME NEW i \in 0 .. N
        PROVE  g[i] = IF i = 0 THEN [n |-> mm.prev[t], cnt |-> 1] ELSE OldNext(mm, g[i - 1], old)
    <3>1. CASE i = 0
      <4>1. Upto(0) = 0 /\ n - 1 - 0 = n - 1 /\ 1 + 0 = 1 /\ n \in 2 .. n
        BY <1>1
      <4>2. mm.prev[t] = s[n - 1]
        BY <1>2, <4>1 DEF t
      <4>3. g[i] = [n |-> s[n - 1], cnt |-> 1]
        BY <3>1, <4>1
      <4> QED BY <3>1, <4>2, <4>3
    <3>2. CASE i # 0
      <4> DEFINE k == Upto(i - 1)
                 x == n - 1 - k
                 o == g[i - 1]
      <4>1. i - 1 \in 0 .. N
        BY <1>1, <3>2
      <4>2. k \in 0 .. n - d /\ x \in d - 1 .. n - 1 /\ x \in 1 .. n
        BY <1>1, <1>4, <4>1
      <4>3. o = [n |-> s[x], cnt |-> 1 + k]
        BY <4>1
      <4>4. CASE k = n - d
        <5>1. Upto(i) = k /\ x = d - 1
          BY <1>1, <4>1, <4>4
        <5>2. ~(s[x] \in old)
          BY <1>1, <1>3, <4>2, <5>1
        <5>3. g[i] = o
          BY <4>3, <5>1
        <5>4. OldNext(mm, o, old) = o
          BY <4>3, <5>2 DEF OldNext
        <5> QED BY <3>2, <5>3, <5>4
      <4>5. CASE k # n - d
        <5>1. Upto(i) = k + 1 /\ x >= d /\ x \in 2 .. n /\ x - 1 = n - 1 - (k + 1)
          BY <1>1, <3>2, <4>1, <4>2, <4>5
        <5>2. s[x] \in old /\ s[x] # Null /\ mm.prev[s[x]] = s[x - 1]
          BY <1>1, <1>2, <1>3, <4>2, <5>1
        <5>3. g[i] = [n |-> s[x - 1], cnt |-> 1 + (k + 1)]
          BY <5>1
        <5>4. o.n = s[x] /\ o.cnt = 1 + k /\ (1 + k) + 1 = 1 + (k + 1)
          BY <4>2, <4>3
        <5> HIDE DEF k, x, o
        <5>5. OldNext(mm, o, old) = [n |-> s[x - 1], cnt |-> 1 + (k + 1)]
          BY <5>2, <5>4 DEF OldNext
        <5> QED BY <3>2, <5>3, <5>5 DEF o
      <4> QED BY <4>4, <4>5
    <3> QED BY <3>1, <3>2
  <2>2. g = [i \in 0 .. N |-> g[i]]
    OBVIOUS
  <2> HIDE DEF g
  <2> QED BY <2>1, <2>2
<1>7. w = [i \in 0 .. N |-> IF i = 0 THEN [n |-> mm.prev[t], cnt |-> 1] ELSE OldNext(mm, w[i - 1], old)]
  <2> HIDE DEF g
  <2> QED BY <1>6
<1>8. g[N] = [n |-> s[d - 1], cnt |-> n - d + 1]
  <2>1. Upto(N) = n - d /\ n - 1 - (n - d) = d - 1 /\ 1 + (n - d) = n - d + 1
    BY <1>1
  <2> QED BY <1>1, <2>1
<1> HIDE DEF g, w
<1> DEFINE T == {i \in 0 .. N : w[i] = g[i]}
<1>9. 0 \in T
  <2>1. 0 \in 0 .. N
    BY <1>1
  <2>2. w[0] = [n |-> mm.prev[t], cnt |-> 1]
    BY <1>7, <2>1
  <2>3. g[0] = [n |-> mm.prev[t], cnt |-> 1]
    BY <1>6, <2>1
  <2> QED BY <2>1, <2>2, <2>3
<1>10. ASSUME NEW i \in 0 .. N - 1, i \in T PROVE i + 1 \in T
  <2>1. i + 1 \in 0 .. N /\ i + 1 # 0 /\ (i + 1) - 1 = i
    BY <1>1
  <2>2. w[i + 1] = OldNext(mm, w[i], old)
    BY <1>7, <2>1
  <2>3. g[i + 1] = OldNext(mm, g[i], old)
    BY <1>6, <2>1
  <2> QED BY <1>10, <2>1, <2>2, <2>3
<1>11. N \in T
  <2> HIDE DEF T
  <2>1. \A i \in 0 .. N : i \in T
    BY <1>1, <1>9, <1>10, UpTo
  <2> QED BY <1>1, <2>1
<1> QED BY <1>5, <1>8, <1>11 DEF t, n, Found
-----------------------------------------------------------------------------
\* Changes one after the other.
LEMMA ElsewhereTwice ==
  ASSUME NEW x, NEW y, NEW z, NEW q, NEW R, NEW S, NEW W,
         Elsewhere(x, y, q, R), Elsewhere(y, z, q, S), R \subseteq W, S \subseteq W
  PROVE  Elsewhere(x, z, q, W)
<1>1. \A e \in Event \ W : e \in Event \ R /\ e \in Event \ S
  OBVIOUS
<1> QED BY <1>1 DEF Elsewhere

\* c is linked in itself, whatever comes before and after it.
IsSegment(mm, c) ==
  /\ c \in Lists /\ c # <<>>
  /\ \A i \in 1 .. Len(c) - 1 : mm.next[c[i]] = c[i + 1]
  /\ \A i \in 2 .. Len(c) : mm.prev[c[i]] = c[i - 1]

\* What tw_eventq_push_list leaves before it frees what was sent.
Linked(mm, q, h, t, cnt) ==
  LET a == [mm EXCEPT !.next[t] = mm.head[q], !.size[q] = mm.size[q] + cnt]
      x == IF a.head[q] # Null THEN [a EXCEPT !.prev[a.head[q]] = t] ELSE a
      c == [x EXCEPT !.head[q] = h, !.prev[h] = Null]
  IN  IF c.tail[q] = Null THEN [c EXCEPT !.tail[q] = t] ELSE c

\* Its fields, as in PushFields.
LEMMA LinkedFields ==
  ASSUME NEW mm \in Mem, NEW q \in Queue, NEW h \in Event, NEW t \in Event, NEW cnt \in Nat
  PROVE  LET r == Linked(mm, q, h, t, cnt)
         IN  /\ r \in Mem
             /\ r.next = Put(mm.next, t, mm.head[q])
             /\ r.prev = Put(Put(mm.prev, mm.head[q], t), h, Null)
             /\ r.head = Put(mm.head, q, h)
             /\ r.tail = IF mm.tail[q] = Null THEN Put(mm.tail, q, t) ELSE mm.tail
             /\ r.size = Put(mm.size, q, mm.size[q] + cnt)
<1> DEFINE k == mm.head[q]
           a == [mm EXCEPT !.next[t] = k, !.size[q] = mm.size[q] + cnt]
           x == IF a.head[q] # Null THEN [a EXCEPT !.prev[a.head[q]] = t] ELSE a
           c == [x EXCEPT !.head[q] = h, !.prev[h] = Null]
           r == IF c.tail[q] = Null THEN [c EXCEPT !.tail[q] = t] ELSE c
<1>1. k \in Ref /\ mm.size[q] + cnt \in Nat /\ Null \notin Event /\ Null \in Ref
  BY EventQAssumption DEF Mem, Event, Ref
<1>2. Linked(mm, q, h, t, cnt) = r
  BY DEF Linked
<1>3. /\ a \in Mem /\ a.next = Put(mm.next, t, k) /\ a.prev = mm.prev /\ a.head = mm.head /\ a.tail = mm.tail
      /\ a.size = Put(mm.size, q, mm.size[q] + cnt)
  <2> HIDE DEF k
  <2> QED BY <1>1 DEF Mem, Put, Ref
<1>4. a.head[q] = k
  BY <1>3
<1>5. /\ x \in Mem /\ x.next = a.next /\ x.prev = Put(a.prev, k, t) /\ x.head = a.head /\ x.tail = a.tail
      /\ x.size = a.size
  <2>1. x = IF k # Null THEN [a EXCEPT !.prev[k] = t] ELSE a
    BY <1>4
  <2> HIDE DEF a, k, x
  <2>2. CASE k # Null
    <3>1. k \in Event /\ x = [a EXCEPT !.prev[k] = t]
      BY <1>1, <2>1, <2>2 DEF Ref
    <3> QED BY <1>3, <3>1 DEF Mem, Put, Ref
  <2>3. CASE k = Null
    <3>1. Put(a.prev, k, t) = a.prev /\ x = a
      BY <1>1, <1>3, <2>1, <2>3 DEF Mem, Put
    <3> QED BY <1>3, <3>1
  <2> QED BY <2>2, <2>3
<1>6. /\ c \in Mem /\ c.next = x.next /\ c.prev = Put(x.prev, h, Null) /\ c.head = Put(x.head, q, h)
      /\ c.tail = x.tail /\ c.size = x.size
  <2> HIDE DEF x
  <2> QED BY <1>1, <1>5 DEF Mem, Put, Ref
<1>7. /\ r \in Mem /\ r.next = c.next /\ r.prev = c.prev /\ r.head = c.head /\ r.size = c.size
      /\ r.tail = IF c.tail[q] = Null THEN Put(c.tail, q, t) ELSE c.tail
  <2> HIDE DEF c
  <2> QED BY SMTT(30), <1>1, <1>6 DEF Mem, Put, Ref
<1> HIDE DEF a, x, c, r
<1> QED BY <1>2, <1>3, <1>5, <1>6, <1>7 DEF k

\* c is put before f.
LEMMA LinkedIs ==
  ASSUME NEW mm \in Mem, NEW q \in Queue, NEW f, IsQueue(mm, q, f), NEW c, IsSegment(mm, c), On(c) \cap On(f) = {}
  PROVE  LET r == Linked(mm, q, c[1], c[Len(c)], Len(c))
         IN  r \in Mem /\ IsQueue(r, q, c \o f) /\ Elsewhere(mm, r, q, On(c) \cup On(f))
<1> DEFINE n == Len(c)
           h == c[1]
           t == c[n]
           r == Linked(mm, q, h, t, n)
           u == c \o f
           k == mm.head[q]
<1>1. /\ f \in Lists /\ f \in Seq(Event) /\ Len(f) \in Nat /\ Null \notin Event
      /\ \A i \in 1 .. Len(f) : f[i] \in Event /\ f[i] \in On(f) /\ f[i] # Null
      /\ \A i, j \in 1 .. Len(f) : f[i] = f[j] => i = j
      /\ k = At(f, 1) /\ mm.tail[q] = At(f, Len(f)) /\ mm.size[q] = Len(f)
      /\ \A i \in 1 .. Len(f) : mm.next[f[i]] = At(f, i + 1) /\ mm.prev[f[i]] = At(f, i - 1)
  BY QueueParts
<1>2. /\ c \in Lists /\ n \in Nat \ {0}
      /\ \A i \in 1 .. n : c[i] \in Event /\ c[i] \in On(c)
      /\ \A i, j \in 1 .. n : c[i] = c[j] => i = j
      /\ \A i \in 1 .. n - 1 : mm.next[c[i]] = c[i + 1]
      /\ \A i \in 2 .. n : mm.prev[c[i]] = c[i - 1]
  <2>1. c \in Seq(Event) /\ c # <<>>
    BY DEF IsSegment, Lists
  <2>2. Len(c) \in Nat \ {0}
    BY <2>1, EmptySeq
  <2> QED BY <2>1, <2>2 DEF IsSegment, Lists, On
<1>3. h \in Event /\ t \in Event /\ 1 \in 1 .. n /\ n \in 1 .. n /\ n \in Nat /\ h \in On(c) /\ t \in On(c)
  BY <1>2
<1>4. /\ r \in Mem /\ r.next = Put(mm.next, t, k) /\ r.prev = Put(Put(mm.prev, k, t), h, Null)
      /\ r.head = Put(mm.head, q, h)
      /\ r.tail = IF mm.tail[q] = Null THEN Put(mm.tail, q, t) ELSE mm.tail
      /\ r.size = Put(mm.size, q, mm.size[q] + n)
  <2> HIDE DEF n, h, t
  <2> QED BY <1>3, LinkedFields
<1>5. /\ u \in Lists /\ Len(u) = n + Len(f) /\ (\A i \in 1 .. n : u[i] = c[i]) /\ \A i \in 1 .. Len(f) : u[n + i] = f[i]
  BY <1>1, <1>2, Joined
<1> HIDE DEF r, u, h, t, n, k
<1>6. /\ \A e \in Event : r.next[e] = IF e = t THEN k ELSE mm.next[e]
      /\ \A e \in Event : r.prev[e] = IF e = h THEN Null ELSE IF e = k THEN t ELSE mm.prev[e]
      /\ \A j \in Queue : /\ r.tail[j] = IF j = q /\ mm.tail[q] = Null THEN t ELSE mm.tail[j]
                          /\ r.head[j] = IF j = q THEN h ELSE mm.head[j]
                          /\ r.size[j] = IF j = q THEN mm.size[q] + n ELSE mm.size[j]
  BY <1>4 DEF Mem, Put
<1>7. /\ \A i \in 1 .. n : At(u, i) = c[i]
      /\ \A i \in 1 .. Len(f) + 1 : At(u, n + i) = At(f, i)
      /\ At(u, 0) = Null
  <2>1. \A i \in 1 .. n : At(u, i) = c[i]
    BY <1>1, <1>2, <1>5 DEF At
  <2>2. ASSUME NEW i \in 1 .. Len(f) + 1 PROVE At(u, n + i) = At(f, i)
    <3>1. CASE i = Len(f) + 1
      <4>1. n + i \notin 1 .. Len(u) /\ i \notin 1 .. Len(f)
        BY <1>1, <1>2, <1>5, <3>1
      <4> QED BY <4>1 DEF At
    <3>2. CASE i # Len(f) + 1
      <4>1. n + i \in 1 .. Len(u) /\ i \in 1 .. Len(f)
        BY <1>1, <1>2, <1>5, <3>2
      <4> QED BY <1>5, <4>1 DEF At
    <3> QED BY <3>1, <3>2
  <2>3. At(u, 0) = Null
    BY DEF At
  <2> QED BY <2>1, <2>2, <2>3
<1>8. k = Null <=> Len(f) = 0
  BY <1>1 DEF At
<1>9. r.head[q] = At(u, 1)
  BY <1>3, <1>6, <1>7 DEF h
<1>10. r.tail[q] = At(u, Len(u)) /\ r.size[q] = Len(u)
  <2>1. r.size[q] = Len(u)
    <3>1. r.size[q] = Len(f) + n
      BY <1>1, <1>6
    <3> QED BY <1>1, <1>2, <1>5, <3>1
  <2>2. CASE Len(f) = 0
    <3>1. mm.tail[q] = Null /\ Len(u) = n
      BY <1>1, <1>2, <1>5, <2>2 DEF At
    <3> QED BY <1>3, <1>6, <1>7, <2>1, <3>1 DEF t
  <2>3. CASE Len(f) # 0
    <3>1. Len(f) \in 1 .. Len(f) /\ Len(f) \in 1 .. Len(f) + 1
      BY <1>1, <2>3
    <3>2. mm.tail[q] = f[Len(f)] /\ f[Len(f)] # Null
      BY <1>1, <3>1 DEF At
    <3>3. r.tail[q] = At(f, Len(f))
      BY <1>1, <1>6, <3>2
    <3> QED BY <1>5, <1>7, <2>1, <3>1, <3>3
  <2> QED BY <2>2, <2>3
<1>11. k \notin On(c) /\ (k = Null \/ k \in On(f))
  <2>1. k = Null \/ k \in On(f)
    BY <1>1 DEF At
  <2>2. Null \notin On(c)
    BY <1>1, <1>2 DEF On, n
  <2> QED BY <2>1, <2>2
<1>12. ASSUME NEW i \in 1 .. n
       PROVE  r.next[u[i]] = At(u, i + 1) /\ r.prev[u[i]] = At(u, i - 1)
  <2>1. u[i] = c[i] /\ c[i] \in Event /\ c[i] # k
    BY <1>2, <1>5, <1>11
  <2>2. r.next[c[i]] = At(u, i + 1)
    <3>1. CASE i = n
      <4>1. c[i] = t /\ 1 \in 1 .. Len(f) + 1
        BY <1>1, <3>1 DEF t
      <4>2. At(u, n + 1) = k
        BY <1>1, <1>7, <4>1
      <4> QED BY <1>6, <2>1, <3>1, <4>1, <4>2
    <3>2. CASE i # n
      <4>1. i \in 1 .. n - 1 /\ i + 1 \in 1 .. n /\ c[i] # t
        BY <1>2, <3>2 DEF t
      <4>2. mm.next[c[i]] = c[i + 1] /\ At(u, i + 1) = c[i + 1]
        BY <1>2, <1>7, <4>1
      <4> QED BY <1>6, <2>1, <4>1, <4>2
    <3> QED BY <3>1, <3>2
  <2>3. r.prev[c[i]] = At(u, i - 1)
    <3>1. CASE i = 1
      <4>1. c[i] = h /\ i - 1 = 0
        BY <3>1 DEF h
      <4> QED BY <1>6, <1>7, <2>1, <4>1
    <3>2. CASE i # 1
      <4>1. i \in 2 .. n /\ i - 1 \in 1 .. n /\ c[i] # h
        BY <1>2, <1>3, <3>2 DEF h
      <4>2. mm.prev[c[i]] = c[i - 1] /\ At(u, i - 1) = c[i - 1]
        BY <1>2, <1>7, <4>1
      <4> QED BY <1>6, <2>1, <4>1, <4>2
    <3> QED BY <3>1, <3>2
  <2> QED BY <2>1, <2>2, <2>3
<1>13. ASSUME NEW i \in 1 .. Len(f)
       PROVE  r.next[u[n + i]] = At(u, (n + i) + 1) /\ r.prev[u[n + i]] = At(u, (n + i) - 1)
  <2>1. u[n + i] = f[i] /\ f[i] \in Event /\ f[i] # t /\ f[i] # h
    BY <1>1, <1>3, <1>5
  <2>2. r.next[f[i]] = At(u, (n + i) + 1)
    <3>1. i + 1 \in 1 .. Len(f) + 1 /\ n + (i + 1) = (n + i) + 1
      BY <1>1, <1>2
    <3>2. At(u, (n + i) + 1) = At(f, i + 1)
      BY <1>7, <3>1
    <3>3. mm.next[f[i]] = At(f, i + 1)
      BY <1>1
    <3> QED BY <1>6, <2>1, <3>2, <3>3
  <2>3. r.prev[f[i]] = At(u, (n + i) - 1)
    <3>1. CASE i = 1
      <4>1. (n + i) - 1 = n /\ f[i] = k
        BY <1>1, <1>2, <3>1 DEF At
      <4>2. At(u, n) = t
        BY <1>3, <1>7 DEF t
      <4> QED BY <1>6, <2>1, <4>1, <4>2
    <3>2. CASE i # 1
      <4>1. i - 1 \in 1 .. Len(f) + 1 /\ n + (i - 1) = (n + i) - 1
        BY <1>1, <1>2, <3>2
      <4>2. At(u, (n + i) - 1) = At(f, i - 1)
        BY <1>7, <4>1
      <4>3. mm.prev[f[i]] = At(f, i - 1)
        BY <1>1
      <4>4. f[i] # k
        <5>1. 1 \in 1 .. Len(f)
          BY <1>1
        <5> QED BY <1>1, <3>2, <5>1 DEF At
      <4> QED BY <1>6, <2>1, <4>2, <4>3, <4>4
    <3> QED BY <3>1, <3>2
  <2> QED BY <2>1, <2>2, <2>3
<1>14. ASSUME NEW i \in 1 .. Len(u)
       PROVE  r.next[u[i]] = At(u, i + 1) /\ r.prev[u[i]] = At(u, i - 1)
  <2>1. CASE i \in 1 .. n
    BY <1>12, <2>1
  <2>2. CASE i \notin 1 .. n
    <3>1. i - n \in 1 .. Len(f) /\ n + (i - n) = i
      BY <1>1, <1>2, <1>5, <2>2
    <3> QED BY <1>13, <3>1
  <2> QED BY <2>1, <2>2
<1>15. IsQueue(r, q, u)
  BY <1>5, <1>9, <1>10, <1>14 DEF IsQueue, IsChain
<1>16. Elsewhere(mm, r, q, On(c) \cup On(f))
  BY <1>1, <1>3, <1>6, <1>11 DEF Elsewhere
<1> QED BY <1>4, <1>15, <1>16 DEF r, u, h, t, n
-----------------------------------------------------------------------------
\* A pass of tw_eventq_push_list's walk: what the event in place j had sent goes
\* before the rest of free_q, and the walk goes on to place j - 1.
LEMMA FreeNextIs ==
  ASSUME NEW mm \in Mem, NEW v \in Lists, NEW d \in Lists, On(d) \cap On(v) = {},
         IsQueue(mm, "free_q", d \o v), NEW j \in 1 .. Len(v),
         caused \in [Event -> Ref], caused[v[j]] \notin On(d) \cup On(v)
  PROVE  LET w == FreeNext([mm |-> mm, at |-> v[j]], v[1])
         IN  /\ w.mm \in Mem /\ w.at = At(v, j - 1)
             /\ \E x \in Lists : /\ On(x) = On(d) \cup ({caused[v[j]]} \ {Null}) /\ On(x) \cap On(v) = {}
                                 /\ IsQueue(w.mm, "free_q", x \o v)
                                 /\ Elsewhere(mm, w.mm, "free_q", On(x) \cup On(v))
<1> DEFINE e == v[j]
           c == caused[e]
           w0 == [mm |-> mm, at |-> e]
           w == FreeNext(w0, v[1])
           a == IF c = Null THEN mm ELSE tw_eventq_unshift(mm, "free_q", c)
           q == "free_q"
<1>1. /\ v \in Seq(Event) /\ Len(v) \in Nat /\ e \in Event /\ e # Null /\ Null \notin Event /\ 1 \in 1 .. Len(v)
      /\ \A i, k \in 1 .. Len(v) : v[i] = v[k] => i = k
      /\ \A i \in 1 .. Len(v) : v[i] \in Event
  BY EventQAssumption DEF Lists, Event
<1>2. w = [mm |-> a, at |-> IF e = v[1] THEN Null ELSE a.prev[e]]
  <2>1. w0.at = e /\ w0.mm = mm
    OBVIOUS
  <2> HIDE DEF e, w0
  <2>2. FreeNext(w0, v[1]) = [mm |-> a, at |-> IF e = v[1] THEN Null ELSE a.prev[e]]
    BY <1>1, <2>1 DEF FreeNext
  <2> QED BY <2>2
<1>3. w.mm = a /\ w.at = IF e = v[1] THEN Null ELSE a.prev[e]
  <2> HIDE DEF w, a
  <2> QED BY <1>2
<1>4. q \in Queue /\ d \in Seq(Event) /\ Len(d) \in Nat
  BY DEF Queue, Lists
<1>5. \E x \in Lists : /\ On(x) = On(d) \cup ({c} \ {Null}) /\ On(x) \cap On(v) = {}
                       /\ a \in Mem /\ IsQueue(a, q, x \o v) /\ Elsewhere(mm, a, q, On(x) \cup On(v))
  <2>1. CASE c = Null
    <3>1. a = mm /\ On(d) = On(d) \cup ({c} \ {Null})
      BY <2>1
    <3>2. Elsewhere(mm, a, q, On(d) \cup On(v))
      BY <3>1 DEF Elsewhere
    <3> QED BY <3>1, <3>2
  <2>2. CASE c # Null
    <3>1. c \in Event /\ c \notin On(d) /\ c \notin On(v)
      BY <1>1, <2>2 DEF Ref
    <3>2. On(d \o v) = On(d) \cup On(v)
      BY Joined
    <3> DEFINE x == <<c>> \o d
    <3>3. x \in Lists /\ On(x) = On(d) \cup {c}
      BY <3>1, Prepended
    <3>4. On(x) \cap On(v) = {} /\ {c} \ {Null} = {c}
      BY <2>2, <3>1, <3>3
    <3>5. x \o v = <<c>> \o (d \o v)
      <4>1. <<c>> \in Seq(Event)
        BY <3>1
      <4> HIDE DEF c
      <4> QED BY <1>1, <1>4, <4>1, ConcatAssociative
    <3>6. a = tw_eventq_unshift(mm, q, c)
      BY <2>2
    <3>7. c \in Event \ On(d \o v)
      BY <3>1, <3>2
    <3> HIDE DEF c, a, q
    <3>8. a \in Mem /\ IsQueue(a, q, <<c>> \o (d \o v)) /\ Elsewhere(mm, a, q, On(d \o v) \cup {c})
      BY <1>4, <3>6, <3>7, UnshiftIs DEF q
    <3>9. On(d \o v) \cup {c} = On(x) \cup On(v)
      BY <3>2, <3>3
    <3> QED BY <3>3, <3>4, <3>5, <3>8, <3>9
  <2> QED BY <2>1, <2>2
<1> HIDE DEF a, w, c
<1>6. PICK x \in Lists : /\ On(x) = On(d) \cup ({c} \ {Null}) /\ On(x) \cap On(v) = {}
                         /\ a \in Mem /\ IsQueue(a, q, x \o v) /\ Elsewhere(mm, a, q, On(x) \cup On(v))
  BY <1>5
<1>7. w.at = At(v, j - 1)
  <2> DEFINE k == Len(x)
             y == x \o v
  <2>1. k \in Nat /\ Len(y) = k + Len(v) /\ \A i \in 1 .. Len(v) : y[k + i] = v[i]
    <3>1. Len(x) \in Nat
      BY DEF Lists
    <3> QED BY <1>6, <3>1, Joined
  <2>2. CASE j = 1
    BY <1>3, <2>2 DEF At
  <2>3. CASE j # 1
    <3>1. e # v[1] /\ j - 1 \in 1 .. Len(v)
      BY <1>1, <2>3
    <3>2. k + j \in 1 .. Len(y) /\ (k + j) - 1 \in 1 .. Len(y) /\ (k + j) - 1 = k + (j - 1)
      BY SMTT(30), <1>1, <2>1, <3>1
    <3>3. y[k + j] = e /\ y[(k + j) - 1] = v[j - 1]
      BY <2>1, <3>1, <3>2
    <3> HIDE DEF y, k, e
    <3>4. IsQueue(a, q, y)
      BY <1>6 DEF y
    <3>5. a.prev[y[k + j]] = At(y, (k + j) - 1)
      BY <3>2, <3>4 DEF IsQueue
    <3> QED BY <1>3, <3>1, <3>2, <3>3, <3>5 DEF At
  <2> QED BY <2>2, <2>3
<1> QED BY <1>3, <1>6, <1>7 DEF w, c

\* What the events in places 1 to n had sent goes before v.
LEMMA FreeSentIs ==
  ASSUME NEW mm \in Mem, NEW v, IsQueue(mm, "free_q", v), NEW n \in 1 .. Len(v),
         caused \in [Event -> Ref],
         \A i \in 1 .. n : caused[v[i]] \notin On(v),
         \A i, j \in 1 .. n : caused[v[i]] = caused[v[j]] /\ caused[v[i]] # Null => i = j
  PROVE  LET r == FreeSent(mm, v[n], v[1])
             sent == {caused[v[i]] : i \in 1 .. n} \ {Null}
         IN  /\ r \in Mem
             /\ \E d \in Lists : /\ On(d) = sent /\ On(d) \cap On(v) = {}
                                 /\ IsQueue(r, "free_q", d \o v)
                                 /\ Elsewhere(mm, r, "free_q", sent \cup On(v))
<1> DEFINE q == "free_q"
           h == v[1]
           t == v[n]
           S == [mm : Mem, at : Ref]
           G == [w \in S |-> FreeNext(w, h)]
           a == [mm |-> mm, at |-> t]
           w == CHOOSE w : w = [i \in 0 .. N |-> IF i = 0 THEN a ELSE FreeNext(w[i - 1], h)]
           Past(i) == {j \in 1 .. n : j > n - i}
           Sent(i) == {caused[v[j]] : j \in Past(i)} \ {Null}
           Good(y, i) ==
             /\ y \in S /\ y.at = IF i < n THEN v[n - i] ELSE Null
             /\ \E d \in Lists : /\ On(d) = Sent(i) /\ On(d) \cap On(v) = {}
                                 /\ IsQueue(y.mm, q, d \o v) /\ Elsewhere(mm, y.mm, q, Sent(i) \cup On(v))
<1>1. /\ v \in Lists /\ v \in Seq(Event) /\ Len(v) \in Nat /\ n \in 1 .. Len(v) /\ n <= N /\ N \in Nat /\ Null \notin Event
      /\ \A i \in 1 .. Len(v) : v[i] \in Event
      /\ \A i, j \in 1 .. Len(v) : v[i] = v[j] => i = j
  <2>1. v \in Lists /\ N \in Nat /\ Null \notin Event
    BY EventQAssumption DEF IsQueue, IsChain, Event
  <2>2. Len(v) \in 0 .. N
    BY <2>1, ListLength
  <2> QED BY <2>1, <2>2 DEF Lists
<1>2. FreeSent(mm, t, h) = w[N].mm
  BY DEF FreeSent
<1>3. a \in S
  BY <1>1 DEF Ref
<1>4. \A y \in S : FreeNext(y, h) \in S
  <2>1. TAKE y \in S
  <2>2. CASE y.at = Null
    BY <2>2 DEF FreeNext
  <2>3. CASE y.at # Null
    <3> DEFINE c == caused[y.at]
               x == IF c = Null THEN y.mm ELSE tw_eventq_unshift(y.mm, "free_q", c)
    <3>1. y.at \in Event /\ y.mm \in Mem /\ c \in Ref /\ "free_q" \in Queue
      BY <2>3 DEF Ref, Queue
    <3>2. x \in Mem
      <4>1. CASE c = Null
        BY <3>1, <4>1
      <4>2. CASE c # Null
        <5>1. c \in Event
          BY <3>1, <4>2 DEF Ref
        <5>2. tw_eventq_unshift(y.mm, "free_q", c) \in Mem
          BY <3>1, <5>1, UnshiftFields
        <5> QED BY <4>2, <5>2
      <4> QED BY <4>1, <4>2
    <3>3. FreeNext(y, h) = [mm |-> x, at |-> IF y.at = h THEN Null ELSE x.prev[y.at]]
      BY <2>3 DEF FreeNext
    <3> HIDE DEF x, c
    <3>4. x.prev[y.at] \in Ref /\ Null \in Ref
      BY <3>1, <3>2 DEF Mem, Ref
    <3> HIDE DEF h
    <3> QED BY <3>2, <3>3, <3>4
  <2> QED BY <2>2, <2>3
<1> HIDE DEF a, h, t
<1>5. w = [i \in 0 .. N |-> IF i = 0 THEN a ELSE FreeNext(w[i - 1], h)]
  <2>1. G \in [S -> S]
    BY <1>4
  <2> HIDE DEF S, G
  <2>2. PICK f : Goes(f, N, S, a, G)
    BY <1>1, <1>3, <2>1, Recursion, Zenon
  <2>3. ASSUME NEW i \in 0 .. N
        PROVE  f[i] = IF i = 0 THEN a ELSE FreeNext(f[i - 1], h)
    <3>1. CASE i = 0
      BY <2>2, <3>1 DEF Goes
    <3>2. CASE i # 0
      <4>1. i \in 1 .. N /\ i - 1 \in 0 .. N
        BY <1>1, <3>2
      <4>2. f[i] = G[f[i - 1]] /\ f[i - 1] \in S
        BY <2>2, <4>1 DEF Goes
      <4> QED BY <3>2, <4>2 DEF G
    <3> QED BY <3>1, <3>2
  <2>4. f = [i \in 0 .. N |-> f[i]]
    BY <2>2 DEF Goes
  <2>5. f = [i \in 0 .. N |-> IF i = 0 THEN a ELSE FreeNext(f[i - 1], h)]
    BY <2>3, <2>4
  <2> QED BY <2>5
<1> HIDE DEF w
<1>6. w[0] = a /\ \A i \in 0 .. N - 1 : w[i + 1] = FreeNext(w[i], h)
  <2>1. w[0] = a
    BY <1>1, <1>5
  <2>2. ASSUME NEW i \in 0 .. N - 1 PROVE w[i + 1] = FreeNext(w[i], h)
    <3>1. i + 1 \in 0 .. N /\ i + 1 # 0 /\ (i + 1) - 1 = i
      BY <1>1
    <3> QED BY <1>5, <3>1
  <2> QED BY <2>1, <2>2
<1> DEFINE T == {i \in 0 .. N : Good(w[i], i)}
<1>7. 0 \in T
  <2>1. Sent(0) = {} /\ n - 0 = n /\ 0 < n
    BY <1>1
  <2>2. <<>> \in Lists /\ On(<<>>) = {} /\ <<>> \o v = v
    BY <1>1 DEF Lists, On
  <2>3. a.mm = mm /\ a.at = v[n]
    BY DEF a, t
  <2>4. Elsewhere(mm, mm, q, Sent(0) \cup On(v))
    BY DEF Elsewhere
  <2>5. IsQueue(mm, q, v)
    OBVIOUS
  <2> HIDE DEF Sent, Past, S, q
  <2>6. Good(a, 0)
    BY <1>3, <2>1, <2>2, <2>3, <2>4, <2>5
  <2> HIDE DEF Good
  <2> QED BY <1>1, <1>6, <2>6
<1>8. ASSUME NEW i \in 0 .. N - 1, i \in T
      PROVE  i + 1 \in T
  <2>1. Good(w[i], i) /\ i + 1 \in 0 .. N /\ w[i + 1] = FreeNext(w[i], h)
    <3>1. Good(w[i], i)
      <4> HIDE DEF Good
      <4> QED BY <1>8
    <3>2. i + 1 \in 0 .. N /\ w[i + 1] = FreeNext(w[i], h)
      BY <1>1, <1>6
    <3> HIDE DEF Good
    <3> QED BY <3>1, <3>2
  <2> DEFINE y == w[i]
             z == w[i + 1]
  <2>2. CASE ~(i < n)
    <3>1. y.at = Null
      BY <2>1, <2>2
    <3>2. z = y
      BY <2>1, <3>1 DEF FreeNext
    <3>3. Past(i) = Past(i + 1) /\ ~(i + 1 < n)
      BY <1>1, <2>2
    <3>4. Sent(i) = Sent(i + 1)
      BY <3>3
    <3> HIDE DEF Sent, Past, S, q
    <3>5. Good(z, i + 1)
      BY <2>1, <2>2, <3>2, <3>3, <3>4
    <3> HIDE DEF Good
    <3> QED BY <2>1, <3>5
  <2>3. CASE i < n
    <3> DEFINE j == n - i
               c == caused[v[j]]
    <3>1. j \in 1 .. n /\ j \in 1 .. Len(v)
      BY <1>1, <2>3
    <3>2. y.at = v[j] /\ y \in S
      BY <2>1, <2>3
    <3>3. y = [mm |-> y.mm, at |-> v[j]] /\ y.mm \in Mem
      BY <3>2
    <3>4. PICK d \in Lists : /\ On(d) = Sent(i) /\ On(d) \cap On(v) = {}
                             /\ IsQueue(y.mm, q, d \o v) /\ Elsewhere(mm, y.mm, q, Sent(i) \cup On(v))
      BY <2>1
    <3>5. Past(i + 1) = Past(i) \cup {j} /\ j \notin Past(i)
      BY <1>1, <3>1
    <3>6. Sent(i + 1) = Sent(i) \cup ({c} \ {Null})
      BY <3>5
    <3>7. c \notin On(d) \cup On(v)
      <4>1. c \notin On(v)
        BY <3>1
      <4>2. c \notin Sent(i)
        BY <3>1, <3>5
      <4> QED BY <3>4, <4>1, <4>2
    <3> HIDE DEF Sent, Past, j, y, z
    <3>8. z = FreeNext([mm |-> y.mm, at |-> v[j]], v[1])
      BY <2>1, <3>3 DEF y, z, h
    <3>9. /\ z.mm \in Mem /\ z.at = At(v, j - 1)
          /\ \E x \in Lists : /\ On(x) = On(d) \cup ({caused[v[j]]} \ {Null}) /\ On(x) \cap On(v) = {}
                              /\ IsQueue(z.mm, "free_q", x \o v)
                              /\ Elsewhere(y.mm, z.mm, "free_q", On(x) \cup On(v))
      <4> DEFINE x0 == FreeNext([mm |-> y.mm, at |-> v[j]], v[1])
      <4>1. v \in Lists /\ d \in Lists /\ On(d) \cap On(v) = {} /\ j \in 1 .. Len(v) /\ y.mm \in Mem
        BY <1>1, <3>1, <3>3, <3>4
      <4>2. IsQueue(y.mm, "free_q", d \o v) /\ caused[v[j]] \notin On(d) \cup On(v)
        BY <3>4, <3>7
      <4>3. /\ x0.mm \in Mem /\ x0.at = At(v, j - 1)
            /\ \E x \in Lists : /\ On(x) = On(d) \cup ({caused[v[j]]} \ {Null}) /\ On(x) \cap On(v) = {}
                                /\ IsQueue(x0.mm, "free_q", x \o v)
                                /\ Elsewhere(y.mm, x0.mm, "free_q", On(x) \cup On(v))
        <5> HIDE DEF Ref, Lists, On, IsQueue, Elsewhere, At
        <5> QED BY <4>1, <4>2, FreeNextIs, Zenon
      <4>4. z = x0
        BY <3>8
      <4> HIDE DEF x0
      <4> QED BY <4>3, <4>4
    <3>10. PICK x \in Lists : /\ On(x) = On(d) \cup ({c} \ {Null}) /\ On(x) \cap On(v) = {}
                              /\ IsQueue(z.mm, q, x \o v) /\ Elsewhere(y.mm, z.mm, q, On(x) \cup On(v))
      BY <3>9
    <3>11. On(x) = Sent(i + 1) /\ Sent(i) \subseteq Sent(i + 1)
      BY <3>4, <3>6, <3>10
    <3>12. Elsewhere(mm, z.mm, q, Sent(i + 1) \cup On(v))
      <4>1. Sent(i) \cup On(v) \subseteq Sent(i + 1) \cup On(v) /\ On(x) \cup On(v) \subseteq Sent(i + 1) \cup On(v)
        BY <3>11
      <4> HIDE DEF q
      <4> QED BY <3>4, <3>10, <4>1, ElsewhereTwice
    <3>13. z \in S
      BY <1>4, <2>1, <3>2 DEF y, z
    <3>14. z.at = IF i + 1 < n THEN v[n - (i + 1)] ELSE Null
      <4>1. j - 1 = n - (i + 1) /\ (i + 1 < n <=> j - 1 \in 1 .. Len(v))
        BY <1>1, <3>1 DEF j
      <4> QED BY <3>9, <4>1 DEF At
    <3> HIDE DEF S, q
    <3>15. Good(z, i + 1)
      BY <3>10, <3>11, <3>12, <3>13, <3>14
    <3> HIDE DEF Good
    <3> QED BY <2>1, <3>15 DEF z
  <2> QED BY <2>2, <2>3
<1>9. Good(w[N], N)
  <2> HIDE DEF T, Good
  <2>1. \A i \in 0 .. N : i \in T
    BY <1>1, <1>7, <1>8, UpTo
  <2> QED BY <1>1, <2>1 DEF T
<1>10. Past(N) = 1 .. n
  BY <1>1
<1>11. Sent(N) = {caused[v[i]] : i \in 1 .. n} \ {Null}
  BY <1>10
<1> HIDE DEF Past, Sent
<1> QED BY <1>2, <1>9, <1>11 DEF h, t
-----------------------------------------------------------------------------
\* The places of c and f in the list that joins them.
LEMMA JoinedFront ==
  ASSUME NEW c \in Lists, NEW f \in Lists, c # <<>>, On(c) \cap On(f) = {}
  PROVE  /\ c \o f \in Lists /\ On(c \o f) = On(c) \cup On(f) /\ Len(c) \in 1 .. Len(c \o f)
         /\ (c \o f)[1] = c[1] /\ (c \o f)[Len(c)] = c[Len(c)]
         /\ \A i \in 1 .. Len(c) : (c \o f)[i] = c[i] /\ c[i] \in On(c)
<1>1. c \in Seq(Event) /\ Len(c) \in Nat \ {0} /\ Len(f) \in Nat
  BY EmptySeq DEF Lists
<1>2. /\ c \o f \in Lists /\ Len(c \o f) = Len(c) + Len(f)
      /\ \A i \in 1 .. Len(c) : (c \o f)[i] = c[i]
      /\ On(c \o f) = On(c) \cup On(f)
  BY Joined
<1>3. 1 \in 1 .. Len(c) /\ Len(c) \in 1 .. Len(c) /\ Len(c) \in 1 .. Len(c) + Len(f)
  BY <1>1
<1> QED BY <1>1, <1>2, <1>3 DEF On

\* Tw_eventq_push_list puts the list c before f, and before it what its events
\* had sent.
LEMMA PushListIs ==
  ASSUME NEW mm \in Mem, NEW f, IsQueue(mm, "free_q", f), NEW c, IsSegment(mm, c), On(c) \cap On(f) = {},
         caused \in [Event -> Ref],
         \A e \in On(c) : caused[e] \notin On(c) \cup On(f),
         \A e, g \in On(c) : caused[e] = caused[g] /\ caused[e] # Null => e = g
  PROVE  LET r == tw_eventq_push_list(mm, "free_q", c[1], c[Len(c)], Len(c))
             sent == {caused[e] : e \in On(c)} \ {Null}
         IN  /\ r \in Mem
             /\ \E d \in Lists : /\ On(d) = sent /\ On(d) \cap On(c \o f) = {}
                                 /\ IsQueue(r, "free_q", d \o (c \o f))
                                 /\ Elsewhere(mm, r, "free_q", sent \cup On(c \o f))
<1> DEFINE q == "free_q"
           x == Linked(mm, q, c[1], c[Len(c)], Len(c))
           v == c \o f
           n == Len(c)
           r == tw_eventq_push_list(mm, q, c[1], c[n], n)
           sent == {caused[e] : e \in On(c)} \ {Null}
           places == {caused[v[i]] : i \in 1 .. n} \ {Null}
<1>1. q \in Queue /\ f \in Lists /\ c \in Lists /\ c # <<>>
  BY DEF Queue, IsQueue, IsChain, IsSegment
<1>2. /\ v \in Lists /\ On(v) = On(c) \cup On(f) /\ n \in 1 .. Len(v) /\ v[1] = c[1] /\ v[n] = c[n]
      /\ \A i \in 1 .. n : v[i] = c[i] /\ c[i] \in On(c)
  BY <1>1, JoinedFront
<1>3. r = FreeSent(x, v[n], v[1])
  BY <1>2 DEF tw_eventq_push_list, Linked
<1>4. x \in Mem /\ IsQueue(x, q, v) /\ Elsewhere(mm, x, q, On(v))
  <2>1. x \in Mem /\ IsQueue(x, q, c \o f) /\ Elsewhere(mm, x, q, On(c) \cup On(f))
    <3> HIDE DEF q
    <3> QED BY <1>1, LinkedIs DEF q
  <2> QED BY <1>2, <2>1
<1>5. \A i, j \in 1 .. n : c[i] = c[j] => i = j
  BY <1>1 DEF Lists
<1>6. places = sent
  BY <1>2 DEF On
<1> HIDE DEF x, v, n, r
<1>7. \A i \in 1 .. n : caused[v[i]] \notin On(v)
  BY <1>2
<1>8. \A i, j \in 1 .. n : caused[v[i]] = caused[v[j]] /\ caused[v[i]] # Null => i = j
  BY <1>2, <1>5
<1> HIDE DEF sent, places
<1>9. /\ FreeSent(x, v[n], v[1]) \in Mem
      /\ \E d \in Lists : /\ On(d) = places /\ On(d) \cap On(v) = {}
                          /\ IsQueue(FreeSent(x, v[n], v[1]), "free_q", d \o v)
                          /\ Elsewhere(x, FreeSent(x, v[n], v[1]), "free_q", places \cup On(v))
  BY <1>2, <1>4, <1>7, <1>8, FreeSentIs, Zenon DEF places, q
<1>10. PICK d \in Lists : /\ On(d) = sent /\ On(d) \cap On(v) = {}
                          /\ IsQueue(r, q, d \o v) /\ Elsewhere(x, r, q, sent \cup On(v))
  BY <1>3, <1>6, <1>9
<1>11. Elsewhere(mm, r, q, sent \cup On(v))
  <2>1. On(v) \subseteq sent \cup On(v) /\ sent \cup On(v) \subseteq sent \cup On(v)
    OBVIOUS
  <2> HIDE DEF q
  <2> QED BY <1>4, <1>10, <2>1, ElsewhereTwice
<1> QED BY <1>3, <1>9, <1>10, <1>11 DEF sent, v, n, r

\* The events sent by those of old and kept.
SentBy(old) == {caused[e] : e \in old} \ {Null}

\* The old events of p, from place k on, and what they had sent are on free_q.
Collected(r, f, v, p, k, sent) ==
  /\ r \in Mem /\ IsQueue(r, "pevent_q", SubSeq(p, 1, k - 1)) /\ IsQueue(r, "event_q", v)
  /\ \E d \in Lists : LET c == SubSeq(p, k, Len(p))
                      IN  /\ On(d) = sent /\ On(d) \cap On(c \o f) = {}
                          /\ IsQueue(r, "free_q", d \o (c \o f))

\* Fossil collection leaves the newer events of p, from whose place k on they are
\* old, and puts the old ones on free_q, before them what they had sent.
LEMMA FossilIs ==
  ASSUME NEW mm \in Mem, NEW f, IsQueue(mm, "free_q", f), NEW v, IsQueue(mm, "event_q", v),
         NEW p, IsQueue(mm, "pevent_q", p), NEW k \in 1 .. Len(p),
         NEW old, old = OldFrom(p, k), NEW sent, sent = SentBy(old),
         On(f) \cap On(p) = {}, On(v) \cap (On(f) \cup On(p) \cup sent) = {},
         caused \in [Event -> Ref],
         \A e \in old : caused[e] \notin On(p) \cup On(f),
         \A e, g \in old : caused[e] = caused[g] /\ caused[e] # Null => e = g
  PROVE  Collected(tw_eventq_fossil_collect(mm, "pevent_q", old), f, v, p, k, sent)
<1>0. /\ SubSeq(p, k, Len(p)) \in Lists /\ Len(SubSeq(p, k, Len(p))) = Len(p) - k + 1
      /\ \A i \in 1 .. Len(p) - k + 1 : SubSeq(p, k, Len(p))[i] = p[k + i - 1]
      /\ On(SubSeq(p, k, Len(p))) = OldFrom(p, k)
  <2>1. p \in Lists /\ k \in 1 .. Len(p) + 1 /\ Len(p) \in k - 1 .. Len(p)
    BY DEF IsQueue, IsChain, Lists
  <2> QED BY <2>1, Part DEF OldFrom
<1> SUFFICES ASSUME NEW c, c = SubSeq(p, k, Len(p)), old = {p[i] : i \in k .. Len(p)},
                    sent = {caused[e] : e \in old} \ {Null}
             PROVE  LET r == tw_eventq_fossil_collect(mm, "pevent_q", old)
                    IN  /\ r \in Mem /\ IsQueue(r, "pevent_q", SubSeq(p, 1, k - 1)) /\ IsQueue(r, "event_q", v)
                        /\ \E d \in Lists : /\ On(d) = sent /\ On(d) \cap On(c \o f) = {}
                                            /\ IsQueue(r, "free_q", d \o (c \o f))
  BY DEF OldFrom, SentBy, Collected
<1> DEFINE q == "pevent_q"
           n == Len(p)
           u == SubSeq(p, 1, k - 1)
           t == p[n]
           r == tw_eventq_fossil_collect(mm, q, old)
<1>1. /\ p \in Lists /\ p \in Seq(Event) /\ n \in Nat /\ Null \notin Event
      /\ \A i \in 1 .. n : p[i] \in Event /\ p[i] \in On(p) /\ p[i] # Null
      /\ \A i, j \in 1 .. n : p[i] = p[j] => i = j
      /\ mm.head[q] = At(p, 1) /\ mm.tail[q] = At(p, n) /\ mm.size[q] = n
      /\ \A i \in 1 .. n : mm.next[p[i]] = At(p, i + 1) /\ mm.prev[p[i]] = At(p, i - 1)
  <2>1. q \in Queue
    BY DEF Queue
  <2> QED BY <2>1, QueueParts
<1>2. k \in 1 .. n /\ n \in 1 .. n /\ 1 \in 1 .. n /\ mm.tail[q] = t /\ mm.head[q] = p[1] /\ t \in old /\ t # Null
  BY <1>1 DEF At
<1>3. /\ c \in Lists /\ Len(c) = n - k + 1 /\ On(c) = old /\ c # <<>>
      /\ \A i \in 1 .. n - k + 1 : c[i] = p[k + i - 1]
  <2>1. n - k + 1 # 0
    BY <1>1
  <2> QED BY <1>0, <2>1
<1>4. Len(c) \in 1 .. n - k + 1 /\ 1 \in 1 .. n - k + 1 /\ c[1] = p[k] /\ c[Len(c)] = t
  <2>1. 1 \in 1 .. n - k + 1 /\ n - k + 1 \in 1 .. n - k + 1 /\ k + 1 - 1 = k /\ k + (n - k + 1) - 1 = n
    BY <1>1
  <2> QED BY <1>3, <2>1
<1>5. /\ \A i \in 1 .. Len(c) - 1 : mm.next[c[i]] = c[i + 1] /\ c[i] \in {p[j] : j \in k .. n - 1}
      /\ \A i \in 2 .. Len(c) : mm.prev[c[i]] = c[i - 1]
  <2>1. ASSUME NEW i \in 1 .. Len(c) - 1 PROVE mm.next[c[i]] = c[i + 1] /\ c[i] \in {p[j] : j \in k .. n - 1}
    <3> DEFINE j == k + i - 1
    <3>1. i \in 1 .. n - k + 1 /\ i + 1 \in 1 .. n - k + 1 /\ k + (i + 1) - 1 = j + 1 /\ j \in 1 .. n /\ j + 1 \in 1 .. n /\ j \in k .. n - 1
      BY <1>1, <1>3
    <3>2. c[i] = p[j] /\ c[i + 1] = p[j + 1]
      BY <1>3, <3>1
    <3>3. mm.next[p[j]] = p[j + 1]
      BY <1>1, <3>1 DEF At
    <3> QED BY <3>1, <3>2, <3>3
  <2>2. ASSUME NEW i \in 2 .. Len(c) PROVE mm.prev[c[i]] = c[i - 1]
    <3> DEFINE j == k + i - 1
    <3>1. i \in 1 .. n - k + 1 /\ i - 1 \in 1 .. n - k + 1 /\ k + (i - 1) - 1 = j - 1 /\ j \in 1 .. n /\ j - 1 \in 1 .. n
      BY <1>1, <1>3
    <3>2. c[i] = p[j] /\ c[i - 1] = p[j - 1]
      BY <1>3, <3>1
    <3>3. mm.prev[p[j]] = p[j - 1]
      BY <1>1, <3>1 DEF At
    <3> QED BY <3>2, <3>3
  <2> QED BY <2>1, <2>2
<1>6. old \subseteq On(p) /\ \A i \in 1 .. k - 1 : p[i] \notin old
  <2>1. \A i \in k .. n : i \in 1 .. n /\ ~(i <= k - 1)
    BY <1>1, <1>2
  <2>2. \A i \in 1 .. k - 1 : i \in 1 .. n /\ i <= k - 1
    BY <1>1, <1>2
  <2>3. old \subseteq On(p)
    BY <2>1 DEF On
  <2>4. \A i \in 1 .. k - 1, j \in k .. n : p[i] # p[j]
    BY <1>1, <2>1, <2>2
  <2> QED BY <2>3, <2>4
<1>7. On(c) \cap On(f) = {}
  BY <1>3, <1>6
<1>8. f \in Lists
  BY DEF IsQueue, IsChain
<1>9. On(c \o f) = old \cup On(f)
  BY <1>3, <1>7, <1>8, Joined
<1>10. On(v) \cap (sent \cup On(c \o f)) = {}
  BY <1>6, <1>9
<1>11. "event_q" \in Queue \ {"free_q"} /\ "event_q" \in Queue \ {q} /\ "free_q" \in Queue \ {q} /\ q \in Queue \ {"free_q"} /\ q \in Queue
  BY DEF Queue
<1>12. ASSUME NEW x \in Mem, IsQueue(x, "free_q", f), IsSegment(x, c)
       PROVE  LET y == tw_eventq_push_list(x, "free_q", c[1], c[Len(c)], Len(c))
              IN  /\ y \in Mem
                  /\ \E d \in Lists : /\ On(d) = sent /\ On(d) \cap On(c \o f) = {}
                                      /\ IsQueue(y, "free_q", d \o (c \o f))
                                      /\ Elsewhere(x, y, "free_q", sent \cup On(c \o f))
  <2>1. \A e \in On(c) : caused[e] \notin On(c) \cup On(f)
    BY <1>3, <1>6
  <2>2. \A e, g \in On(c) : caused[e] = caused[g] /\ caused[e] # Null => e = g
    BY <1>3
  <2>3. sent = {caused[e] : e \in On(c)} \ {Null}
    BY <1>3
  <2> DEFINE y == tw_eventq_push_list(x, "free_q", c[1], c[Len(c)], Len(c))
             all == {caused[e] : e \in On(c)} \ {Null}
  <2>4. /\ y \in Mem
        /\ \E d \in Lists : /\ On(d) = all /\ On(d) \cap On(c \o f) = {}
                            /\ IsQueue(y, "free_q", d \o (c \o f))
                            /\ Elsewhere(x, y, "free_q", all \cup On(c \o f))
    BY <1>7, <1>12, <2>1, <2>2, PushListIs, Zenon
  <2> HIDE DEF y, all
  <2> QED BY <2>3, <2>4 DEF y, all
<1>13. CASE k = 1
  <2>1. c = p /\ u = <<>>
    <3>1. SubSeq(p, 1, n) = p
      BY <1>1, SubSeqFull
    <3>2. SubSeq(p, 1, 0) = <<>>
      BY SubSeqEmpty
    <3> QED BY <1>13, <3>1, <3>2
  <2> DEFINE y == tw_eventq_push_list(mm, "free_q", c[1], c[Len(c)], Len(c))
  <2>2. IsSegment(mm, c)
    BY <1>3, <1>5 DEF IsSegment
  <2>3. r = tw_eventq_pop_list(y, q)
    <3>1. p[1] \in old /\ mm.size[q] = Len(c) /\ c[1] = p[1] /\ c[Len(c)] = t
      BY <1>1, <1>2, <1>4, <1>13, <2>1
    <3> HIDE DEF y
    <3>2. r = tw_eventq_pop_list(tw_eventq_push_list(mm, "free_q", p[1], t, mm.size[q]), q)
      BY <1>2, <3>1 DEF tw_eventq_fossil_collect
    <3> QED BY <3>1, <3>2 DEF y
  <2>4. y \in Mem /\ \E d \in Lists : /\ On(d) = sent /\ On(d) \cap On(c \o f) = {}
                                      /\ IsQueue(y, "free_q", d \o (c \o f))
                                      /\ Elsewhere(mm, y, "free_q", sent \cup On(c \o f))
    BY <1>12, <2>2
  <2> HIDE DEF y, u, q
  <2>5. r \in Mem /\ IsQueue(r, q, <<>>) /\ Elsewhere(y, r, q, {})
    BY <1>11, <2>3, <2>4, PopListIs
  <2>6. PICK d \in Lists : /\ On(d) = sent /\ On(d) \cap On(c \o f) = {}
                           /\ IsQueue(y, "free_q", d \o (c \o f))
                           /\ Elsewhere(mm, y, "free_q", sent \cup On(c \o f))
    BY <2>4
  <2>7. IsQueue(r, "free_q", d \o (c \o f))
    <3>1. On(d \o (c \o f)) \cap {} = {}
      OBVIOUS
    <3> QED BY <1>11, <2>5, <2>6, <3>1, QueueFrame
  <2>8. IsQueue(y, "event_q", v)
    BY ZenonT(40), <1>10, <1>11, <2>6, QueueFrame
  <2>9. IsQueue(r, "event_q", v)
    <3>1. On(v) \cap {} = {}
      OBVIOUS
    <3> QED BY <1>11, <2>5, <2>8, <3>1, QueueFrame
  <2> QED BY <2>1, <2>5, <2>6, <2>7, <2>9 DEF u, q
<1>14. CASE k # 1
  <2> DEFINE o == Overshoot(mm, t, old)
             cut == [mm EXCEPT !.tail[q] = o.n, !.next[o.n] = Null, !.size[q] = mm.size[q] - o.cnt]
  <2>1. k \in 2 .. n /\ k - 1 \in 1 .. n
    BY <1>1, <1>2, <1>14
  <2>2. o = [n |-> p[k - 1], cnt |-> n - k + 1]
    <3> HIDE DEF q
    <3>1. q \in Queue /\ IsQueue(mm, q, p)
      BY <1>11 DEF q
    <3>2. Found(Overshoot(mm, p[Len(p)], old), p, k)
      <4>1. k \in 2 .. Len(p) /\ old = OldFrom(p, k)
        BY <2>1 DEF OldFrom
      <4> HIDE DEF n, t
      <4> QED BY <3>1, <4>1, OvershootIs, Zenon
    <3> QED BY <3>2 DEF Found
  <2>3. o.n = p[k - 1] /\ o.cnt = n - k + 1 /\ n - (n - k + 1) = k - 1 /\ k - 1 \in Nat
    BY <1>1, <2>1, <2>2
  <2>4. p[k - 1] \in Event /\ p[k - 1] \notin old /\ p[k - 1] \in On(p) /\ p[1] \notin old
    <3>1. k - 1 \in 1 .. k - 1 /\ 1 \in 1 .. k - 1
      BY <2>1
    <3> QED BY <1>1, <1>6, <2>1, <3>1
  <2>5. r = tw_eventq_push_list(cut, "free_q", mm.next[p[k - 1]], t, n - k + 1)
    <3> HIDE DEF o, t
    <3>1. r = tw_eventq_push_list([mm EXCEPT !.tail[q] = o.n, !.next[o.n] = Null, !.size[q] = mm.size[q] - o.cnt],
                                  "free_q", mm.next[o.n], t, o.cnt)
      BY <1>2, <2>4 DEF tw_eventq_fossil_collect, o
    <3> QED BY <2>3, <3>1
  <2>6. mm.next[p[k - 1]] = c[1] /\ c[Len(c)] = t /\ n - k + 1 = Len(c)
    <3>1. mm.next[p[k - 1]] = At(p, (k - 1) + 1) /\ (k - 1) + 1 = k
      BY <1>1, <2>1
    <3> QED BY <1>2, <1>3, <1>4, <3>1 DEF At
  <2>7. cut = [mm EXCEPT !.tail[q] = p[k - 1], !.next[p[k - 1]] = Null, !.size[q] = k - 1]
    <3> HIDE DEF o
    <3> QED BY <1>1, <2>3
  <2> HIDE DEF o, cut
  <2>8. /\ cut \in Mem /\ cut.prev = mm.prev /\ cut.head = mm.head
        /\ cut.next = Put(mm.next, p[k - 1], Null) /\ cut.tail = Put(mm.tail, q, p[k - 1]) /\ cut.size = Put(mm.size, q, k - 1)
    BY <1>11, <2>3, <2>4, <2>7 DEF Mem, Put, Ref
  <2>9. /\ \A e \in Event : cut.next[e] = IF e = p[k - 1] THEN Null ELSE mm.next[e]
        /\ \A j \in Queue : cut.tail[j] = (IF j = q THEN p[k - 1] ELSE mm.tail[j]) /\ cut.size[j] = IF j = q THEN k - 1 ELSE mm.size[j]
    BY <2>8 DEF Mem, Put
  <2>10. Elsewhere(mm, cut, q, {p[k - 1]})
    BY <2>8, <2>9 DEF Elsewhere
  <2>11. /\ u \in Lists /\ Len(u) = k - 1 /\ (\A i \in 1 .. k - 1 : u[i] = p[i]) /\ On(u) = {p[i] : i \in 1 .. k - 1}
    <3>1. 1 \in 1 .. Len(p) + 1 /\ k - 1 \in 1 - 1 .. Len(p)
      BY <1>1, <2>1
    <3>2. /\ u \in Lists /\ Len(u) = k - 1 - 1 + 1
          /\ (\A i \in 1 .. k - 1 - 1 + 1 : u[i] = p[1 + i - 1]) /\ On(u) = {p[i] : i \in 1 .. k - 1}
      BY <1>1, <3>1, Part
    <3>3. k - 1 - 1 + 1 = k - 1 /\ \A i \in 1 .. k - 1 : 1 + i - 1 = i
      BY <1>1, <2>1
    <3> HIDE DEF u
    <3> QED BY <3>2, <3>3
  <2> HIDE DEF u
  <2>12. IsQueue(cut, q, u)
    <3>1. cut.head[q] = At(u, 1)
      BY <1>1, <1>2, <2>1, <2>8, <2>11 DEF At
    <3>2. cut.tail[q] = At(u, Len(u)) /\ cut.size[q] = Len(u)
      BY <1>11, <2>1, <2>9, <2>11 DEF At
    <3>3. ASSUME NEW i \in 1 .. Len(u) PROVE cut.next[u[i]] = At(u, i + 1) /\ cut.prev[u[i]] = At(u, i - 1)
      <4>1. i \in 1 .. n /\ i \in 1 .. k - 1 /\ u[i] = p[i] /\ p[i] \in Event
        BY <1>1, <2>1, <2>11
      <4>2. p[i] = p[k - 1] <=> i = k - 1
        BY <1>1, <2>1, <4>1
      <4>3. mm.next[p[i]] = At(p, i + 1) /\ mm.prev[p[i]] = At(p, i - 1)
        BY <1>1, <4>1
      <4>4. At(u, i + 1) = IF i = k - 1 THEN Null ELSE At(p, i + 1)
        <5>1. CASE i = k - 1
          BY <1>1, <2>1, <2>11, <5>1 DEF At
        <5>2. CASE i # k - 1
          <6>1. i + 1 \in 1 .. k - 1 /\ i + 1 \in 1 .. n
            BY <1>1, <2>1, <4>1, <5>2
          <6> QED BY <2>11, <5>2, <6>1 DEF At
        <5> QED BY <5>1, <5>2
      <4>5. At(u, i - 1) = At(p, i - 1)
        <5>1. CASE i = 1
          BY <5>1 DEF At
        <5>2. CASE i # 1
          <6>1. i - 1 \in 1 .. k - 1 /\ i - 1 \in 1 .. n
            BY <1>1, <2>1, <4>1, <5>2
          <6> QED BY <2>11, <6>1 DEF At
        <5> QED BY <5>1, <5>2
      <4>6. cut.next[p[i]] = (IF p[i] = p[k - 1] THEN Null ELSE mm.next[p[i]]) /\ cut.prev[p[i]] = mm.prev[p[i]]
        BY <2>8, <2>9, <4>1
      <4> QED BY <4>1, <4>2, <4>3, <4>4, <4>5, <4>6
    <3> QED BY <2>11, <3>1, <3>2, <3>3 DEF IsQueue, IsChain
  <2>13. IsSegment(cut, c)
    <3>0. \A j \in k .. n - 1 : j \in 1 .. n /\ j # k - 1
      BY <1>1, <2>1
    <3>1. \A i \in 1 .. Len(c) - 1 : c[i] \in Event /\ c[i] # p[k - 1]
      BY SMTT(30), <1>1, <1>5, <2>1, <3>0
    <3> QED BY ZenonT(40), <1>3, <1>5, <2>8, <2>9, <3>1 DEF IsSegment
  <2>14. IsQueue(cut, "free_q", f) /\ IsQueue(cut, "event_q", v)
    <3>1. On(f) \cap {p[k - 1]} = {} /\ On(v) \cap {p[k - 1]} = {}
      BY ZenonT(40), <2>4
    <3> HIDE DEF q
    <3> QED BY <1>11, <2>10, <3>1, QueueFrame
  <2>14a. /\ r \in Mem
          /\ \E d \in Lists : /\ On(d) = sent /\ On(d) \cap On(c \o f) = {}
                              /\ IsQueue(r, "free_q", d \o (c \o f))
                              /\ Elsewhere(cut, r, "free_q", sent \cup On(c \o f))
    <3> HIDE DEF r
    <3> QED BY <1>12, <2>5, <2>6, <2>8, <2>13, <2>14
  <2>15. PICK d \in Lists : /\ On(d) = sent /\ On(d) \cap On(c \o f) = {}
                            /\ IsQueue(r, "free_q", d \o (c \o f))
                            /\ Elsewhere(cut, r, "free_q", sent \cup On(c \o f))
    BY <2>14a
  <2>16. r \in Mem
    BY <2>14a
  <2> HIDE DEF r
  <2>17. IsQueue(r, "event_q", v)
    BY ZenonT(40), <1>10, <1>11, <2>14, <2>15, QueueFrame
  <2>18. IsQueue(r, q, u)
    <3>1. On(u) \cap (sent \cup On(c \o f)) = {}
      <4>1. On(u) \subseteq On(p) /\ On(u) \cap old = {}
        <5>1. \A i \in 1 .. k - 1 : i \in 1 .. n
          BY <1>1, <2>1
        <5>2. \A i \in 1 .. k - 1 : p[i] \in On(p) /\ p[i] \notin old
          BY <1>1, <1>6, <5>1
        <5> QED BY <2>11, <5>2
      <4>2. sent \cap On(p) = {}
        OBVIOUS
      <4> QED BY <1>9, <4>1, <4>2
    <3> HIDE DEF q
    <3> QED BY ZenonT(40), <1>11, <2>12, <2>15, <3>1, QueueFrame
  <2> QED BY <2>15, <2>16, <2>17, <2>18 DEF r, u
<1> QED BY <1>13, <1>14
-----------------------------------------------------------------------------
\* Where state.owner says an event is.
Place == {"abort", "free_q", "event_q", "pevent_q", "pq", "sevent_q", "anti"}

\* The memory mm holds the lists f, v and p in the three queues, and w from the
\* event nx on.
Holds(mm, nx, f, v, p, w) ==
  /\ mm \in Mem
  /\ IsQueue(mm, "free_q", f) /\ IsQueue(mm, "event_q", v) /\ IsQueue(mm, "pevent_q", p)
  /\ IsChain(mm, nx, w)

\* The owners own and the sets F, V, P and W of events on these lists agree.
Owns(own, F, V, P, W) ==
  /\ own \in [Event -> Place] /\ F \cup V \cup P \cup W \subseteq Event
  /\ V \cap W = {}
  /\ \A e \in Event : /\ own[e] = "free_q" <=> e \in F
                      /\ own[e] = "event_q" <=> e \in V \cup W
                      /\ own[e] = "pevent_q" <=> e \in P

\* Only processed events have a sent event kept, which is on no list and which
\* no other event has sent.
Causes(own, cau) ==
  /\ cau \in [Event -> Ref]
  /\ \A e \in Event : cau[e] # Null => own[e] = "pevent_q" /\ own[cau[e]] = "sevent_q"
  /\ \A e, g \in Event : cau[e] = cau[g] /\ cau[e] # Null => e = g

\* All of it.
Good(mm, own, cau, nx, f, v, p, w) ==
  /\ Holds(mm, nx, f, v, p, w)
  /\ Owns(own, On(f), On(v), On(p), On(w)) /\ Causes(own, cau)

\* The inductive invariant of the lists.
ListInv == \E f, v, p, w \in Lists : Good(m, owner, caused, nev, f, v, p, w)

\* Events of different owners are on different lists.
LEMMA Apart ==
  ASSUME NEW own, NEW F, NEW V, NEW P, NEW W, Owns(own, F, V, P, W)
  PROVE  /\ F \cap V = {} /\ F \cap P = {} /\ F \cap W = {}
         /\ V \cap P = {} /\ V \cap W = {} /\ P \cap W = {}
BY DEF Owns

\* The lists are what the pointers give.
LEMMA ChainsAre ==
  ASSUME NEW mm, NEW nx, NEW f, NEW v, NEW p, NEW w, Holds(mm, nx, f, v, p, w)
  PROVE  /\ From(mm, mm.head["free_q"]) = f /\ From(mm, mm.head["event_q"]) = v
         /\ From(mm, mm.head["pevent_q"]) = p /\ From(mm, nx) = w
<1>1. /\ mm \in Mem /\ IsChain(mm, mm.head["free_q"], f) /\ IsChain(mm, mm.head["event_q"], v)
      /\ IsChain(mm, mm.head["pevent_q"], p) /\ IsChain(mm, nx, w)
  BY DEF Holds, IsQueue
<1> QED BY <1>1, FromIs, Zenon

\* A queue is on the list it holds, and a walk that is over has no list.
LEMMA HeldLists ==
  ASSUME NEW mm, NEW nx, NEW f, NEW v, NEW p, NEW w, Holds(mm, nx, f, v, p, w)
  PROVE  /\ f \in Lists /\ v \in Lists /\ p \in Lists /\ w \in Lists /\ mm \in Mem
         /\ nx = Null => w = <<>>
<1>1. f \in Lists /\ v \in Lists /\ p \in Lists /\ w \in Lists /\ mm \in Mem /\ nx = At(w, 1)
  BY DEF Holds, IsQueue, IsChain
<1>2. ASSUME nx = Null PROVE w = <<>>
  <2>1. w \in Seq(Event) /\ Len(w) \in Nat /\ Null \notin Event
    BY <1>1, EventQAssumption DEF Lists, Event
  <2>2. ~(1 \in 1 .. Len(w))
    <3>1. 1 \in 1 .. Len(w) => w[1] \in Event
      BY <2>1
    <3> QED BY <1>1, <1>2, <2>1, <3>1 DEF At
  <2> QED BY <2>1, <2>2
<1> QED BY <1>1, <1>2

\* Empty lists.
LEMMA Empty ==
  /\ <<>> \in Lists /\ On(<<>>) = {} /\ Len(<<>>) = 0
  /\ \A mm : IsChain(mm, Null, <<>>)
  /\ \A mm, q : mm.head[q] = Null /\ mm.tail[q] = Null /\ mm.size[q] = 0 => IsQueue(mm, q, <<>>)
<1>1. <<>> \in Lists /\ On(<<>>) = {} /\ Len(<<>>) = 0
  BY DEF Lists, On
<1>2. \A i : At(<<>>, i) = Null
  BY <1>1 DEF At
<1>3. \A mm : IsChain(mm, Null, <<>>)
  BY <1>1, <1>2 DEF IsChain
<1>4. ASSUME NEW mm, NEW q, mm.head[q] = Null, mm.tail[q] = Null, mm.size[q] = 0
      PROVE  IsQueue(mm, q, <<>>)
  BY <1>1, <1>2, <1>3, <1>4 DEF IsQueue
<1> QED BY <1>1, <1>3, <1>4

\* tw_eventq_alloc puts every buffer but the first on free_q.
LEMMA AllocIs ==
  ASSUME tw_eventq_alloc
  PROVE  Good(m, owner, caused, nev, [i \in 1 .. N - 1 |-> i + 1], <<>>, <<>>, <<>>)
<1> DEFINE f == [i \in 1 .. N - 1 |-> i + 1]
<1>1. N \in Nat /\ N >= 2 /\ N - 1 \in Nat /\ Null \notin Event
  BY EventQAssumption DEF Event
<1>2. \A i \in 1 .. N - 1 : i + 1 \in Event /\ i + 1 # 1
  BY <1>1 DEF Event
<1>3. f \in Seq(Event) /\ Len(f) = N - 1 /\ \A i \in 1 .. N - 1 : f[i] = i + 1
  BY <1>1, <1>2, IsASeq
<1> HIDE DEF f
<1>4. f \in Lists
  BY <1>1, <1>3 DEF Lists
<1>5. On(f) = Event \ {1}
  <2>1. ASSUME NEW e \in Event \ {1} PROVE e \in On(f)
    <3>1. e - 1 \in 1 .. N - 1 /\ (e - 1) + 1 = e
      BY <1>1 DEF Event
    <3> QED BY <1>3, <3>1 DEF On
  <2>2. ASSUME NEW e \in On(f) PROVE e \in Event \ {1}
    BY <1>2, <1>3 DEF On
  <2> QED BY <2>1, <2>2
<1>6. m \in Mem
  <2>1. /\ [e \in Event |-> IF e \in {1, N} THEN Null ELSE e + 1] \in [Event -> Ref]
        /\ [e \in Event |-> IF e <= 2 THEN Null ELSE e - 1] \in [Event -> Ref]
    BY <1>1 DEF Ref, Event
  <2>2. 2 \in Ref /\ N \in Ref /\ Null \in Ref
    BY <1>1 DEF Ref, Event
  <2> QED BY <1>1, <2>1, <2>2 DEF tw_eventq_alloc, Mem
<1>7. /\ \A e \in Event : /\ m.next[e] = IF e \in {1, N} THEN Null ELSE e + 1
                          /\ m.prev[e] = IF e <= 2 THEN Null ELSE e - 1
      /\ m.head["free_q"] = 2 /\ m.tail["free_q"] = N /\ m.size["free_q"] = N - 1
      /\ \A q \in {"event_q", "pevent_q"} : m.head[q] = Null /\ m.tail[q] = Null /\ m.size[q] = 0
  BY DEF tw_eventq_alloc, Queue
<1>8. IsQueue(m, "free_q", f)
  <2>1. m.head["free_q"] = At(f, 1) /\ m.tail["free_q"] = At(f, Len(f)) /\ m.size["free_q"] = Len(f)
    BY <1>1, <1>3, <1>7 DEF At
  <2>2. ASSUME NEW i \in 1 .. Len(f) PROVE m.next[f[i]] = At(f, i + 1) /\ m.prev[f[i]] = At(f, i - 1)
    <3>1. f[i] = i + 1 /\ i + 1 \in Event /\ i + 1 # 1 /\ i \in 1 .. N - 1
      BY <1>2, <1>3
    <3>2. At(f, i + 1) = IF i + 1 = N THEN Null ELSE (i + 1) + 1
      BY <1>1, <1>3, <3>1 DEF At
    <3>3. At(f, i - 1) = IF i + 1 <= 2 THEN Null ELSE (i + 1) - 1
      BY <1>1, <1>3, <3>1 DEF At
    <3> QED BY <1>7, <3>1, <3>2, <3>3
  <2> QED BY <1>4, <2>1, <2>2 DEF IsQueue, IsChain
<1>9. Holds(m, nev, f, <<>>, <<>>, <<>>)
  <2>1. nev = Null
    BY DEF tw_eventq_alloc
  <2>2. IsQueue(m, "event_q", <<>>) /\ IsQueue(m, "pevent_q", <<>>)
    BY <1>7, Empty
  <2> QED BY <1>6, <1>8, <2>1, <2>2, Empty DEF Holds
<1>10. Owns(owner, On(f), {}, {}, {})
  <2>1. owner = [e \in Event |-> IF e = 1 THEN "abort" ELSE "free_q"]
    BY DEF tw_eventq_alloc
  <2> QED BY <1>5, <2>1 DEF Owns, Place
<1>11. Causes(owner, caused)
  <2>1. caused = [e \in Event |-> Null]
    BY DEF tw_eventq_alloc
  <2> QED BY <2>1 DEF Causes, Ref
<1>12. Good(m, owner, caused, nev, f, <<>>, <<>>, <<>>)
  BY <1>9, <1>10, <1>11, Empty DEF Good
<1> QED BY <1>12 DEF f
-----------------------------------------------------------------------------
\* What each action does to the lists.

\* A received event takes the buffer at the tail of free_q.
LEMMA ReceiveIs ==
  ASSUME NEW f, NEW v, NEW p, NEW w, Good(m, owner, caused, nev, f, v, p, w), Receive
  PROVE  f # <<>> /\ Good(m', owner', caused', nev', Front(f), Append(v, f[Len(f)]), p, w)
<1> DEFINE e == f[Len(f)]
           x == tw_eventq_pop(m, "free_q")
<1>1. /\ Holds(m, nev, f, v, p, w) /\ Owns(owner, On(f), On(v), On(p), On(w)) /\ Causes(owner, caused)
      /\ f \in Lists /\ v \in Lists /\ p \in Lists /\ m \in Mem
      /\ IsQueue(m, "free_q", f) /\ IsQueue(m, "event_q", v) /\ IsQueue(m, "pevent_q", p) /\ IsChain(m, nev, w)
  BY HeldLists DEF Good, Holds
<1>2. "free_q" \in Queue /\ "event_q" \in Queue /\ "event_q" \in Queue \ {"free_q"}
      /\ "pevent_q" \in Queue \ {"free_q"} /\ "pevent_q" \in Queue \ {"event_q"} /\ "free_q" \in Queue \ {"event_q"}
  BY DEF Queue
<1>3. /\ On(f) \cap On(v) = {} /\ On(f) \cap On(p) = {} /\ On(f) \cap On(w) = {}
      /\ On(v) \cap On(p) = {} /\ On(v) \cap On(w) = {} /\ On(p) \cap On(w) = {}
  BY <1>1, Apart
<1>4. /\ x \in Mem /\ IsQueue(x, "free_q", Front(f)) /\ Elsewhere(m, x, "free_q", On(f))
      /\ f # <<>> /\ m.tail["free_q"] = e
  <2>1. m.tail["free_q"] # Null
    BY DEF Receive
  <2> QED BY <1>1, <1>2, <2>1, PopIs
<1>5. /\ Front(f) \in Lists /\ On(Front(f)) = On(f) \ {e} /\ e \in Event /\ e \in On(f)
  <2>1. /\ Front(f) \in Lists /\ Len(f) \in Nat \ {0} /\ On(Front(f)) = On(f) \ {e}
    BY <1>1, <1>4, Lastless
  <2>2. Len(f) \in 1 .. Len(f)
    BY <2>1
  <2>3. f \in Seq(Event)
    BY <1>1 DEF Lists
  <2>4. e \in Event /\ e \in On(f)
    BY <2>2, <2>3 DEF On
  <2> HIDE DEF e
  <2> QED BY <2>1, <2>4
<1>6. /\ m' = tw_eventq_push(x, "event_q", e) /\ nev' = nev
      /\ owner' = [owner EXCEPT ![e] = "event_q"] /\ caused' = [caused EXCEPT ![e] = Null]
  BY <1>4 DEF Receive
<1> HIDE DEF x, e
<1>7. IsQueue(x, "event_q", v) /\ IsQueue(x, "pevent_q", p) /\ IsChain(x, nev, w)
  <2>1. On(v) \cap On(f) = {} /\ On(p) \cap On(f) = {} /\ On(w) \cap On(f) = {}
    BY <1>3
  <2> QED BY <1>1, <1>2, <1>4, <2>1, QueueFrame, ChainFrame
<1>8. e \in Event \ On(v)
  BY <1>3, <1>5
<1>9. /\ m' \in Mem /\ IsQueue(m', "event_q", Append(v, e)) /\ Elsewhere(x, m', "event_q", On(v) \cup {e})
  BY <1>2, <1>4, <1>6, <1>7, <1>8, PushIs
<1>10. IsQueue(m', "free_q", Front(f)) /\ IsQueue(m', "pevent_q", p) /\ IsChain(m', nev', w)
  <2>1. /\ On(Front(f)) \cap (On(v) \cup {e}) = {} /\ On(p) \cap (On(v) \cup {e}) = {}
        /\ On(w) \cap (On(v) \cup {e}) = {}
    BY <1>3, <1>5
  <2>2. IsQueue(m', "free_q", Front(f)) /\ IsQueue(m', "pevent_q", p)
    BY <1>2, <1>4, <1>7, <1>9, <2>1, QueueFrame
  <2>3. IsChain(m', nev, w)
    BY <1>7, <1>9, <2>1, ChainFrame
  <2> QED BY <1>6, <2>2, <2>3
<1>11. Holds(m', nev', Front(f), Append(v, e), p, w)
  BY <1>9, <1>10 DEF Holds
<1>12. On(Append(v, e)) = On(v) \cup {e}
  BY <1>1, <1>8, Appended
<1>13. Owns(owner', On(Front(f)), On(Append(v, e)), On(p), On(w))
  <2>1. Owns(owner', On(f) \ {e}, On(v) \cup {e}, On(p), On(w))
    BY <1>1, <1>3, <1>5, <1>6 DEF Owns, Place
  <2> QED BY <1>5, <1>12, <2>1
<1>14. Causes(owner', caused')
  BY <1>1, <1>5, <1>6 DEF Causes, Owns, Ref
<1> QED BY <1>4, <1>11, <1>13, <1>14 DEF Good, e

\* event_q is emptied, and its list is the one to walk.
LEMMA PopListStep ==
  ASSUME NEW f, NEW v, NEW p, NEW w, Good(m, owner, caused, nev, f, v, p, w), PopList
  PROVE  Good(m', owner', caused', nev', f, <<>>, p, v)
<1>1. /\ Holds(m, nev, f, v, p, w) /\ Owns(owner, On(f), On(v), On(p), On(w)) /\ Causes(owner, caused)
      /\ w = <<>> /\ m \in Mem
      /\ IsQueue(m, "free_q", f) /\ IsQueue(m, "event_q", v) /\ IsQueue(m, "pevent_q", p)
  BY HeldLists DEF Good, Holds, PopList
<1>2. "event_q" \in Queue /\ "pevent_q" \in Queue \ {"event_q"} /\ "free_q" \in Queue \ {"event_q"}
  BY DEF Queue
<1>3. m' = tw_eventq_pop_list(m, "event_q") /\ nev' = m.head["event_q"] /\ owner' = owner /\ caused' = caused
  BY DEF PopList
<1>4. /\ m' \in Mem /\ m'.next = m.next /\ IsQueue(m', "event_q", <<>>) /\ Elsewhere(m, m', "event_q", {})
  BY <1>1, <1>2, <1>3, PopListIs
<1>5. IsQueue(m', "free_q", f) /\ IsQueue(m', "pevent_q", p)
  <2>1. On(f) \cap {} = {} /\ On(p) \cap {} = {}
    OBVIOUS
  <2> QED BY <1>1, <1>2, <1>4, <2>1, QueueFrame
<1>6. IsChain(m', nev', v)
  BY <1>1, <1>3, <1>4 DEF IsQueue, IsChain
<1>7. Holds(m', nev', f, <<>>, p, v)
  BY <1>4, <1>5, <1>6 DEF Holds
<1>8. Owns(owner', On(f), On(<<>>), On(p), On(v))
  BY <1>1, <1>3, Empty DEF Owns
<1> QED BY <1>1, <1>3, <1>7, <1>8 DEF Good

\* The walk goes on with the next event, read before the pending queue gets the
\* one at hand.
LEMMA EnqueueStep ==
  ASSUME NEW f, NEW v, NEW p, NEW w, Good(m, owner, caused, nev, f, v, p, w), EnqueueNext
  PROVE  Good(m', owner', caused', nev', f, v, p, Tail(w))
<1>1. /\ Holds(m, nev, f, v, p, w) /\ Owns(owner, On(f), On(v), On(p), On(w)) /\ Causes(owner, caused)
      /\ f \in Lists /\ v \in Lists /\ p \in Lists /\ w \in Lists /\ m \in Mem
      /\ IsQueue(m, "free_q", f) /\ IsQueue(m, "event_q", v) /\ IsQueue(m, "pevent_q", p) /\ IsChain(m, nev, w)
  BY HeldLists DEF Good, Holds
<1>2. /\ nev # Null /\ nev' = m.next[nev] /\ m' = [m EXCEPT !.next[nev] = Null, !.prev[nev] = Null]
      /\ owner' = [owner EXCEPT ![nev] = "pq"] /\ caused' = caused
  BY DEF EnqueueNext
<1>3. /\ On(f) \cap On(v) = {} /\ On(f) \cap On(p) = {} /\ On(f) \cap On(w) = {}
      /\ On(v) \cap On(p) = {} /\ On(v) \cap On(w) = {} /\ On(p) \cap On(w) = {}
  BY <1>1, Apart
<1>4. w # <<>> /\ nev = w[1] /\ nev \in Event /\ nev \in On(w)
  <2>1. 1 \in 1 .. Len(w) /\ nev = w[1]
    BY <1>1, <1>2 DEF IsChain, At
  <2> QED BY <1>1, <2>1 DEF On, Lists
<1>5. /\ Tail(w) \in Lists /\ Len(w) \in Nat \ {0} /\ Len(Tail(w)) = Len(w) - 1
      /\ (\A i \in 1 .. Len(w) - 1 : Tail(w)[i] = w[i + 1])
      /\ On(Tail(w)) = On(w) \ {nev}
  BY <1>1, <1>4, Headless
<1>6. /\ m' \in Mem /\ m'.next = Put(m.next, nev, Null) /\ m'.prev = Put(m.prev, nev, Null)
      /\ m'.head = m.head /\ m'.tail = m.tail /\ m'.size = m.size
  BY <1>1, <1>2, <1>4 DEF Mem, Put, Ref
<1>7. \A e \in Event : m'.next[e] = (IF e = nev THEN Null ELSE m.next[e]) /\ m'.prev[e] = IF e = nev THEN Null ELSE m.prev[e]
  BY <1>1, <1>6 DEF Mem, Put
<1>8. Elsewhere(m, m', "none", {nev})
  BY <1>6, <1>7 DEF Elsewhere
<1>9. IsQueue(m', "free_q", f) /\ IsQueue(m', "event_q", v) /\ IsQueue(m', "pevent_q", p)
  <2>1. "free_q" \in Queue \ {"none"} /\ "event_q" \in Queue \ {"none"} /\ "pevent_q" \in Queue \ {"none"}
    BY DEF Queue
  <2>2. On(f) \cap {nev} = {} /\ On(v) \cap {nev} = {} /\ On(p) \cap {nev} = {}
    BY <1>3, <1>4
  <2> QED BY <1>1, <1>8, <2>1, <2>2, QueueFrame
<1>10. IsChain(m', nev', Tail(w))
  <2>1. nev' = At(Tail(w), 1)
    <3>1. nev' = At(w, 1 + 1) /\ 1 \in 1 .. Len(w)
      BY <1>1, <1>2, <1>4, <1>5 DEF IsChain
    <3> QED BY <1>5, <3>1 DEF At
  <2>2. ASSUME NEW i \in 1 .. Len(Tail(w)) PROVE m'.next[Tail(w)[i]] = At(Tail(w), i + 1)
    <3>1. i \in 1 .. Len(w) - 1 /\ i + 1 \in 1 .. Len(w) /\ i + 1 # 1 /\ 1 \in 1 .. Len(w)
      BY <1>5
    <3>2. Tail(w)[i] = w[i + 1] /\ w[i + 1] \in Event /\ w[i + 1] # nev
      BY <1>1, <1>4, <1>5, <3>1 DEF Lists
    <3>3. m.next[w[i + 1]] = At(w, (i + 1) + 1)
      BY <1>1, <3>1 DEF IsChain
    <3>4. At(w, (i + 1) + 1) = At(Tail(w), i + 1)
      <4>1. (i + 1) + 1 \in 1 .. Len(w) <=> i + 1 \in 1 .. Len(w) - 1
        BY <1>5, <3>1
      <4> QED BY <1>5, <4>1 DEF At
    <3> QED BY <1>7, <3>2, <3>3, <3>4
  <2> QED BY <1>5, <2>1, <2>2 DEF IsChain
<1>11. Holds(m', nev', f, v, p, Tail(w))
  BY <1>6, <1>9, <1>10 DEF Holds
<1>12. Owns(owner', On(f), On(v), On(p), On(Tail(w)))
  <2>1. Owns(owner', On(f), On(v), On(p), On(w) \ {nev})
    BY <1>1, <1>2, <1>3, <1>4 DEF Owns, Place
  <2> QED BY <1>5, <2>1
<1>13. Causes(owner', caused')
  BY <1>1, <1>2, <1>4 DEF Causes, Owns
<1> QED BY <1>11, <1>12, <1>13 DEF Good

\* A cancelled event goes from its place in event_q to the head of free_q.
LEMMA CancelIs ==
  ASSUME NEW f, NEW v, NEW p, NEW w, Good(m, owner, caused, nev, f, v, p, w),
         NEW e \in Event, Cancel(e)
  PROVE  /\ nev = Null
         /\ \E i \in 1 .. Len(v) : /\ v[i] = e
                                    /\ Good(m', owner', caused', nev', <<e>> \o f, RemoveAt(v, i), p, w)
<1>1. /\ Holds(m, nev, f, v, p, w) /\ Owns(owner, On(f), On(v), On(p), On(w)) /\ Causes(owner, caused)
      /\ f \in Lists /\ v \in Lists /\ p \in Lists /\ w \in Lists /\ m \in Mem
      /\ IsQueue(m, "free_q", f) /\ IsQueue(m, "event_q", v) /\ IsQueue(m, "pevent_q", p) /\ IsChain(m, nev, w)
      /\ nev = Null => w = <<>>
  BY HeldLists DEF Good, Holds
<1>2. /\ "free_q" \in Queue /\ "event_q" \in Queue /\ "pevent_q" \in Queue
      /\ "event_q" \in Queue \ {"free_q"} /\ "pevent_q" \in Queue \ {"free_q"}
      /\ "free_q" \in Queue \ {"event_q"} /\ "pevent_q" \in Queue \ {"event_q"}
      /\ "free_q" \in Queue \ {"pevent_q"} /\ "event_q" \in Queue \ {"pevent_q"}
  BY DEF Queue
<1>3. /\ On(f) \cap On(v) = {} /\ On(f) \cap On(p) = {} /\ On(f) \cap On(w) = {}
      /\ On(v) \cap On(p) = {} /\ On(v) \cap On(w) = {} /\ On(p) \cap On(w) = {}
  BY <1>1, Apart
<1> DEFINE x == tw_eventq_delete_any(m, "event_q", e)
<1>4. /\ nev = Null /\ owner[e] = "event_q" /\ nev' = nev /\ caused' = caused
      /\ m' = tw_eventq_unshift(x, "free_q", e) /\ owner' = [owner EXCEPT ![e] = "free_q"]
  BY DEF Cancel
<1> HIDE DEF x
<1>5. w = <<>> /\ On(w) = {}
  BY <1>1, <1>4, Empty
<1>6. PICK i \in 1 .. Len(v) : v[i] = e
  <2>1. e \in On(v)
    BY <1>1, <1>4, <1>5 DEF Owns
  <2> QED BY <2>1 DEF On
<1>7. /\ x \in Mem /\ IsQueue(x, "event_q", RemoveAt(v, i)) /\ Elsewhere(m, x, "event_q", On(v))
  <2>1. LET r == tw_eventq_delete_any(m, "event_q", v[i])
        IN  r \in Mem /\ IsQueue(r, "event_q", RemoveAt(v, i)) /\ Elsewhere(m, r, "event_q", On(v))
    BY <1>1, <1>2, DeleteIs
  <2> QED BY <1>6, <2>1 DEF x
<1>8. On(RemoveAt(v, i)) = On(v) \ {e} /\ e \in On(v) /\ e \in Event \ On(f)
  <2>1. On(RemoveAt(v, i)) = On(v) \ {v[i]}
    BY <1>1, Removed
  <2>2. e \in On(v)
    BY <1>6 DEF On
  <2> QED BY <1>3, <1>6, <2>1, <2>2
<1>9. IsQueue(x, "free_q", f) /\ IsQueue(x, "pevent_q", p)
  <2>1. On(f) \cap On(v) = {} /\ On(p) \cap On(v) = {}
    BY <1>3
  <2> QED BY <1>1, <1>2, <1>7, <2>1, QueueFrame
<1>10. m' \in Mem /\ IsQueue(m', "free_q", <<e>> \o f) /\ Elsewhere(x, m', "free_q", On(f) \cup {e})
  BY <1>2, <1>4, <1>7, <1>8, <1>9, UnshiftIs
<1>11. IsQueue(m', "event_q", RemoveAt(v, i)) /\ IsQueue(m', "pevent_q", p)
  <2>1. On(RemoveAt(v, i)) \cap (On(f) \cup {e}) = {} /\ On(p) \cap (On(f) \cup {e}) = {}
    BY <1>3, <1>8
  <2> QED BY <1>2, <1>7, <1>9, <1>10, <2>1, QueueFrame
<1>12. IsChain(m', nev', w)
  BY <1>4, <1>5, Empty
<1>13. Holds(m', nev', <<e>> \o f, RemoveAt(v, i), p, w)
  BY <1>10, <1>11, <1>12 DEF Holds
<1>14. On(<<e>> \o f) = On(f) \cup {e}
  BY <1>1, <1>8, Prepended
<1>15. Owns(owner', On(<<e>> \o f), On(RemoveAt(v, i)), On(p), On(w))
  <2>1. Owns(owner', On(f) \cup {e}, On(v) \ {e}, On(p), On(w))
    BY <1>1, <1>3, <1>4, <1>8 DEF Owns, Place
  <2> QED BY <1>8, <1>14, <2>1
<1>16. Causes(owner', caused')
  BY <1>1, <1>4 DEF Causes, Owns
<1> QED BY <1>4, <1>6, <1>13, <1>15, <1>16 DEF Good

\* The buffer of an anti-message that has left goes to the head of free_q.
LEMMA SendFinishIs ==
  ASSUME NEW f, NEW v, NEW p, NEW w, Good(m, owner, caused, nev, f, v, p, w),
         NEW e \in Event, SendFinish(e)
  PROVE  /\ e \notin On(f) \cup On(v) \cup On(p)
         /\ Good(m', owner', caused', nev', <<e>> \o f, v, p, w)
<1>1. /\ Holds(m, nev, f, v, p, w) /\ Owns(owner, On(f), On(v), On(p), On(w)) /\ Causes(owner, caused)
      /\ f \in Lists /\ v \in Lists /\ p \in Lists /\ w \in Lists /\ m \in Mem
      /\ IsQueue(m, "free_q", f) /\ IsQueue(m, "event_q", v) /\ IsQueue(m, "pevent_q", p) /\ IsChain(m, nev, w)
      /\ nev = Null => w = <<>>
  BY HeldLists DEF Good, Holds
<1>2. /\ "free_q" \in Queue /\ "event_q" \in Queue /\ "pevent_q" \in Queue
      /\ "event_q" \in Queue \ {"free_q"} /\ "pevent_q" \in Queue \ {"free_q"}
      /\ "free_q" \in Queue \ {"event_q"} /\ "pevent_q" \in Queue \ {"event_q"}
      /\ "free_q" \in Queue \ {"pevent_q"} /\ "event_q" \in Queue \ {"pevent_q"}
  BY DEF Queue
<1>3. /\ On(f) \cap On(v) = {} /\ On(f) \cap On(p) = {} /\ On(f) \cap On(w) = {}
      /\ On(v) \cap On(p) = {} /\ On(v) \cap On(w) = {} /\ On(p) \cap On(w) = {}
  BY <1>1, Apart
<1>4. /\ owner[e] = "anti" /\ nev' = nev /\ caused' = caused
      /\ m' = tw_eventq_unshift(m, "free_q", e) /\ owner' = [owner EXCEPT ![e] = "free_q"]
  BY DEF SendFinish
<1>5. e \notin On(f) \cup On(v) \cup On(p) \cup On(w) /\ e \in Event \ On(f)
  BY <1>1, <1>4 DEF Owns
<1>6. m' \in Mem /\ IsQueue(m', "free_q", <<e>> \o f) /\ Elsewhere(m, m', "free_q", On(f) \cup {e})
  BY <1>1, <1>2, <1>4, <1>5, UnshiftIs
<1>7. IsQueue(m', "event_q", v) /\ IsQueue(m', "pevent_q", p) /\ IsChain(m', nev', w)
  <2>1. /\ On(v) \cap (On(f) \cup {e}) = {} /\ On(p) \cap (On(f) \cup {e}) = {}
        /\ On(w) \cap (On(f) \cup {e}) = {}
    BY <1>3, <1>5
  <2> QED BY <1>1, <1>2, <1>4, <1>6, <2>1, QueueFrame, ChainFrame
<1>8. Holds(m', nev', <<e>> \o f, v, p, w)
  BY <1>6, <1>7 DEF Holds
<1>9. On(<<e>> \o f) = On(f) \cup {e}
  BY <1>1, <1>5, Prepended
<1>10. Owns(owner', On(<<e>> \o f), On(v), On(p), On(w))
  <2>1. Owns(owner', On(f) \cup {e}, On(v), On(p), On(w))
    BY <1>1, <1>3, <1>4, <1>5 DEF Owns, Place
  <2> QED BY <1>9, <2>1
<1>11. Causes(owner', caused')
  BY <1>1, <1>4 DEF Causes, Owns
<1> QED BY <1>5, <1>8, <1>10, <1>11 DEF Good

\* A rollback takes the head of pevent_q off it.
LEMMA UndoIs ==
  ASSUME NEW f, NEW v, NEW p, NEW w, Good(m, owner, caused, nev, f, v, p, w), Undo
  PROVE  p # <<>> /\ Good(m', owner', caused', nev', f, v, Tail(p), w)
<1>1. /\ Holds(m, nev, f, v, p, w) /\ Owns(owner, On(f), On(v), On(p), On(w)) /\ Causes(owner, caused)
      /\ f \in Lists /\ v \in Lists /\ p \in Lists /\ w \in Lists /\ m \in Mem
      /\ IsQueue(m, "free_q", f) /\ IsQueue(m, "event_q", v) /\ IsQueue(m, "pevent_q", p) /\ IsChain(m, nev, w)
      /\ nev = Null => w = <<>>
  BY HeldLists DEF Good, Holds
<1>2. /\ "free_q" \in Queue /\ "event_q" \in Queue /\ "pevent_q" \in Queue
      /\ "event_q" \in Queue \ {"free_q"} /\ "pevent_q" \in Queue \ {"free_q"}
      /\ "free_q" \in Queue \ {"event_q"} /\ "pevent_q" \in Queue \ {"event_q"}
      /\ "free_q" \in Queue \ {"pevent_q"} /\ "event_q" \in Queue \ {"pevent_q"}
  BY DEF Queue
<1>3. /\ On(f) \cap On(v) = {} /\ On(f) \cap On(p) = {} /\ On(f) \cap On(w) = {}
      /\ On(v) \cap On(p) = {} /\ On(v) \cap On(w) = {} /\ On(p) \cap On(w) = {}
  BY <1>1, Apart
<1> DEFINE e == m.head["pevent_q"]
           c == caused[e]
<1>4. /\ e # Null /\ nev' = nev /\ caused' = [caused EXCEPT ![e] = Null]
      /\ m' = tw_eventq_shift(m, "pevent_q")
      /\ owner' = [g \in Event |-> IF g = e THEN "pq" ELSE IF g = c THEN "anti" ELSE owner[g]]
  BY DEF Undo
<1>5. /\ m' \in Mem /\ IsQueue(m', "pevent_q", Tail(p)) /\ Elsewhere(m, m', "pevent_q", On(p))
      /\ p # <<>> /\ e = p[1]
  BY <1>1, <1>2, <1>4, ShiftIs
<1>6. On(Tail(p)) = On(p) \ {e} /\ e \in On(p) /\ e \in Event
  <2>1. Len(p) \in Nat \ {0} /\ On(Tail(p)) = On(p) \ {p[1]}
    BY <1>1, <1>5, Headless
  <2>2. 1 \in 1 .. Len(p) /\ p \in Seq(Event)
    BY <1>1, <2>1 DEF Lists
  <2>3. p[1] \in Event /\ p[1] \in On(p)
    BY <2>2 DEF On
  <2> HIDE DEF e
  <2> QED BY <1>5, <2>1, <2>3
<1>7. IsQueue(m', "free_q", f) /\ IsQueue(m', "event_q", v) /\ IsChain(m', nev', w)
  <2>1. On(f) \cap On(p) = {} /\ On(v) \cap On(p) = {} /\ On(w) \cap On(p) = {}
    BY <1>3
  <2> QED BY <1>1, <1>2, <1>4, <1>5, <2>1, QueueFrame, ChainFrame
<1>8. Holds(m', nev', f, v, Tail(p), w)
  BY <1>5, <1>7 DEF Holds
<1> HIDE DEF e
<1>9. c \in Ref /\ (c # Null => owner[c] = "sevent_q")
  BY <1>1, <1>6 DEF Causes
<1> HIDE DEF c
<1>10. Owns(owner', On(f), On(v), On(Tail(p)), On(w))
  <2>1. Owns(owner', On(f), On(v), On(p) \ {e}, On(w))
    <3>1. c # e
      BY <1>1, <1>6, <1>9, EventQAssumption DEF Owns, Event
    <3>2. c \notin On(f) \cup On(v) \cup On(p) \cup On(w)
      <4>1. c = Null => c \notin Event
        BY EventQAssumption DEF Event
      <4> QED BY <1>1, <1>9, <4>1 DEF Owns
    <3> QED BY <1>1, <1>3, <1>4, <1>6, <3>1, <3>2 DEF Owns, Place
  <2> QED BY <1>6, <2>1
<1>11. Causes(owner', caused')
  <2>1. /\ caused' \in [Event -> Ref] /\ Null \notin Event
        /\ \A g \in Event : caused'[g] = IF g = e THEN Null ELSE caused[g]
    BY <1>1, <1>4, <1>6, EventQAssumption DEF Causes, Ref, Event
  <2>2. ASSUME NEW g \in Event, caused'[g] # Null
        PROVE  owner'[g] = "pevent_q" /\ owner'[caused'[g]] = "sevent_q"
    <3>1. g # e /\ caused'[g] = caused[g]
      BY <2>1, <2>2
    <3>2. owner[g] = "pevent_q" /\ owner[caused[g]] = "sevent_q" /\ caused[g] \in Event
      BY <1>1, <2>2, <3>1 DEF Causes, Ref
    <3>3. caused[g] # c /\ g # c /\ caused[g] # e
      <4>1. caused[g] # c
        BY <1>1, <1>6, <2>2, <3>1 DEF Causes, c
      <4>2. owner[e] = "pevent_q"
        BY <1>1, <1>6 DEF Owns
      <4>3. c = g => owner[c] = "sevent_q"
        BY <1>9, <2>1
      <4> QED BY <3>2, <4>1, <4>2, <4>3
    <3> QED BY <1>4, <3>1, <3>2, <3>3
  <2>3. \A g, h \in Event : caused'[g] = caused'[h] /\ caused'[g] # Null => g = h
    BY <1>1, <2>1 DEF Causes
  <2> QED BY <2>1, <2>2, <2>3 DEF Causes
<1> QED BY <1>5, <1>8, <1>10, <1>11 DEF Good

\* Ownership follows the buffers.
LEMMA OwnsTaken ==
  ASSUME NEW own, NEW F, NEW V, NEW P, NEW W, Owns(own, F, V, P, W), NEW e \in Event, own[e] = "pq"
  PROVE  Owns([own EXCEPT ![e] = "pevent_q"], F, V, P \cup {e}, W)
BY DEF Owns, Place

\* See OwnsTaken.
LEMMA OwnsSent ==
  ASSUME NEW own, NEW F, NEW V, NEW P, NEW W, Owns(own, F, V, P, W), NEW e \in F
  PROVE  Owns([own EXCEPT ![e] = "sevent_q"], F \ {e}, V, P, W)
BY DEF Owns, Place

\* See OwnsTaken.
LEMMA OwnsCollected ==
  ASSUME NEW own, NEW F, NEW V, NEW P, NEW W, Owns(own, F, V, P, W),
         NEW old, old \subseteq P, NEW sent, sent \subseteq Event, sent \cap (F \cup V \cup P \cup W) = {},
         NEW own2 \in [Event -> Place],
         \A e \in Event : own2[e] = IF e \in old \cup sent THEN "free_q" ELSE own[e]
  PROVE  Owns(own2, F \cup old \cup sent, V, P \ old, W)
<1>1. own \in [Event -> Place] /\ F \cup V \cup P \cup W \subseteq Event /\ V \cap W = {}
  BY DEF Owns
<1>2. \A e \in Event : own2[e] = "free_q" <=> e \in F \cup old \cup sent
  BY DEF Owns
<1>3. \A e \in Event : own2[e] = "event_q" <=> e \in V \cup W
  BY DEF Owns
<1>4. \A e \in Event : own2[e] = "pevent_q" <=> e \in P \ old
  BY DEF Owns
<1> QED BY <1>1, <1>2, <1>3, <1>4 DEF Owns

\* A processed event goes to the head of pevent_q; an event it sends away takes
\* the buffer at the tail of free_q.
LEMMA ProcessIs ==
  ASSUME NEW f, NEW v, NEW p, NEW w, Good(m, owner, caused, nev, f, v, p, w),
         NEW e \in Event, Process(e)
  PROVE  /\ e \notin On(f) \cup On(v) \cup On(p)
         /\ \/ Good(m', owner', caused', nev', f, v, <<e>> \o p, w)
            \/ f # <<>> /\ Good(m', owner', caused', nev', Front(f), v, <<e>> \o p, w)
<1>1. /\ Holds(m, nev, f, v, p, w) /\ Owns(owner, On(f), On(v), On(p), On(w)) /\ Causes(owner, caused)
      /\ f \in Lists /\ v \in Lists /\ p \in Lists /\ w \in Lists /\ m \in Mem
      /\ IsQueue(m, "free_q", f) /\ IsQueue(m, "event_q", v) /\ IsQueue(m, "pevent_q", p) /\ IsChain(m, nev, w)
      /\ nev = Null => w = <<>>
  BY HeldLists DEF Good, Holds
<1>2. /\ "free_q" \in Queue /\ "event_q" \in Queue /\ "pevent_q" \in Queue
      /\ "event_q" \in Queue \ {"free_q"} /\ "pevent_q" \in Queue \ {"free_q"}
      /\ "free_q" \in Queue \ {"event_q"} /\ "pevent_q" \in Queue \ {"event_q"}
      /\ "free_q" \in Queue \ {"pevent_q"} /\ "event_q" \in Queue \ {"pevent_q"}
  BY DEF Queue
<1>3. /\ On(f) \cap On(v) = {} /\ On(f) \cap On(p) = {} /\ On(f) \cap On(w) = {}
      /\ On(v) \cap On(p) = {} /\ On(v) \cap On(w) = {} /\ On(p) \cap On(w) = {}
  BY <1>1, Apart
<1>4. nev = Null /\ owner[e] = "pq" /\ nev' = nev /\ w = <<>> /\ On(w) = {}
  BY <1>1, Empty DEF Process
<1>5. e \notin On(f) \cup On(v) \cup On(p) /\ e \in Event \ On(p)
  BY <1>1, <1>4 DEF Owns
<1>6. On(<<e>> \o p) = On(p) \cup {e}
  BY <1>1, <1>5, Prepended
<1>7. caused[e] = Null /\ Null \notin Event
  BY <1>1, <1>4, EventQAssumption DEF Causes, Event
<1>8. CASE /\ owner' = [owner EXCEPT ![e] = "pevent_q"]
           /\ m' = tw_eventq_unshift(m, "pevent_q", e)
           /\ UNCHANGED caused
  <2>1. m' \in Mem /\ IsQueue(m', "pevent_q", <<e>> \o p) /\ Elsewhere(m, m', "pevent_q", On(p) \cup {e})
    BY <1>1, <1>2, <1>5, <1>8, UnshiftIs
  <2>2. IsQueue(m', "free_q", f) /\ IsQueue(m', "event_q", v) /\ IsChain(m', nev', w)
    <3>1. On(f) \cap (On(p) \cup {e}) = {} /\ On(v) \cap (On(p) \cup {e}) = {}
      BY <1>3, <1>5
    <3> QED BY <1>1, <1>2, <1>4, <2>1, <3>1, QueueFrame, Empty
  <2>3. Holds(m', nev', f, v, <<e>> \o p, w)
    BY <2>1, <2>2 DEF Holds
  <2>4. Owns(owner', On(f), On(v), On(<<e>> \o p), On(w))
    <3>1. Owns(owner', On(f), On(v), On(p) \cup {e}, On(w))
      BY <1>1, <1>4, <1>8, OwnsTaken
    <3> QED BY <1>6, <3>1
  <2>5. Causes(owner', caused')
    BY <1>1, <1>4, <1>8 DEF Causes, Owns
  <2> QED BY <1>5, <2>3, <2>4, <2>5 DEF Good
<1>9. CASE /\ m.tail["free_q"] # Null
           /\ LET c == m.tail["free_q"]
              IN  /\ m' = tw_eventq_unshift(tw_eventq_pop(m, "free_q"), "pevent_q", e)
                  /\ owner' = [owner EXCEPT ![e] = "pevent_q", ![c] = "sevent_q"]
                  /\ caused' = [caused EXCEPT ![e] = c, ![c] = Null]
  <2> DEFINE c == f[Len(f)]
             x == tw_eventq_pop(m, "free_q")
  <2>1. /\ x \in Mem /\ IsQueue(x, "free_q", Front(f)) /\ Elsewhere(m, x, "free_q", On(f))
        /\ f # <<>> /\ m.tail["free_q"] = c
    BY <1>1, <1>2, <1>9, PopIs
  <2>2. /\ On(Front(f)) = On(f) \ {c} /\ c \in Event /\ c \in On(f)
    <3>1. Len(f) \in Nat \ {0} /\ On(Front(f)) = On(f) \ {c}
      BY <1>1, <2>1, Lastless
    <3>2. Len(f) \in 1 .. Len(f) /\ f \in Seq(Event)
      BY <1>1, <3>1 DEF Lists
    <3>3. c \in Event /\ c \in On(f)
      BY <3>2 DEF On
    <3> HIDE DEF c
    <3> QED BY <3>1, <3>3
  <2>3. /\ m' = tw_eventq_unshift(x, "pevent_q", e)
        /\ owner' = [owner EXCEPT ![e] = "pevent_q", ![c] = "sevent_q"]
        /\ caused' = [caused EXCEPT ![e] = c, ![c] = Null]
    BY <1>9, <2>1
  <2> HIDE DEF x, c
  <2>4. IsQueue(x, "event_q", v) /\ IsQueue(x, "pevent_q", p)
    <3>1. On(v) \cap On(f) = {} /\ On(p) \cap On(f) = {}
      BY <1>3
    <3> QED BY <1>1, <1>2, <2>1, <3>1, QueueFrame
  <2>5. m' \in Mem /\ IsQueue(m', "pevent_q", <<e>> \o p) /\ Elsewhere(x, m', "pevent_q", On(p) \cup {e})
    BY <1>2, <1>5, <2>1, <2>3, <2>4, UnshiftIs
  <2>6. IsQueue(m', "free_q", Front(f)) /\ IsQueue(m', "event_q", v) /\ IsChain(m', nev', w)
    <3>1. On(Front(f)) \cap (On(p) \cup {e}) = {} /\ On(v) \cap (On(p) \cup {e}) = {}
      BY <1>3, <1>5, <2>2
    <3> QED BY <1>2, <1>4, <2>1, <2>4, <2>5, <3>1, QueueFrame, Empty
  <2>7. Holds(m', nev', Front(f), v, <<e>> \o p, w)
    BY <2>5, <2>6 DEF Holds
  <2>8. c # e /\ owner[c] = "free_q" /\ caused[c] = Null
    BY <1>1, <1>5, <2>2 DEF Owns, Causes
  <2>9. Owns(owner', On(Front(f)), On(v), On(<<e>> \o p), On(w))
    <3>1. Owns(owner', On(f) \ {c}, On(v), On(p) \cup {e}, On(w))
      <4>1. Owns([owner EXCEPT ![e] = "pevent_q"], On(f), On(v), On(p) \cup {e}, On(w))
        BY <1>1, <1>4, OwnsTaken
      <4>2. Owns([[owner EXCEPT ![e] = "pevent_q"] EXCEPT ![c] = "sevent_q"], On(f) \ {c}, On(v), On(p) \cup {e}, On(w))
        BY <2>2, <4>1, OwnsSent
      <4> QED BY <2>3, <4>2
    <3> QED BY <1>6, <2>2, <3>1
  <2>10. Causes(owner', caused')
    <3>1. /\ caused' \in [Event -> Ref] /\ caused \in [Event -> Ref]
          /\ \A g \in Event : caused'[g] = IF g = e THEN c ELSE caused[g]
      BY <1>1, <2>2, <2>3, <2>8 DEF Causes, Ref
    <3>2. \A g \in Event : owner'[g] = IF g = e THEN "pevent_q" ELSE IF g = c THEN "sevent_q" ELSE owner[g]
      BY <1>1, <2>2, <2>3, <2>8 DEF Owns
    <3>3. ASSUME NEW g \in Event, caused'[g] # Null
          PROVE  owner'[g] = "pevent_q" /\ owner'[caused'[g]] = "sevent_q"
      <4>1. CASE g = e
        BY <2>2, <2>8, <3>1, <3>2, <4>1
      <4>2. CASE g # e
        <5>1. caused[g] # Null /\ caused[g] \in Event /\ caused'[g] = caused[g]
          BY <3>1, <3>3, <4>2 DEF Ref
        <5>2. owner[g] = "pevent_q" /\ owner[caused[g]] = "sevent_q"
          BY <1>1, <5>1 DEF Causes
        <5>3. g # c /\ caused[g] # e /\ caused[g] # c
          BY <1>4, <2>8, <5>2
        <5> QED BY <3>2, <4>2, <5>1, <5>2, <5>3
      <4> QED BY <4>1, <4>2
    <3>4. \A g \in Event : caused[g] # c
      BY <1>1, <1>7, <2>2, <2>8 DEF Causes
    <3>5. \A g, h \in Event : caused'[g] = caused'[h] /\ caused'[g] # Null => g = h
      BY <1>1, <3>1, <3>4 DEF Causes
    <3> QED BY <3>1, <3>3, <3>5 DEF Causes
  <2> QED BY <1>5, <2>1, <2>7, <2>9, <2>10 DEF Good
<1> QED BY <1>8, <1>9 DEF Process

\* Fossil collection takes the events of pevent_q from place k on.
LEMMA FossilStep ==
  ASSUME NEW f, NEW v, NEW p, NEW w, Good(m, owner, caused, nev, f, v, p, w),
         NEW k \in 1 .. Len(p), NEW old, old = OldFrom(p, k), Fossil(old)
  PROVE  \E d \in Lists :
           /\ On(d) \cap (On(f) \cup On(v) \cup On(p)) = {}
           /\ On(d) \cap On(SubSeq(p, k, Len(p)) \o f) = {}
           /\ Good(m', owner', caused', nev', d \o (SubSeq(p, k, Len(p)) \o f), v, SubSeq(p, 1, k - 1), w)
<1>1. /\ Holds(m, nev, f, v, p, w) /\ Owns(owner, On(f), On(v), On(p), On(w)) /\ Causes(owner, caused)
      /\ f \in Lists /\ v \in Lists /\ p \in Lists /\ w \in Lists /\ m \in Mem
      /\ IsQueue(m, "free_q", f) /\ IsQueue(m, "event_q", v) /\ IsQueue(m, "pevent_q", p) /\ IsChain(m, nev, w)
      /\ nev = Null => w = <<>>
  BY HeldLists DEF Good, Holds
<1>2. /\ "free_q" \in Queue /\ "event_q" \in Queue /\ "pevent_q" \in Queue
      /\ "event_q" \in Queue \ {"free_q"} /\ "pevent_q" \in Queue \ {"free_q"}
      /\ "free_q" \in Queue \ {"event_q"} /\ "pevent_q" \in Queue \ {"event_q"}
      /\ "free_q" \in Queue \ {"pevent_q"} /\ "event_q" \in Queue \ {"pevent_q"}
  BY DEF Queue
<1>3. /\ On(f) \cap On(v) = {} /\ On(f) \cap On(p) = {} /\ On(f) \cap On(w) = {}
      /\ On(v) \cap On(p) = {} /\ On(v) \cap On(w) = {} /\ On(p) \cap On(w) = {}
  BY <1>1, Apart
<1> DEFINE c == SubSeq(p, k, Len(p))
           u == SubSeq(p, 1, k - 1)
           sent == {caused[e] : e \in old} \ {Null}
<1>4. /\ nev = Null /\ nev' = nev /\ w = <<>> /\ On(w) = {}
      /\ m' = tw_eventq_fossil_collect(m, "pevent_q", old)
      /\ owner' = [e \in Event |-> IF e \in old \cup {caused[g] : g \in old} THEN "free_q" ELSE owner[e]]
      /\ caused' = [e \in Event |-> IF e \in old THEN Null ELSE caused[e]]
  BY <1>1, Empty DEF Fossil
<1>5. /\ c \in Lists /\ On(c) = old /\ u \in Lists /\ On(u) = {p[i] : i \in 1 .. k - 1}
  <2>1. /\ k \in 1 .. Len(p) + 1 /\ Len(p) \in k - 1 .. Len(p)
        /\ 1 \in 1 .. Len(p) + 1 /\ k - 1 \in 1 - 1 .. Len(p)
    BY <1>1 DEF Lists
  <2>2. c \in Lists /\ On(c) = {p[i] : i \in k .. Len(p)}
    BY <1>1, <2>1, Part
  <2>3. u \in Lists /\ On(u) = {p[i] : i \in 1 .. k - 1}
    BY <1>1, <2>1, Part
  <2> QED BY <2>2, <2>3 DEF OldFrom
<1>6. On(u) = On(p) \ old /\ old \subseteq On(p) /\ old \subseteq Event
  <2>1. /\ Len(p) \in Nat /\ \A i \in 1 .. Len(p) : p[i] \in Event
        /\ \A i, j \in 1 .. Len(p) : p[i] = p[j] => i = j
    BY <1>1 DEF Lists
  <2>2. /\ \A i \in 1 .. Len(p) : i \in 1 .. k - 1 \/ i \in k .. Len(p)
        /\ \A i \in 1 .. k - 1 : i \in 1 .. Len(p) /\ ~(i \in k .. Len(p))
        /\ \A i \in k .. Len(p) : i \in 1 .. Len(p)
    BY <2>1
  <2>3. old = {p[i] : i \in k .. Len(p)} /\ On(p) = {p[i] : i \in 1 .. Len(p)}
    BY DEF OldFrom, On
  <2> HIDE DEF u
  <2>4. old \subseteq On(p) /\ old \subseteq Event
    BY <2>1, <2>2, <2>3
  <2>5. \A x : x \in On(u) => x \in On(p) /\ x \notin old
    BY <1>5, <2>1, <2>2, <2>3
  <2>6. \A x : x \in On(p) /\ x \notin old => x \in On(u)
    BY <1>5, <2>2, <2>3
  <2> QED BY <2>4, <2>5, <2>6
<1> HIDE DEF c, u
<1>7. /\ caused \in [Event -> Ref]
      /\ \A e \in old : caused[e] # Null => caused[e] \in Event /\ owner[caused[e]] = "sevent_q"
  BY <1>1, <1>6 DEF Causes, Ref
<1>8. \A x \in sent : x \in Event /\ owner[x] = "sevent_q"
  BY <1>7
<1>9. sent \cap (On(f) \cup On(v) \cup On(p)) = {}
  BY <1>1, <1>8 DEF Owns
<1>10. \A e \in old : caused[e] \notin On(p) \cup On(f)
  <2>1. Null \notin On(p) \cup On(f)
    BY <1>1, EventQAssumption DEF Owns, Event
  <2> QED BY <1>9, <2>1
<1>11. \A e, g \in old : caused[e] = caused[g] /\ caused[e] # Null => e = g
  BY <1>1, <1>6 DEF Causes
<1>12. On(v) \cap (On(f) \cup On(p) \cup sent) = {}
  BY <1>3, <1>9
<1>13. /\ m' \in Mem /\ IsQueue(m', "pevent_q", u) /\ IsQueue(m', "event_q", v)
       /\ \E d \in Lists : /\ On(d) = sent /\ On(d) \cap On(c \o f) = {}
                           /\ IsQueue(m', "free_q", d \o (c \o f))
  <2>1. sent = SentBy(old)
    BY DEF SentBy
  <2> HIDE DEF sent
  <2>2. Collected(tw_eventq_fossil_collect(m, "pevent_q", old), f, v, p, k, sent)
    BY <1>1, <1>3, <1>7, <1>10, <1>11, <1>12, <2>1, FossilIs
  <2>3. Collected(m', f, v, p, k, sent)
    BY <1>4, <2>2
  <2> QED BY <2>3 DEF Collected, c, u
<1>14. PICK d \in Lists : /\ On(d) = sent /\ On(d) \cap On(c \o f) = {}
                          /\ IsQueue(m', "free_q", d \o (c \o f))
  BY <1>13
<1>15. Holds(m', nev', d \o (c \o f), v, u, w)
  BY <1>4, <1>13, <1>14, Empty DEF Holds
<1>16. On(d \o (c \o f)) = On(f) \cup old \cup sent
  <2>1. On(c) \cap On(f) = {}
    BY <1>3, <1>5, <1>6
  <2>2. c \o f \in Lists /\ On(c \o f) = On(c) \cup On(f)
    BY <1>1, <1>5, <2>1, Joined
  <2>3. On(d \o (c \o f)) = On(d) \cup On(c \o f)
    BY <1>14, <2>2, Joined
  <2> HIDE DEF sent
  <2> QED BY <1>5, <1>14, <2>2, <2>3
<1>17. \A e \in Event : owner'[e] = IF e \in old \cup sent THEN "free_q" ELSE owner[e]
  <2>1. \A e \in Event : e \in {caused[g] : g \in old} <=> e \in sent
    BY EventQAssumption DEF Event
  <2> QED BY <1>4, <2>1
<1>18. owner' \in [Event -> Place]
  BY <1>1, <1>4 DEF Owns, Place
<1>19. Owns(owner', On(d \o (c \o f)), On(v), On(u), On(w))
  <2>1. sent \subseteq Event
    BY <1>8
  <2> HIDE DEF sent
  <2>2. Owns(owner', On(f) \cup old \cup sent, On(v), On(p) \ old, On(w))
    <3>1. Owns(owner, On(f), On(v), On(p), On(w)) /\ old \subseteq On(p)
      BY <1>1, <1>6
    <3>2. sent \cap (On(f) \cup On(v) \cup On(p) \cup On(w)) = {}
      BY <1>4, <1>9
    <3> QED BY <1>17, <1>18, <2>1, <3>1, <3>2, OwnsCollected, Zenon
  <2> QED BY <1>6, <1>16, <2>2
<1>20. Causes(owner', caused')
  <2>1. /\ caused' \in [Event -> Ref]
        /\ \A e \in Event : caused'[e] = IF e \in old THEN Null ELSE caused[e]
    BY <1>4, <1>7 DEF Ref
  <2>2. ASSUME NEW e \in Event, caused'[e] # Null
        PROVE  owner'[e] = "pevent_q" /\ owner'[caused'[e]] = "sevent_q"
    <3>1. e \notin old /\ caused'[e] = caused[e] /\ caused[e] # Null /\ caused[e] \in Event
      BY <1>7, <2>1, <2>2 DEF Ref
    <3>2. owner[e] = "pevent_q" /\ owner[caused[e]] = "sevent_q"
      BY <1>1, <3>1 DEF Causes
    <3>3. e \notin sent /\ caused[e] \notin old
      <4>1. \A x \in old : owner[x] = "pevent_q"
        BY <1>1, <1>6 DEF Owns
      <4> HIDE DEF sent
      <4> QED BY <1>8, <3>2, <4>1
    <3>4. caused[e] \notin sent
      <4>1. \A x \in old : x \in Event /\ x # e
        BY <1>6, <3>1
      <4> QED BY <1>1, <3>1, <4>1 DEF Causes
    <3> HIDE DEF sent
    <3> QED BY <1>17, <3>1, <3>2, <3>3, <3>4
  <2>3. \A e, g \in Event : caused'[e] = caused'[g] /\ caused'[e] # Null => e = g
    BY <1>1, <2>1 DEF Causes
  <2> QED BY <2>1, <2>2, <2>3 DEF Causes
<1>21. Good(m', owner', caused', nev', d \o (c \o f), v, u, w)
  BY <1>15, <1>19, <1>20 DEF Good
<1>22. On(d) \cap (On(f) \cup On(v) \cup On(p)) = {}
  <2> HIDE DEF sent
  <2> QED BY <1>9, <1>14
<1> QED BY <1>14, <1>21, <1>22 DEF c, u
-----------------------------------------------------------------------------
\* The abstract lists are the ones the pointers hold.
LEMMA Chains ==
  ASSUME NEW f, NEW v, NEW p, NEW w, Good(m, owner, caused, nev, f, v, p, w)
  PROVE  Chain("free_q") = f /\ Chain("event_q") = v /\ Chain("pevent_q") = p /\ Walked = w
BY ChainsAre DEF Good, Chain, Walked

\* So they are after a step.
LEMMA ChainsAfter ==
  ASSUME NEW f, NEW v, NEW p, NEW w, Good(m', owner', caused', nev', f, v, p, w)
  PROVE  Chain("free_q")' = f /\ Chain("event_q")' = v /\ Chain("pevent_q")' = p
<1>1. Holds(m', nev', f, v, p, w)
  BY DEF Good
<1>2. /\ From(m', m'.head["free_q"]) = f /\ From(m', m'.head["event_q"]) = v
      /\ From(m', m'.head["pevent_q"]) = p
  BY <1>1, ChainsAre
<1> QED BY <1>2 DEF Chain

\* The lists of a good state.
LEMMA GoodLists ==
  ASSUME NEW mm, NEW own, NEW cau, NEW nx, NEW f, NEW v, NEW p, NEW w, Good(mm, own, cau, nx, f, v, p, w)
  PROVE  f \in Lists /\ v \in Lists /\ p \in Lists /\ w \in Lists
BY HeldLists DEF Good

\* The elements of a list and its range.
LEMMA RangeOn ==
  ASSUME NEW s \in Lists
  PROVE  Range(s) = On(s) /\ DOMAIN s = 1 .. Len(s) /\ IsInjective(s)
BY DEF Lists, Range, On, IsInjective

\* The operators on sequences of EventLists are those of this module.
LEMMA SameOperators ==
  ASSUME NEW s, NEW i
  PROVE  /\ L!Range(s) = Range(s) /\ L!Front(s) = Front(s) /\ L!Last(s) = Last(s)
         /\ L!RemoveAt(s, i) = RemoveAt(s, i) /\ (L!IsInjective(s) <=> IsInjective(s))
BY DEF L!Range, Range, L!Front, Front, L!Last, Last, L!RemoveAt, RemoveAt, L!IsInjective, IsInjective

\* An event on no queue is on no abstract list.
LEMMA InNoneIs ==
  ASSUME NEW f, NEW v, NEW p, NEW w, Good(m, owner, caused, nev, f, v, p, w),
         NEW e, e \notin On(f) \cup On(v) \cup On(p)
  PROVE  L!InNone(e)
<1>1. Range(f) = On(f) /\ Range(v) = On(v) /\ Range(p) = On(p)
  BY GoodLists, RangeOn
<1>2. Chain("free_q") = f /\ Chain("event_q") = v /\ Chain("pevent_q") = p
  BY Chains
<1> QED BY <1>1, <1>2, SameOperators DEF L!InNone

\* Receive is a step of the abstract lists.
LEMMA ReceiveMaps ==
  ASSUME NEW f, NEW v, NEW p, NEW w, Good(m, owner, caused, nev, f, v, p, w), Receive
  PROVE  ListInv' /\ L!Next
<1>1. f # <<>> /\ Good(m', owner', caused', nev', Front(f), Append(v, f[Len(f)]), p, w)
  BY ReceiveIs
<1>2. Chain("free_q") = f /\ Chain("event_q") = v /\ Chain("pevent_q") = p
  BY Chains
<1>3. /\ Chain("free_q")' = Front(f) /\ Chain("event_q")' = Append(v, f[Len(f)]) /\ Chain("pevent_q")' = p
  BY <1>1, ChainsAfter
<1>4. Last(f) = f[Len(f)]
  BY DEF Last
<1>5. L!Receive
  BY <1>1, <1>2, <1>3, <1>4, SameOperators DEF L!Receive
<1>6. ListInv'
  BY <1>1, GoodLists DEF ListInv
<1> QED BY <1>5, <1>6 DEF L!Next

\* Taking event_q for the walk empties the abstract one.
LEMMA PopListMaps ==
  ASSUME NEW f, NEW v, NEW p, NEW w, Good(m, owner, caused, nev, f, v, p, w), PopList
  PROVE  ListInv' /\ L!Next
<1>1. Good(m', owner', caused', nev', f, <<>>, p, v)
  BY PopListStep
<1>2. Chain("free_q") = f /\ Chain("event_q") = v /\ Chain("pevent_q") = p
  BY Chains
<1>3. Chain("free_q")' = f /\ Chain("event_q")' = <<>> /\ Chain("pevent_q")' = p
  BY <1>1, ChainsAfter
<1>4. L!TakeAll
  BY <1>2, <1>3 DEF L!TakeAll
<1>5. ListInv'
  BY <1>1, GoodLists DEF ListInv
<1> QED BY <1>4, <1>5 DEF L!Next

\* A pass of the walk changes no abstract list.
LEMMA EnqueueMaps ==
  ASSUME NEW f, NEW v, NEW p, NEW w, Good(m, owner, caused, nev, f, v, p, w), EnqueueNext
  PROVE  ListInv' /\ UNCHANGED L!vars
<1>1. Good(m', owner', caused', nev', f, v, p, Tail(w))
  BY EnqueueStep
<1>2. Chain("free_q") = f /\ Chain("event_q") = v /\ Chain("pevent_q") = p
  BY Chains
<1>3. Chain("free_q")' = f /\ Chain("event_q")' = v /\ Chain("pevent_q")' = p
  BY <1>1, ChainsAfter
<1>4. ListInv'
  BY <1>1, GoodLists DEF ListInv
<1> QED BY <1>2, <1>3, <1>4 DEF L!vars

\* Cancel is the abstract one.
LEMMA CancelMaps ==
  ASSUME NEW f, NEW v, NEW p, NEW w, Good(m, owner, caused, nev, f, v, p, w), NEW e \in Event, Cancel(e)
  PROVE  ListInv' /\ L!Next
<1>1. PICK i \in 1 .. Len(v) :
        v[i] = e /\ Good(m', owner', caused', nev', <<e>> \o f, RemoveAt(v, i), p, w)
  BY CancelIs
<1>2. Chain("free_q") = f /\ Chain("event_q") = v /\ Chain("pevent_q") = p
  BY Chains
<1>3. /\ Chain("free_q")' = <<e>> \o f /\ Chain("event_q")' = RemoveAt(v, i)
      /\ Chain("pevent_q")' = p
  BY <1>1, ChainsAfter
<1>4. i \in DOMAIN v
  BY GoodLists, RangeOn
<1>5. L!Cancel(e)
  BY <1>1, <1>2, <1>3, <1>4, SameOperators DEF L!Cancel
<1>6. ListInv'
  BY <1>1, GoodLists DEF ListInv
<1> QED BY <1>5, <1>6 DEF L!Next

\* Processing an event is the abstract step, with or without a buffer taken.
LEMMA ProcessMaps ==
  ASSUME NEW f, NEW v, NEW p, NEW w, Good(m, owner, caused, nev, f, v, p, w), NEW e \in Event, Process(e)
  PROVE  ListInv' /\ L!Next
<1>1. /\ e \notin On(f) \cup On(v) \cup On(p)
      /\ \/ Good(m', owner', caused', nev', f, v, <<e>> \o p, w)
         \/ f # <<>> /\ Good(m', owner', caused', nev', Front(f), v, <<e>> \o p, w)
  BY ProcessIs
<1>2. Chain("free_q") = f /\ Chain("event_q") = v /\ Chain("pevent_q") = p
  BY Chains
<1>3. L!InNone(e)
  BY <1>1, InNoneIs
<1>4. CASE Good(m', owner', caused', nev', f, v, <<e>> \o p, w)
  <2>1. Chain("free_q")' = f /\ Chain("event_q")' = v /\ Chain("pevent_q")' = <<e>> \o p
    BY <1>4, ChainsAfter
  <2>2. L!Process(e)
    BY <1>2, <1>3, <2>1 DEF L!Process
  <2>3. ListInv'
    BY <1>4, GoodLists DEF ListInv
  <2> QED BY <2>2, <2>3 DEF L!Next
<1>5. CASE f # <<>> /\ Good(m', owner', caused', nev', Front(f), v, <<e>> \o p, w)
  <2>1. Chain("free_q")' = Front(f) /\ Chain("event_q")' = v /\ Chain("pevent_q")' = <<e>> \o p
    BY <1>5, ChainsAfter
  <2>2. L!Process(e)
    BY <1>2, <1>3, <1>5, <2>1, SameOperators DEF L!Process
  <2>3. ListInv'
    BY <1>5, GoodLists DEF ListInv
  <2> QED BY <2>2, <2>3 DEF L!Next
<1> QED BY <1>1, <1>4, <1>5

\* So is undoing one.
LEMMA UndoMaps ==
  ASSUME NEW f, NEW v, NEW p, NEW w, Good(m, owner, caused, nev, f, v, p, w), Undo
  PROVE  ListInv' /\ L!Next
<1>1. p # <<>> /\ Good(m', owner', caused', nev', f, v, Tail(p), w)
  BY UndoIs
<1>2. Chain("free_q") = f /\ Chain("event_q") = v /\ Chain("pevent_q") = p
  BY Chains
<1>3. Chain("free_q")' = f /\ Chain("event_q")' = v /\ Chain("pevent_q")' = Tail(p)
  BY <1>1, ChainsAfter
<1>4. L!Undo
  BY <1>1, <1>2, <1>3 DEF L!Undo
<1>5. ListInv'
  BY <1>1, GoodLists DEF ListInv
<1> QED BY <1>4, <1>5 DEF L!Next

\* The buffer of an anti-message that has left is freed.
LEMMA SendFinishMaps ==
  ASSUME NEW f, NEW v, NEW p, NEW w, Good(m, owner, caused, nev, f, v, p, w), NEW e \in Event, SendFinish(e)
  PROVE  ListInv' /\ L!Next
<1>1. /\ e \notin On(f) \cup On(v) \cup On(p)
      /\ Good(m', owner', caused', nev', <<e>> \o f, v, p, w)
  BY SendFinishIs
<1>2. Chain("free_q") = f /\ Chain("event_q") = v /\ Chain("pevent_q") = p
  BY Chains
<1>3. Chain("free_q")' = <<e>> \o f /\ Chain("event_q")' = v /\ Chain("pevent_q")' = p
  BY <1>1, ChainsAfter
<1>4. L!InNone(e)
  BY <1>1, InNoneIs
<1>5. L!Free(e)
  BY <1>2, <1>3, <1>4 DEF L!Free
<1>6. ListInv'
  BY <1>1, GoodLists DEF ListInv
<1> QED BY <1>5, <1>6 DEF L!Next

\* Fossil collection from place k on is the abstract one of the events from there.
LEMMA FossilMaps ==
  ASSUME NEW f, NEW v, NEW p, NEW w, Good(m, owner, caused, nev, f, v, p, w),
         NEW k \in 1 .. Len(p), Fossil(OldFrom(p, k))
  PROVE  ListInv' /\ L!Next
<1> DEFINE c == SubSeq(p, k, Len(p))
           n == Len(p) - k + 1
<1>1. PICK d \in Lists :
        /\ On(d) \cap (On(f) \cup On(v) \cup On(p)) = {} /\ On(d) \cap On(c \o f) = {}
        /\ Good(m', owner', caused', nev', d \o (c \o f), v, SubSeq(p, 1, k - 1), w)
  BY FossilStep
<1>2. Chain("free_q") = f /\ Chain("event_q") = v /\ Chain("pevent_q") = p
  BY Chains
<1>3. /\ Chain("free_q")' = d \o (c \o f) /\ Chain("event_q")' = v
      /\ Chain("pevent_q")' = SubSeq(p, 1, k - 1)
  BY <1>1, ChainsAfter
<1>4. f \in Lists /\ p \in Lists /\ Len(p) \in Nat
  BY GoodLists DEF Lists
<1>5. n \in 1 .. Len(p) /\ Len(p) - n = k - 1 /\ Len(p) - n + 1 = k
  BY <1>4
<1>6. c \in Lists /\ Len(c) = n /\ On(c) \subseteq On(p)
  <2>1. k \in 1 .. Len(p) + 1 /\ Len(p) \in k - 1 .. Len(p)
    BY <1>4
  <2>2. c \in Lists /\ Len(c) = n /\ On(c) = {p[i] : i \in k .. Len(p)}
    BY <1>4, <2>1, Part
  <2>3. \A i \in k .. Len(p) : i \in 1 .. Len(p)
    BY <1>4
  <2> HIDE DEF c, n
  <2> QED BY <2>2, <2>3 DEF On
<1> HIDE DEF c, n
<1>7. c \o f \in Lists /\ Len(c \o f) = n + Len(f) /\ Len(f) \in Nat /\ Len(d) \in Nat /\ n \in Nat
  <2>1. On(p) \cap On(f) = {}
    BY Apart DEF Good
  <2>2. Len(f) \in Nat /\ Len(d) \in Nat /\ n \in Nat
    BY <1>4, <1>5 DEF Lists
  <2>3. On(c) \cap On(f) = {}
    BY <1>6, <2>1
  <2>4. c \o f \in Lists /\ Len(c \o f) = Len(c) + Len(f)
    BY <1>4, <1>6, <2>3, Joined
  <2> QED BY <1>6, <2>2, <2>4
<1> DEFINE t == c \o f
           g == d \o t
<1>8. /\ g \in Lists /\ Len(g) = Len(d) + (n + Len(f))
      /\ \A i \in 1 .. Len(d) : g[i] = d[i]
  <2>1. t \in Lists /\ On(d) \cap On(t) = {} /\ Len(t) = n + Len(f)
    BY <1>1, <1>7
  <2> HIDE DEF t
  <2> QED BY <2>1, Joined
<1>9. Len(g) - n - Len(f) = Len(d)
  BY <1>7, <1>8
<1>10. SubSeq(g, Len(d) + 1, Len(g)) = t
  <2>1. d \in Seq(Event) /\ t \in Seq(Event) /\ Len(t) = n + Len(f)
    BY <1>7 DEF Lists
  <2>2. n + Len(f) >= 1
    BY <1>5, <1>7
  <2> HIDE DEF t
  <2>3. /\ Len(d) + 1 \in Len(d) + 1 .. Len(d) + Len(t) /\ Len(g) \in Len(d) + 1 .. Len(d) + Len(t)
        /\ Len(d) + 1 - Len(d) = 1 /\ Len(g) - Len(d) = Len(t)
    BY <1>7, <1>8, <2>1, <2>2
  <2>4. SubSeq(d \o t, Len(d) + 1, Len(g)) = SubSeq(t, Len(d) + 1 - Len(d), Len(g) - Len(d))
    BY <2>1, <2>3, SubSeqOfConcat2
  <2>5. SubSeq(t, 1, Len(t)) = t
    BY <2>1, SubSeqFull
  <2> QED BY <2>3, <2>4, <2>5
<1>11. \A i \in 1 .. Len(d) : L!InNone(g[i])
  <2>1. TAKE i \in 1 .. Len(d)
  <2>2. g[i] \in On(d)
    BY <1>8 DEF On
  <2> HIDE DEF g
  <2>3. g[i] \notin On(f) \cup On(v) \cup On(p)
    BY <1>1, <2>2
  <2> QED BY <2>3, InNoneIs
<1>12. IsInjective(g)
  BY <1>8, RangeOn
<1>13. L!Fossil(n)
  <2>1. Chain("free_q")' = g /\ SubSeq(p, Len(p) - n + 1, Len(p)) = c /\ SubSeq(p, 1, Len(p) - n) = SubSeq(p, 1, k - 1)
    BY <1>3, <1>5 DEF c
  <2> HIDE DEF g, t
  <2>2. Len(d) >= 0
    BY <1>7
  <2>3. LET sent == Len(g) - n - Len(f)
        IN  /\ sent >= 0
            /\ \A i \in 1 .. sent : L!InNone(g[i])
            /\ SubSeq(g, sent + 1, Len(g)) = c \o f
    BY <1>9, <1>10, <1>11, <2>2 DEF t
  <2> QED BY <1>2, <1>3, <1>12, <2>1, <2>3, SameOperators DEF L!Fossil
<1>14. L!Next
  BY <1>2, <1>5, <1>13 DEF L!Next
<1>15. ListInv'
  BY <1>1, GoodLists DEF ListInv, c
<1> QED BY <1>14, <1>15
-----------------------------------------------------------------------------
\* An event is in one place of a list, or in none.
LEMMA Places ==
  ASSUME NEW s \in Lists, NEW e
  PROVE  Cardinality({i \in DOMAIN s : s[i] = e}) = IF e \in On(s) THEN 1 ELSE 0
<1> DEFINE I == {i \in DOMAIN s : s[i] = e}
<1>1. /\ DOMAIN s = 1 .. Len(s)
      /\ \A i, j \in 1 .. Len(s) : s[i] = s[j] => i = j
  BY RangeOn DEF Lists
<1>2. CASE e \in On(s)
  <2>1. PICK i \in 1 .. Len(s) : s[i] = e
    BY <1>2 DEF On
  <2>2. I = {i}
    BY <1>1, <2>1
  <2> HIDE DEF I
  <2>3. Cardinality(I) = 1
    BY <2>2, FS_Singleton
  <2> QED BY <1>2, <2>3 DEF I
<1>3. CASE e \notin On(s)
  <2>1. I = {}
    BY <1>1, <1>3 DEF On
  <2> HIDE DEF I
  <2>2. Cardinality(I) = 0
    BY <2>1, FS_EmptySet
  <2> QED BY <1>3, <2>2 DEF I
<1> QED BY <1>2, <1>3

\* The invariant says where each event is.
LEMMA PlacesOwned ==
  ASSUME ListInv
  PROVE  EachInOnePlace
<1>1. PICK f, v, p, w \in Lists : Good(m, owner, caused, nev, f, v, p, w)
  BY DEF ListInv
<1>2. Chain("free_q") = f /\ Chain("event_q") = v /\ Chain("pevent_q") = p /\ Walked = w
  BY <1>1, Chains
<1>3. Range(w) = On(w)
  BY RangeOn
<1>4. /\ On(f) \cap On(v) = {} /\ On(f) \cap On(p) = {} /\ On(f) \cap On(w) = {}
      /\ On(v) \cap On(p) = {} /\ On(v) \cap On(w) = {} /\ On(p) \cap On(w) = {}
  BY <1>1, Apart DEF Good
<1>5. \A e \in Event : /\ owner[e] = "free_q" <=> e \in On(f)
                       /\ owner[e] = "event_q" <=> e \in On(v) \cup On(w)
                       /\ owner[e] = "pevent_q" <=> e \in On(p)
  BY <1>1 DEF Good, Owns
<1>6. ASSUME NEW e \in Event
      PROVE  /\ owner[e] = "free_q" /\ e \notin Range(w) <=> e \in On(f)
             /\ owner[e] = "event_q" /\ e \notin Range(w) <=> e \in On(v)
             /\ owner[e] = "pevent_q" /\ e \notin Range(w) <=> e \in On(p)
  BY <1>3, <1>4, <1>5
<1>7. ASSUME NEW e \in Event, NEW q \in Queue
      PROVE  Cardinality({i \in DOMAIN Chain(q) : Chain(q)[i] = e})
               = IF owner[e] = q /\ e \notin Range(Walked) THEN 1 ELSE 0
  <2>1. CASE q = "free_q"
    <3>1. Cardinality({i \in DOMAIN f : f[i] = e}) = IF e \in On(f) THEN 1 ELSE 0
      BY Places
    <3> QED BY <1>2, <1>6, <2>1, <3>1
  <2>2. CASE q = "event_q"
    <3>1. Cardinality({i \in DOMAIN v : v[i] = e}) = IF e \in On(v) THEN 1 ELSE 0
      BY Places
    <3> QED BY <1>2, <1>6, <2>2, <3>1
  <2>3. CASE q = "pevent_q"
    <3>1. Cardinality({i \in DOMAIN p : p[i] = e}) = IF e \in On(p) THEN 1 ELSE 0
      BY Places
    <3> QED BY <1>2, <1>6, <2>3, <3>1
  <2> QED BY <2>1, <2>2, <2>3 DEF Queue
<1> QED BY <1>7 DEF EachInOnePlace

\* The events that a walk from the oldest to place n gives to fossil collection are those from place n on.
LEMMA OldestIs ==
  ASSUME NEW p \in Lists, NEW n \in 1 .. Len(p)
  PROVE  Range(Reverse(SubSeq(p, n, Len(p)))) = OldFrom(p, n)
<1> DEFINE s == SubSeq(p, n, Len(p))
<1>1. s \in Lists /\ On(s) = OldFrom(p, n) /\ Len(s) \in Nat
  <2>1. n \in 1 .. Len(p) + 1 /\ Len(p) \in n - 1 .. Len(p)
    BY DEF Lists
  <2>2. s \in Lists /\ On(s) = OldFrom(p, n)
    BY <2>1, Part DEF OldFrom
  <2> HIDE DEF s
  <2> QED BY <2>2 DEF Lists
<1> HIDE DEF s
<1>2. Range(Reverse(s)) = On(s)
  <2>1. DOMAIN Reverse(s) = 1 .. Len(s) /\ \A i \in 1 .. Len(s) : Reverse(s)[i] = s[(Len(s) - i) + 1]
    BY <1>1 DEF Reverse
  <2>2. \A i \in 1 .. Len(s) : (Len(s) - i) + 1 \in 1 .. Len(s) /\ (Len(s) - ((Len(s) - i) + 1)) + 1 = i
    BY <1>1
  <2>3. ASSUME NEW x \in Range(Reverse(s)) PROVE x \in On(s)
    <3>1. PICK i \in 1 .. Len(s) : x = Reverse(s)[i]
      BY <2>1 DEF Range
    <3> QED BY <2>1, <2>2, <3>1 DEF On
  <2>4. ASSUME NEW x \in On(s) PROVE x \in Range(Reverse(s))
    <3>1. PICK i \in 1 .. Len(s) : x = s[i]
      BY DEF On
    <3>2. x = Reverse(s)[(Len(s) - i) + 1] /\ (Len(s) - i) + 1 \in DOMAIN Reverse(s)
      BY <2>1, <2>2, <3>1
    <3> QED BY <3>2 DEF Range
  <2> QED BY <2>3, <2>4
<1> QED BY <1>1, <1>2 DEF s
=============================================================================

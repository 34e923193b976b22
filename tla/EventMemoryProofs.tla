-------------------------- MODULE EventMemoryProofs --------------------------
(***************************************************************************)
(* EventMemory for any number of buffers, any size of the arena and any    *)
(* programs: an event is always where its owner says and the pointers      *)
(* implement EventLists; the buddy blocks that are free or held partition  *)
(* the arena; only processed events carry anything; and undoing them gives *)
(* each the state it had found.                                            *)
(*                                                                         *)
(* First the lists, then the allocator (BuddyInv is its invariant, for     *)
(* blocks F that are free and H that are in use), then what the events     *)
(* carry (MemoryInv).                                                      *)
(***************************************************************************)
EXTENDS EventMemory, EventQProofs

\* The first lists are those of tw_eventq_alloc.
LEMMA ListsInit ==
  ASSUME Init
  PROVE  ListInv /\ L!Init
<1> DEFINE f == [i \in 1 .. N - 1 |-> i + 1]
<1>1. Good(m, owner, caused, nev, f, <<>>, <<>>, <<>>)
  BY AllocIs DEF Init
<1> HIDE DEF f
<1>2. f \in Lists /\ <<>> \in Lists
  BY <1>1, GoodLists
<1>3. Chain("free_q") = f /\ Chain("event_q") = <<>> /\ Chain("pevent_q") = <<>>
  BY <1>1, Chains
<1>4. IsInjective(f)
  BY <1>2, RangeOn
<1>5. L!Init
  BY <1>3, <1>4, SameOperators DEF L!Init
<1> QED BY <1>1, <1>2, <1>5 DEF ListInv

\* A step keeps the invariant, and is one of the abstract lists or leaves them.
LEMMA ListsStep ==
  ASSUME ListInv, [Next]_vars
  PROVE  ListInv' /\ [L!Next]_L!vars
<1>1. PICK f, v, p, w \in Lists : Good(m, owner, caused, nev, f, v, p, w)
  BY DEF ListInv
<1>2. CASE Receive
  BY <1>1, <1>2, ReceiveMaps
<1>3. CASE PopList
  BY <1>1, <1>3, PopListMaps
<1>4. CASE EnqueueNext
  BY <1>1, <1>4, EnqueueMaps
<1>5. ASSUME NEW e \in Event, CancelEvent(e) PROVE ListInv' /\ [L!Next]_L!vars
  BY <1>1, <1>5, CancelMaps DEF CancelEvent
<1>6. ASSUME NEW e \in Event, ProcessEvent(e) PROVE ListInv' /\ [L!Next]_L!vars
  BY <1>1, <1>6, ProcessMaps DEF ProcessEvent
<1>7. ASSUME NEW e \in Event, SendFinishEvent(e) PROVE ListInv' /\ [L!Next]_L!vars
  BY <1>1, <1>7, SendFinishMaps DEF SendFinishEvent
<1>8. ASSUME NEW n \in 1 .. Len(Chain("pevent_q")), FossilOldest(n) PROVE ListInv' /\ [L!Next]_L!vars
  <2>1. Chain("pevent_q") = p
    BY <1>1, Chains
  <2>2. Fossil(Range(Reverse(SubSeq(p, n, Len(p)))))
    BY <1>8, <2>1 DEF FossilOldest
  <2>3. n \in 1 .. Len(p) /\ Fossil(OldFrom(p, n))
    BY <1>8, <2>1, <2>2, OldestIs
  <2> QED BY <1>1, <2>3, FossilMaps
<1>9. CASE Rollback
  BY <1>1, <1>9, UndoMaps DEF Rollback
<1>10. CASE UNCHANGED vars
  <2>1. m' = m /\ owner' = owner /\ caused' = caused /\ nev' = nev
    BY <1>10 DEF vars, listVars
  <2>2. Good(m', owner', caused', nev', f, v, p, w)
    BY <1>1, <2>1
  <2>3. Chain("free_q")' = f /\ Chain("event_q")' = v /\ Chain("pevent_q")' = p
    BY <2>2, ChainsAfter
  <2>4. Chain("free_q") = f /\ Chain("event_q") = v /\ Chain("pevent_q") = p
    BY <1>1, Chains
  <2>5. UNCHANGED L!vars
    BY <2>3, <2>4 DEF L!vars
  <2> QED BY <2>2, <2>5 DEF ListInv
<1> QED BY <1>2, <1>3, <1>4, <1>5, <1>6, <1>7, <1>8, <1>9, <1>10 DEF Next, Stopped

\* No buffer is lost and none is on two lists, through whatever the pointers go.
THEOREM EachBufferInOnePlace == Spec => []EachInOnePlace
<1>1. Init => ListInv
  BY ListsInit
<1>2. ListInv /\ [Next]_vars => ListInv'
  BY ListsStep
<1>3. ListInv => EachInOnePlace
  BY PlacesOwned
<1> QED BY <1>1, <1>2, <1>3, PTL DEF Spec

\* The pointer operations do to the lists what the scheduler expects of them.
THEOREM PointersImplementLists == Spec => ImplementsLists
<1>1. Init => ListInv /\ L!Init
  BY ListsInit
<1>2. ListInv /\ [Next]_vars => ListInv' /\ [L!Next]_L!vars
  BY ListsStep
<1> QED BY <1>1, <1>2, PTL DEF Spec, ImplementsLists, L!Spec
-----------------------------------------------------------------------------
\* Quotient and remainder.
LEMMA QuotientIs ==
  ASSUME NEW d \in Nat \ {0}, NEW q \in Nat, NEW r \in 0 .. d - 1
  PROVE  (q * d + r) \div d = q
OBVIOUS

\* The factor d keeps an order.
LEMMA Scaled ==
  ASSUME NEW d \in Nat \ {0}, NEW x \in Int, NEW y \in Int
  PROVE  /\ x * d < y * d <=> x < y
         /\ x <= y => x * d <= y * d
OBVIOUS

\* What the recursive definition of the powers of two says.
LEMMA SizeIs ==
  /\ MaxOrder \in Nat /\ Size \in [0 .. MaxOrder -> Nat \ {0}] /\ Size[0] = 1
  /\ \A k \in 1 .. MaxOrder : Size[k] = 2 * Size[k - 1]
<1> DEFINE S == Nat \ {0}
           G == [x \in S |-> 2 * x]
<1>1. MaxOrder \in Nat /\ 1 \in S /\ G \in [S -> S]
  BY BuddyAssumption
<1>2. PICK f : Goes(f, MaxOrder, S, 1, G)
  <2> HIDE DEF S, G
  <2> QED BY <1>1, Recursion
<1>3. f \in [0 .. MaxOrder -> S] /\ f[0] = 1 /\ \A k \in 1 .. MaxOrder : f[k] = 2 * f[k - 1]
  <2>1. f \in [0 .. MaxOrder -> S] /\ f[0] = 1 /\ \A k \in 1 .. MaxOrder : f[k] = G[f[k - 1]]
    BY <1>2 DEF Goes
  <2>2. \A k \in 1 .. MaxOrder : k - 1 \in 0 .. MaxOrder
    BY <1>1
  <2> QED BY <2>1, <2>2
<1>4. f = [k \in 0 .. MaxOrder |-> IF k = 0 THEN 1 ELSE 2 * f[k - 1]]
  <2>1. \A k \in 0 .. MaxOrder : k # 0 => k \in 1 .. MaxOrder
    BY <1>1
  <2> QED BY <1>3, <2>1
<1>5. Size = [k \in 0 .. MaxOrder |-> IF k = 0 THEN 1 ELSE 2 * Size[k - 1]]
  BY <1>4, Zenon DEF Size
<1>6. Size[0] = 1 /\ \A k \in 1 .. MaxOrder : Size[k] = 2 * Size[k - 1]
  <2>1. 0 \in 0 .. MaxOrder /\ \A k \in 1 .. MaxOrder : k \in 0 .. MaxOrder /\ k # 0
    BY <1>1
  <2> QED BY <1>5, <2>1
<1> DEFINE T == {k \in 0 .. MaxOrder : Size[k] \in S}
<1>7. \A k \in 0 .. MaxOrder : k \in T
  <2>1. 0 \in T
    BY <1>1, <1>6
  <2>2. ASSUME NEW k \in 0 .. MaxOrder - 1, k \in T PROVE k + 1 \in T
    <3>1. k + 1 \in 1 .. MaxOrder /\ (k + 1) - 1 = k
      BY <1>1
    <3> QED BY <1>1, <1>6, <2>2, <3>1
  <2> HIDE DEF T
  <2> QED BY <1>1, <2>1, <2>2, UpTo
<1> QED BY <1>1, <1>5, <1>6, <1>7

\* The size of a larger order is a multiple of that of a smaller one.
LEMMA SizesDivide ==
  ASSUME NEW k \in Order, NEW j \in Order, k <= j
  PROVE  \E v \in Nat \ {0} : Size[j] = v * Size[k]
<1> DEFINE n == j - k
           T == {i \in 0 .. n : \E v \in Nat \ {0} : Size[k + i] = v * Size[k]}
<1>1. MaxOrder \in Nat /\ k \in Nat /\ j \in Nat /\ n \in Nat /\ j <= MaxOrder /\ Size[k] \in Nat
  BY SizeIs DEF Order
<1>2. 0 \in T
  <2>1. k + 0 = k /\ Size[k] = 1 * Size[k]
    BY <1>1
  <2> QED BY <1>1, <2>1
<1>3. ASSUME NEW i \in 0 .. n - 1, i \in T PROVE i + 1 \in T
  <2>1. PICK v \in Nat \ {0} : Size[k + i] = v * Size[k]
    BY <1>3
  <2>2. k + (i + 1) \in 1 .. MaxOrder /\ (k + (i + 1)) - 1 = k + i /\ i + 1 \in 0 .. n
    BY <1>1
  <2>3. Size[k + (i + 1)] = 2 * Size[k + i]
    BY <2>2, SizeIs
  <2>4. 2 * v \in Nat \ {0} /\ 2 * (v * Size[k]) = (2 * v) * Size[k]
    BY <1>1
  <2> QED BY <2>1, <2>2, <2>3, <2>4
<1>4. n \in T
  <2> HIDE DEF T
  <2>1. \A i \in 0 .. n : i \in T
    BY <1>1, <1>2, <1>3, UpTo
  <2> QED BY <1>1, <2>1
<1>5. k + n = j
  BY <1>1
<1> QED BY <1>4, <1>5

\* An order is known from its size.
LEMMA SizesDiffer ==
  ASSUME NEW k \in Order, NEW j \in Order, Size[j] = Size[k]
  PROVE  j = k
<1>1. ASSUME NEW a \in Order, NEW c \in Order, a < c PROVE Size[a] # Size[c]
  <2>1. a + 1 \in Order /\ a + 1 <= c /\ a + 1 \in 1 .. MaxOrder /\ (a + 1) - 1 = a
    BY <1>1, SizeIs DEF Order
  <2>2. PICK v \in Nat \ {0} : Size[c] = v * Size[a + 1]
    BY <2>1, SizesDivide
  <2>3. Size[a + 1] = 2 * Size[a] /\ Size[a] \in Nat \ {0}
    BY <2>1, SizeIs DEF Order
  <2> DEFINE s == Size[a]
  <2>4. v * (2 * s) >= 2 * s
    <3>1. s \in Nat \ {0} /\ v >= 1
      BY <2>3
    <3> HIDE DEF s
    <3> QED BY <3>1
  <2> QED BY <2>2, <2>3, <2>4
<1>2. j \in Int /\ k \in Int
  BY DEF Order
<1> QED BY <1>1, <1>2
-----------------------------------------------------------------------------
\* The block of order k at o, and the blocks that the allocator may have: at
\* multiples of their size.
Blk(o, k) == [at |-> o, order |-> k]
Blocks == {x \in [at : Arena, order : Order] :
             /\ \E i \in Nat : x.at = i * Size[x.order]
             /\ x.at + Size[x.order] <= Size[MaxOrder]}

\* The buddy of a block, and the block that both are the halves of.
Buddy(x) == Blk(BuddyOf(x.at, x.order), x.order)
Parent(x) == Blk(Min({x.at, BuddyOf(x.at, x.order)}), x.order + 1)

\* A block and its halves.
AreHalves(p, x, y) ==
  /\ x.order = y.order /\ p.order = x.order + 1 /\ Size[p.order] = 2 * Size[x.order]
  /\ p.at = x.at /\ y.at = x.at + Size[x.order]

\* The fields of a block.
LEMMA BlkIs ==
  ASSUME NEW o, NEW k
  PROVE  Blk(o, k).at = o /\ Blk(o, k).order = k
BY DEF Blk

\* What there is to know of a block.
LEMMA BlockIs ==
  ASSUME NEW x \in Blocks
  PROVE  /\ x = Blk(x.at, x.order) /\ x.at \in Nat /\ x.at \in Arena /\ x.order \in Order /\ x.order \in Nat
         /\ Size[x.order] \in Nat \ {0} /\ Size[MaxOrder] \in Nat \ {0} /\ MaxOrder \in Nat
         /\ x.order <= MaxOrder /\ x.at + Size[x.order] <= Size[MaxOrder]
         /\ x.at \in Units(x) /\ Units(x) \subseteq Arena
<1>1. /\ x \in [at : Arena, order : Order] /\ x.at + Size[x.order] <= Size[MaxOrder]
      /\ MaxOrder \in Nat /\ Size \in [0 .. MaxOrder -> Nat \ {0}]
  BY SizeIs DEF Blocks
<1>2. x.order \in 0 .. MaxOrder /\ x.at \in Nat
  BY <1>1 DEF Order, Arena
<1>3. Size[x.order] \in Nat \ {0} /\ Size[MaxOrder] \in Nat \ {0}
  BY <1>1, <1>2
<1>4. x.at \in Units(x) /\ Units(x) \subseteq Arena
  BY <1>1, <1>2, <1>3 DEF Units, Arena
<1>5. x = Blk(x.at, x.order)
  BY <1>1 DEF Blk
<1> QED BY <1>1, <1>2, <1>3, <1>4, <1>5

\* Whether a multiple of s is an even one.
LEMMA BuddyOfIs ==
  ASSUME NEW k \in Order, NEW i \in Nat
  PROVE  BuddyOf(i * Size[k], k) = IF i % 2 = 0 THEN i * Size[k] + Size[k] ELSE i * Size[k] - Size[k]
<1> DEFINE s == Size[k]
<1>1. s \in Nat \ {0}
  BY SizeIs DEF Order
<1>2. BuddyOf(i * s, k) = IF ((i * s) \div s) % 2 = 0 THEN i * s + s ELSE i * s - s
  BY DEF BuddyOf
<1> HIDE DEF s
<1>3. (i * s + 0) \div s = i
  BY <1>1, QuotientIs
<1>4. i * s + 0 = i * s
  BY <1>1
<1> QED BY <1>2, <1>3, <1>4 DEF s

\* The lesser of two numbers.
LEMMA MinOf ==
  ASSUME NEW x \in Int, NEW y \in Int
  PROVE  Min({x, y}) = IF x <= y THEN x ELSE y
<1> DEFINE z == IF x <= y THEN x ELSE y
<1>1. z \in {x, y} /\ \A u \in {x, y} : z <= u
  OBVIOUS
<1>2. \A v \in {x, y} : (\A u \in {x, y} : v <= u) => v = z
  OBVIOUS
<1> HIDE DEF z
<1>3. Min({x, y}) = CHOOSE v \in {x, y} : \A u \in {x, y} : v <= u
  BY DEF Min
<1>4. Min({x, y}) \in {x, y} /\ \A u \in {x, y} : Min({x, y}) <= u
  BY <1>1, <1>3
<1> QED BY <1>2, <1>4 DEF z

\* Of a block and its buddy each is that of the other, and they are the halves
\* of their parent.
LEMMA BuddyIs ==
  ASSUME NEW x \in Blocks, x.order < MaxOrder
  PROVE  /\ Buddy(x) \in Blocks /\ Buddy(Buddy(x)) = x /\ Buddy(x).order = x.order /\ Buddy(x).at # x.at
         /\ Parent(x) \in Blocks
         /\ AreHalves(Parent(x), x, Buddy(x)) \/ AreHalves(Parent(x), Buddy(x), x)
<1> DEFINE k == x.order
           s == Size[k]
           e == Size[MaxOrder]
<1>1. /\ x = Blk(x.at, k) /\ k \in Order /\ k \in Nat /\ MaxOrder \in Nat /\ k + 1 \in Order /\ k <= MaxOrder
      /\ s \in Nat \ {0} /\ e \in Nat \ {0} /\ x.at + s <= e /\ k + 1 \in 1 .. MaxOrder /\ (k + 1) - 1 = k
  BY BlockIs DEF Order
<1>2. PICK i \in Nat : x.at = i * s
  BY DEF Blocks
<1>3. Size[k + 1] = 2 * s
  BY <1>1, SizeIs
<1>4. PICK v \in Nat \ {0} : e = v * Size[k + 1]
  <2>1. MaxOrder \in Order /\ k + 1 <= MaxOrder
    BY <1>1 DEF Order
  <2> QED BY <1>1, <2>1, SizesDivide
<1>5. BuddyOf(x.at, k) = IF i % 2 = 0 THEN i * s + s ELSE i * s - s
  BY <1>1, <1>2, BuddyOfIs
<1>6. Buddy(x) = Blk(BuddyOf(x.at, k), k) /\ Parent(x) = Blk(Min({x.at, BuddyOf(x.at, k)}), k + 1)
  BY DEF Buddy, Parent
<1>7. Arena = 0 .. e - 1
  BY DEF Arena
<1>8. \A j \in Nat : BuddyOf(j * s, k) = IF j % 2 = 0 THEN j * s + s ELSE j * s - s
  BY <1>1, BuddyOfIs
<1> HIDE DEF k, s, e
<1>9. ASSUME NEW j \in Nat, j % 2 = 0, (j + 1) * s <= e
      PROVE  /\ Blk(j * s, k) \in Blocks /\ Blk((j + 1) * s, k) \in Blocks /\ Blk(j * s, k + 1) \in Blocks
             /\ BuddyOf(j * s, k) = (j + 1) * s /\ BuddyOf((j + 1) * s, k) = j * s
             /\ (j + 1) * s = j * s + s /\ j * s \in Nat /\ j * s < (j + 1) * s
  <2>1. PICK h \in Nat : j = 2 * h
    BY <1>9
  <2>2. (j + 2) * s <= e
    <3>1. e = (2 * v) * s /\ j + 1 \in Int /\ 2 * v \in Int /\ j + 2 \in Int
      BY <1>1, <1>3, <1>4
    <3>2. j + 1 <= 2 * v
      BY <1>1, <1>9, <3>1, Scaled
    <3>3. j + 2 <= 2 * v
      BY <2>1, <3>2
    <3> QED BY <1>1, <3>1, <3>3, Scaled
  <2>3. (j + 1) * s = j * s + s /\ (j + 2) * s = j * s + 2 * s /\ j * s \in Nat /\ j * s = h * (2 * s)
    BY <1>1, <2>1
  <2>4. (j + 1) % 2 # 0 /\ j + 1 \in Nat
    BY <2>1
  <2>5. BuddyOf(j * s, k) = (j + 1) * s /\ BuddyOf((j + 1) * s, k) = j * s
    <3>1. BuddyOf(j * s, k) = (j + 1) * s
      BY <1>8, <1>9, <2>3
    <3>2. BuddyOf((j + 1) * s, k) = (j + 1) * s - s
      BY <1>8, <2>4
    <3>3. (j + 1) * s - s = j * s
      BY <1>1, <2>3
    <3> QED BY <3>1, <3>2, <3>3
  <2>6. Blk(j * s, k) \in Blocks
    <3>1. j * s \in Arena /\ j * s + s <= e
      BY <1>1, <1>7, <1>9, <2>3
    <3> QED BY <1>1, <3>1 DEF Blocks, Blk, s, e
  <2>7. Blk((j + 1) * s, k) \in Blocks
    <3>1. (j + 1) * s \in Arena /\ (j + 1) * s + s <= e
      BY <1>1, <1>7, <2>2, <2>3
    <3> QED BY <1>1, <2>4, <3>1 DEF Blocks, Blk, s, e
  <2>8. Blk(j * s, k + 1) \in Blocks
    <3>1. j * s \in Arena /\ j * s + Size[k + 1] <= e /\ j * s = h * Size[k + 1]
      BY <1>1, <1>3, <1>7, <2>2, <2>3
    <3> QED BY <1>1, <3>1 DEF Blocks, Blk, e
  <2> QED BY <1>1, <2>3, <2>5, <2>6, <2>7, <2>8
<1>10. CASE i % 2 = 0
  <2>1. (i + 1) * s <= e
    BY <1>1, <1>2
  <2>2. /\ x = Blk(i * s, k) /\ Buddy(x) = Blk((i + 1) * s, k) /\ Buddy(x) \in Blocks
        /\ Blk(i * s, k + 1) \in Blocks /\ BuddyOf((i + 1) * s, k) = i * s /\ (i + 1) * s = i * s + s
        /\ i * s \in Nat /\ i * s < (i + 1) * s
    BY <1>1, <1>2, <1>6, <1>9, <1>10, <2>1
  <2>3. Parent(x) = Blk(i * s, k + 1)
    <3>1. Min({i * s, (i + 1) * s}) = i * s
      BY <1>1, <2>2, MinOf
    <3> QED BY <1>2, <1>6, <1>9, <1>10, <2>1, <3>1
  <2>4. Buddy(Buddy(x)) = x
    BY <2>2, BlkIs DEF Buddy
  <2>5. AreHalves(Parent(x), x, Buddy(x))
    BY <1>1, <1>3, <2>2, <2>3, BlkIs DEF AreHalves, s
  <2> QED BY <1>1, <1>2, <2>2, <2>3, <2>4, <2>5, BlkIs DEF k
<1>11. CASE i % 2 # 0
  <2> DEFINE j == i - 1
  <2>1. j \in Nat /\ j % 2 = 0 /\ j + 1 = i
    BY <1>11
  <2>2. (j + 1) * s <= e
    BY <1>1, <1>2, <2>1
  <2> HIDE DEF j
  <2>3. /\ x = Blk((j + 1) * s, k) /\ Buddy(x) = Blk(j * s, k) /\ Buddy(x) \in Blocks
        /\ Blk(j * s, k + 1) \in Blocks /\ BuddyOf(j * s, k) = (j + 1) * s /\ (j + 1) * s = j * s + s
        /\ j * s \in Nat /\ j * s < (j + 1) * s
    BY <1>1, <1>2, <1>6, <1>9, <2>1, <2>2
  <2>4. Parent(x) = Blk(j * s, k + 1)
    <3>1. Min({(j + 1) * s, j * s}) = j * s
      BY <1>1, <2>3, MinOf
    <3> QED BY <1>2, <1>6, <1>9, <2>1, <2>2, <3>1
  <2>5. Buddy(Buddy(x)) = x
    BY <2>3, BlkIs DEF Buddy
  <2>6. AreHalves(Parent(x), Buddy(x), x)
    BY <1>1, <1>3, <2>3, <2>4, BlkIs DEF AreHalves, s
  <2> QED BY <1>1, <1>2, <2>1, <2>3, <2>4, <2>5, <2>6, BlkIs DEF k
<1> QED BY <1>10, <1>11

\* The largest block is alone.
LEMMA TopIs ==
  ASSUME NEW x \in Blocks, x.order = MaxOrder
  PROVE  x.at = 0 /\ BuddyOf(x.at, x.order) \notin Arena
<1> DEFINE e == Size[MaxOrder]
<1>1. e \in Nat \ {0} /\ x.at \in Nat /\ x.at + e <= e /\ MaxOrder \in Order
  BY BlockIs DEF Order
<1>2. PICK i \in Nat : x.at = i * e
  BY DEF Blocks
<1>3. Arena = 0 .. e - 1
  BY DEF Arena
<1>4. BuddyOf(i * e, MaxOrder) = IF i % 2 = 0 THEN i * e + e ELSE i * e - e
  BY <1>1, BuddyOfIs
<1> HIDE DEF e
<1>5. x.at = 0
  BY <1>1
<1>6. i = 0
  BY <1>1, <1>2, <1>5
<1>7. i % 2 = 0 /\ i * e + e = e
  BY <1>1, <1>6
<1> QED BY <1>1, <1>2, <1>3, <1>4, <1>5, <1>7

\* Any block but the smallest can be split.
LEMMA HalvesAre ==
  ASSUME NEW x \in Blocks, x.order # 0, NEW lo, lo = Blk(x.at, x.order - 1),
         NEW hi, hi = Blk(x.at + Size[x.order - 1], x.order - 1)
  PROVE  lo \in Blocks /\ hi \in Blocks /\ AreHalves(x, lo, hi) /\ Buddy(lo) = hi /\ Buddy(hi) = lo
<1> DEFINE k == x.order - 1
           s == Size[k]
           e == Size[MaxOrder]
<1>1. /\ x.order \in 1 .. MaxOrder /\ k \in Order /\ k \in Nat /\ x.order = k + 1 /\ x.at \in Nat
      /\ e \in Nat \ {0} /\ x.at + Size[x.order] <= e
  BY BlockIs DEF Order
<1>2. Size[x.order] = 2 * s /\ s \in Nat \ {0}
  BY <1>1, SizeIs DEF Order
<1>3. PICK i \in Nat : x.at = i * Size[x.order]
  BY DEF Blocks
<1>4. Arena = 0 .. e - 1
  BY DEF Arena
<1>5. \A j \in Nat : BuddyOf(j * s, k) = IF j % 2 = 0 THEN j * s + s ELSE j * s - s
  BY <1>1, BuddyOfIs
<1>6. lo = Blk(x.at, k) /\ hi = Blk(x.at + s, k)
  OBVIOUS
<1> HIDE DEF k, s, e
<1>7. /\ x.at = (2 * i) * s /\ x.at + s = (2 * i + 1) * s /\ x.at \in Arena /\ x.at + s \in Arena
      /\ x.at + s <= e /\ x.at + s + s <= e
  BY <1>1, <1>2, <1>3, <1>4
<1>8. lo \in Blocks
  <2>1. 2 * i \in Nat /\ x.at = (2 * i) * s
    BY <1>7
  <2> QED BY <1>1, <1>6, <1>7, <2>1 DEF Blocks, Blk, s, e
<1>9. hi \in Blocks
  <2>1. 2 * i + 1 \in Nat /\ x.at + s = (2 * i + 1) * s
    BY <1>7
  <2> QED BY <1>1, <1>6, <1>7, <2>1 DEF Blocks, Blk, s, e
<1>10. BuddyOf(x.at, k) = x.at + s
  <2>1. 2 * i \in Nat /\ (2 * i) % 2 = 0
    OBVIOUS
  <2> QED BY <1>5, <1>7, <2>1
<1>11. BuddyOf(x.at + s, k) = x.at
  <2>1. 2 * i + 1 \in Nat /\ (2 * i + 1) % 2 # 0
    OBVIOUS
  <2>2. BuddyOf((2 * i + 1) * s, k) = (2 * i + 1) * s - s
    BY <1>5, <2>1
  <2> QED BY <1>1, <1>2, <1>7, <2>2
<1>12. Buddy(lo) = hi /\ Buddy(hi) = lo
  BY <1>6, <1>10, <1>11, BlkIs DEF Buddy
<1>13. AreHalves(x, lo, hi)
  BY <1>1, <1>2, <1>6, BlkIs DEF AreHalves, s
<1> QED BY <1>8, <1>9, <1>12, <1>13
-----------------------------------------------------------------------------
\* The blocks of P cover the arena and do not overlap.
IsPartition(P) ==
  /\ P \subseteq Blocks
  /\ \A y \in Arena : \E x \in P : y \in Units(x)
  /\ \A x, z \in P : Units(x) \cap Units(z) # {} => x = z

\* The units of a block are those of its halves.
LEMMA HalfUnits ==
  ASSUME NEW p \in Blocks, NEW x \in Blocks, NEW y \in Blocks, AreHalves(p, x, y)
  PROVE  Units(p) = Units(x) \cup Units(y) /\ Units(x) \cap Units(y) = {} /\ x # y /\ p # x /\ p # y
<1> DEFINE s == Size[x.order]
<1>1. /\ s \in Nat \ {0} /\ x.at \in Nat /\ p.at = x.at /\ y.at = x.at + s /\ Size[p.order] = 2 * s /\ y.order = x.order
      /\ p.order = x.order + 1 /\ x.order \in Nat
  BY BlockIs DEF AreHalves
<1>2. Units(p) = x.at .. x.at + 2 * s - 1 /\ Units(x) = x.at .. x.at + s - 1 /\ Units(y) = x.at + s .. x.at + s + s - 1
  BY <1>1 DEF Units
<1> HIDE DEF s
<1>3. Units(p) = Units(x) \cup Units(y) /\ Units(x) \cap Units(y) = {}
  BY <1>1, <1>2
<1> QED BY <1>1, <1>3

\* A block may be replaced by its halves.
LEMMA Splits ==
  ASSUME NEW P, IsPartition(P), NEW p \in P, NEW x \in Blocks, NEW y \in Blocks, AreHalves(p, x, y)
  PROVE  IsPartition((P \ {p}) \cup {x, y}) /\ x \notin P /\ y \notin P
<1>1. p \in Blocks /\ P \subseteq Blocks
  BY DEF IsPartition
<1>2. Units(p) = Units(x) \cup Units(y) /\ Units(x) \cap Units(y) = {} /\ p # x /\ p # y
  BY <1>1, HalfUnits
<1>3. x.at \in Units(x) /\ y.at \in Units(y)
  BY BlockIs
<1>4. \A z \in P : z # p => Units(z) \cap Units(p) = {}
  BY DEF IsPartition
<1>5. x \notin P /\ y \notin P
  BY <1>2, <1>3, <1>4
<1>6. \A z \in P \ {p} : Units(z) \cap Units(x) = {} /\ Units(z) \cap Units(y) = {}
  BY <1>2, <1>4
<1> QED BY <1>1, <1>2, <1>5, <1>6 DEF IsPartition

\* Halves may be replaced by the block.
LEMMA Unites ==
  ASSUME NEW P, IsPartition(P), NEW x \in P, NEW y \in P, NEW p \in Blocks, AreHalves(p, x, y)
  PROVE  IsPartition((P \ {x, y}) \cup {p}) /\ p \notin P
<1>1. x \in Blocks /\ y \in Blocks /\ P \subseteq Blocks
  BY DEF IsPartition
<1>2. Units(p) = Units(x) \cup Units(y) /\ p # x /\ p # y
  BY <1>1, HalfUnits
<1>3. x.at \in Units(x) /\ y.at \in Units(y)
  BY <1>1, BlockIs
<1>4. \A z \in P : (z # x => Units(z) \cap Units(x) = {}) /\ (z # y => Units(z) \cap Units(y) = {})
  BY DEF IsPartition
<1>5. p \notin P
  BY <1>2, <1>3, <1>4
<1>6. \A z \in P \ {x, y} : Units(z) \cap Units(p) = {}
  BY <1>2, <1>4
<1> DEFINE R == (P \ {x, y}) \cup {p}
<1>7. R \subseteq Blocks
  BY <1>1
<1>8. ASSUME NEW u \in Arena PROVE \E z \in R : u \in Units(z)
  <2>1. PICK z \in P : u \in Units(z)
    BY DEF IsPartition
  <2>2. CASE z = x \/ z = y
    BY <1>2, <2>1, <2>2
  <2>3. CASE z # x /\ z # y
    BY <2>1, <2>3
  <2> QED BY <2>2, <2>3
<1>9. \A u, z \in R : Units(u) \cap Units(z) # {} => u = z
  BY <1>6 DEF IsPartition
<1> HIDE DEF R
<1>10. IsPartition(R)
  BY <1>7, <1>8, <1>9 DEF IsPartition
<1> QED BY <1>5, <1>10 DEF R

\* Where the buddy of a block would be a block begins that is no larger: what is
\* there is a header.
LEMMA BuddyStarts ==
  ASSUME NEW P, IsPartition(P), NEW x \in P, x.order < MaxOrder
  PROVE  \E c \in P : c # x /\ c.at = Buddy(x).at /\ c.order <= x.order
<1> DEFINE g == Buddy(x)
           p == Parent(x)
<1>1. x \in Blocks /\ P \subseteq Blocks
  BY DEF IsPartition
<1>2. g \in Blocks /\ p \in Blocks /\ g.order = x.order /\ g.at # x.at /\ (AreHalves(p, x, g) \/ AreHalves(p, g, x))
  BY <1>1, BuddyIs
<1> HIDE DEF g, p
<1>3. g.at \in Arena /\ g.at \in Units(g)
  BY <1>2, BlockIs
<1>4. PICK c \in P : g.at \in Units(c)
  BY <1>3 DEF IsPartition
<1>5. c \in Blocks
  BY <1>1, <1>4
<1>6. Units(p) = Units(x) \cup Units(g) /\ Units(x) \cap Units(g) = {}
  BY <1>1, <1>2, HalfUnits
<1>7. c # x
  BY <1>3, <1>4, <1>6
<1>8. PICK i \in Nat : c.at = i * Size[c.order]
  BY <1>5 DEF Blocks
<1>9. PICK j \in Nat : g.at = j * Size[g.order]
  BY <1>2 DEF Blocks
<1>10. PICK h \in Nat : p.at = h * Size[p.order]
  BY <1>2 DEF Blocks
<1>11. /\ c.order \in Order /\ x.order \in Order /\ p.order \in Order /\ c.order \in Nat /\ x.order \in Nat
       /\ Size[c.order] \in Nat \ {0} /\ Size[x.order] \in Nat \ {0} /\ Size[p.order] \in Nat \ {0}
       /\ p.order = x.order + 1 /\ Size[p.order] = 2 * Size[x.order] /\ g.at \in Nat
  BY <1>1, <1>2, <1>5, BlockIs DEF AreHalves
<1>12. c.at <= g.at /\ g.at < c.at + Size[c.order]
  BY <1>4, <1>5, <1>11, BlockIs DEF Units
<1>13. c.order <= x.order
  <2>1. SUFFICES ASSUME x.order < c.order PROVE FALSE
    BY <1>11
  <2>2. PICK v \in Nat \ {0} : Size[c.order] = v * Size[p.order]
    BY <1>11, <2>1, SizesDivide
  <2> DEFINE s == Size[p.order]
  <2>3. p.at <= g.at /\ g.at < p.at + s
    BY <1>2, <1>11, BlockIs DEF AreHalves
  <2>4. s \in Nat \ {0} /\ p.at = h * s /\ c.at = i * (v * s) /\ Size[c.order] = v * s
    BY <1>8, <1>10, <1>11, <2>2
  <2> HIDE DEF s
  <2>5. c.at = (i * v) * s /\ c.at + v * s = (i * v + v) * s /\ p.at + s = (h + 1) * s
    BY <2>4
  <2>6. (i * v) * s < (h + 1) * s /\ h * s < (i * v + v) * s
    BY <1>11, <1>12, <2>3, <2>4, <2>5
  <2>7. i * v < h + 1 /\ h < i * v + v
    <3>1. i * v \in Int /\ h + 1 \in Int /\ h \in Int /\ i * v + v \in Int
      OBVIOUS
    <3> QED BY <2>4, <2>6, <3>1, Scaled
  <2>8. (i * v) * s <= h * s /\ (h + 1) * s <= (i * v + v) * s
    <3>1. i * v \in Int /\ h + 1 \in Int /\ h \in Int /\ i * v + v \in Int
      OBVIOUS
    <3>2. i * v <= h /\ h + 1 <= i * v + v
      BY <2>7, <3>1
    <3> QED BY <2>4, <3>1, <3>2, Scaled
  <2>9. c.at <= p.at /\ p.at + s <= c.at + Size[c.order] /\ c.at \in Nat /\ p.at \in Nat
    BY <1>2, <1>5, <2>4, <2>5, <2>8, BlockIs
  <2>10. Units(p) \subseteq Units(c)
    BY <1>11, <2>4, <2>9 DEF Units, s
  <2>11. x.at \in Units(x)
    BY <1>1, BlockIs
  <2> QED BY <1>6, <1>7, <2>10, <2>11 DEF IsPartition
<1>14. c.at = g.at
  <2>1. PICK v \in Nat \ {0} : Size[x.order] = v * Size[c.order]
    BY <1>11, <1>13, SizesDivide
  <2> DEFINE s == Size[c.order]
  <2>2. s \in Nat \ {0} /\ c.at = i * s /\ g.at = j * (v * s)
    BY <1>2, <1>8, <1>9, <1>11, <2>1
  <2>3. c.at + s = (i + 1) * s /\ g.at = (j * v) * s /\ g.at < c.at + s
    <3>1. g.at < c.at + s
      BY <1>12
    <3> HIDE DEF s
    <3> QED BY <2>2, <3>1
  <2> HIDE DEF s
  <2>4. i * s <= (j * v) * s /\ (j * v) * s < (i + 1) * s
    BY <1>12, <2>2, <2>3
  <2>5. j * v < i + 1 /\ ~(j * v < i)
    <3>1. j * v \in Int /\ i + 1 \in Int /\ i \in Int
      OBVIOUS
    <3>2. j * v < i + 1
      BY <2>2, <2>4, <3>1, Scaled
    <3>3. ~((j * v) * s < i * s)
      BY <2>2, <2>4, <3>1
    <3> QED BY <2>2, <3>1, <3>2, <3>3, Scaled
  <2>6. j * v = i
    <3>1. j * v \in Int
      OBVIOUS
    <3> QED BY <2>5, <3>1
  <2> QED BY <2>2, <2>3, <2>6
<1> QED BY <1>7, <1>13, <1>14 DEF g
-----------------------------------------------------------------------------
\* A sequence without repetition.
Distinct(s) == \A i, j \in 1 .. Len(s) : s[i] = s[j] => i = j

\* A sequence without its d-th element.
LEMMA TakenOut ==
  ASSUME NEW T, NEW s \in Seq(T), Distinct(s), NEW d \in 1 .. Len(s)
  PROVE  /\ RemoveAt(s, d) \in Seq(T) /\ Distinct(RemoveAt(s, d)) /\ Len(s) \in Nat
         /\ Len(RemoveAt(s, d)) = Len(s) - 1 /\ On(RemoveAt(s, d)) = On(s) \ {s[d]}
<1> DEFINE t == SubSeq(s, 1, d - 1)
           v == SubSeq(s, d + 1, Len(s))
           u == t \o v
           n == Len(s)
<1>1. n \in Nat /\ d \in 1 .. n /\ \A i \in 1 .. n : s[i] \in T
  OBVIOUS
<1>2. t \in Seq(T) /\ Len(t) = d - 1 /\ \A i \in 1 .. d - 1 : t[i] = s[i]
  <2>1. \A i \in 1 .. d - 1 : s[i] \in T
    BY <1>1
  <2>2. /\ t \in Seq(T) /\ Len(t) = IF 1 <= d - 1 THEN (d - 1) - 1 + 1 ELSE 0
        /\ \A i \in 1 .. (d - 1) - 1 + 1 : t[i] = s[1 + i - 1]
    BY <1>1, <2>1, SubSeqProperties
  <2>3. \A i \in 1 .. d - 1 : i \in 1 .. (d - 1) - 1 + 1 /\ 1 + i - 1 = i
    BY <1>1
  <2> HIDE DEF t
  <2>4. Len(t) = d - 1
    BY <1>1, <2>2
  <2> QED BY <2>2, <2>3, <2>4
<1>3. v \in Seq(T) /\ Len(v) = n - d /\ \A i \in 1 .. n - d : v[i] = s[d + i]
  <2>1. \A i \in d + 1 .. n : s[i] \in T
    BY <1>1
  <2>2. /\ v \in Seq(T) /\ Len(v) = IF d + 1 <= n THEN n - (d + 1) + 1 ELSE 0
        /\ \A i \in 1 .. n - (d + 1) + 1 : v[i] = s[(d + 1) + i - 1]
    BY <1>1, <2>1, SubSeqProperties
  <2>3. \A i \in 1 .. n - d : i \in 1 .. n - (d + 1) + 1 /\ (d + 1) + i - 1 = d + i
    BY <1>1
  <2> HIDE DEF v
  <2>4. Len(v) = n - d
    BY <1>1, <2>2
  <2> QED BY <2>2, <2>3, <2>4
<1>4. RemoveAt(s, d) = u
  BY DEF RemoveAt
<1> HIDE DEF t, v
<1>5. /\ u \in Seq(T) /\ Len(u) = Len(t) + Len(v)
      /\ \A i \in 1 .. Len(t) + Len(v) : u[i] = IF i <= Len(t) THEN t[i] ELSE v[i - Len(t)]
  BY <1>2, <1>3, ConcatProperties
<1> HIDE DEF u
<1>6. Len(u) = n - 1 /\ n - 1 \in Nat
  BY <1>1, <1>2, <1>3, <1>5
<1>7. ASSUME NEW i \in 1 .. n - 1 PROVE u[i] = IF i < d THEN s[i] ELSE s[i + 1]
  <2>1. i \in 1 .. Len(t) + Len(v)
    BY <1>1, <1>2, <1>3
  <2>2. CASE i < d
    <3>1. i \in 1 .. d - 1 /\ i <= Len(t)
      BY <1>1, <1>2, <2>2
    <3> QED BY <1>2, <1>5, <2>1, <2>2, <3>1
  <2>3. CASE ~(i < d)
    <3>1. ~(i <= Len(t)) /\ i - Len(t) \in 1 .. n - d /\ d + (i - Len(t)) = i + 1
      BY <1>1, <1>2, <2>3
    <3> QED BY <1>3, <1>5, <2>1, <2>3, <3>1
  <2> QED BY <2>2, <2>3
<1>8. ASSUME NEW i \in 1 .. n - 1, NEW j \in 1 .. n - 1, u[i] = u[j] PROVE i = j
  <2>1. /\ i \in 1 .. n /\ i + 1 \in 1 .. n /\ j \in 1 .. n /\ j + 1 \in 1 .. n
        /\ u[i] = (IF i < d THEN s[i] ELSE s[i + 1]) /\ u[j] = (IF j < d THEN s[j] ELSE s[j + 1])
    BY <1>1, <1>7
  <2> DEFINE y == IF i < d THEN i ELSE i + 1
             z == IF j < d THEN j ELSE j + 1
  <2>2. y \in 1 .. n /\ z \in 1 .. n /\ s[y] = u[i] /\ s[z] = u[j]
    BY <2>1
  <2>3. (y = z) => i = j
    BY <1>1
  <2> HIDE DEF y, z
  <2>4. y = z
    BY <1>8, <2>2 DEF Distinct, n
  <2> QED BY <2>3, <2>4
<1>9. Distinct(u)
  BY <1>6, <1>8 DEF Distinct
<1>10. On(u) = On(s) \ {s[d]}
  <2>1. ASSUME NEW i \in 1 .. n - 1 PROVE u[i] \in On(s) /\ u[i] # s[d]
    <3>1. i \in 1 .. n /\ i + 1 \in 1 .. n /\ u[i] = (IF i < d THEN s[i] ELSE s[i + 1])
      BY <1>1, <1>7
    <3>2. CASE i < d
      BY <1>1, <3>1, <3>2 DEF On, Distinct
    <3>3. CASE ~(i < d)
      BY <1>1, <3>1, <3>3 DEF On, Distinct
    <3> QED BY <3>2, <3>3
  <2>2. ASSUME NEW i \in 1 .. n, s[i] # s[d] PROVE s[i] \in On(u)
    <3>1. i # d
      BY <2>2
    <3>2. CASE i < d
      <4>1. i \in 1 .. n - 1
        BY <1>1, <3>2
      <4> QED BY <1>6, <1>7, <3>2, <4>1 DEF On
    <3>3. CASE ~(i < d)
      <4>1. i - 1 \in 1 .. n - 1 /\ ~(i - 1 < d) /\ (i - 1) + 1 = i
        BY <1>1, <3>1, <3>3
      <4>2. u[i - 1] = s[i]
        BY <1>7, <4>1
      <4> QED BY <1>6, <4>1, <4>2 DEF On
    <3> QED BY <3>2, <3>3
  <2> QED BY <1>6, <2>1, <2>2 DEF On
<1> QED BY <1>1, <1>4, <1>5, <1>6, <1>9, <1>10

\* A sequence with one more element before it.
LEMMA PutBefore ==
  ASSUME NEW T, NEW s \in Seq(T), Distinct(s), NEW x \in T, x \notin On(s)
  PROVE  /\ <<x>> \o s \in Seq(T) /\ Distinct(<<x>> \o s) /\ Len(s) \in Nat
         /\ Len(<<x>> \o s) = Len(s) + 1 /\ On(<<x>> \o s) = On(s) \cup {x} /\ Head(<<x>> \o s) = x
<1> DEFINE u == <<x>> \o s
           n == Len(s)
<1>1. n \in Nat /\ <<x>> \in Seq(T) /\ Len(<<x>>) = 1 /\ <<x>>[1] = x
  OBVIOUS
<1>2. /\ u \in Seq(T) /\ Len(u) = 1 + n
      /\ \A i \in 1 .. 1 + n : u[i] = IF i <= 1 THEN <<x>>[i] ELSE s[i - 1]
  BY <1>1, ConcatProperties
<1> HIDE DEF u
<1>3. u[1] = x /\ Len(u) = n + 1 /\ u # <<>>
  BY <1>1, <1>2
<1>4. ASSUME NEW i \in 1 .. n PROVE u[i + 1] = s[i] /\ i + 1 \in 1 .. Len(u)
  <2>1. i + 1 \in 1 .. 1 + n /\ ~(i + 1 <= 1) /\ (i + 1) - 1 = i
    BY <1>1
  <2> QED BY <1>2, <2>1
<1>5. \A i \in 1 .. Len(u) : i # 1 => i - 1 \in 1 .. n /\ u[i] = s[i - 1]
  BY <1>1, <1>2
<1>6. On(u) = On(s) \cup {x}
  <2>1. \A i \in 1 .. Len(u) : u[i] \in On(s) \cup {x}
    BY <1>3, <1>5 DEF On
  <2>2. x \in On(u) /\ \A i \in 1 .. n : s[i] \in On(u)
    BY <1>1, <1>3, <1>4 DEF On
  <2> QED BY <2>1, <2>2 DEF On
<1>7. Distinct(u)
  <2>1. ASSUME NEW i \in 1 .. Len(u), NEW j \in 1 .. Len(u), u[i] = u[j] PROVE i = j
    <3>1. CASE i = 1 /\ j # 1
      BY <1>3, <1>5, <2>1, <3>1 DEF On
    <3>2. CASE j = 1 /\ i # 1
      BY <1>3, <1>5, <2>1, <3>2 DEF On
    <3>3. CASE i # 1 /\ j # 1
      <4>1. i - 1 = j - 1
        BY <1>5, <2>1, <3>3 DEF Distinct
      <4> QED BY <4>1
    <3> QED BY <3>1, <3>2, <3>3
  <2> QED BY <2>1 DEF Distinct
<1>8. Head(u) = x
  BY <1>2, <1>3
<1> QED BY <1>1, <1>2, <1>3, <1>6, <1>7, <1>8 DEF u
-----------------------------------------------------------------------------
\* What a table is made of.
Heads == [use : {"FREE", "USED"}, units : Nat]
Tables == [hdr : [Arena -> Heads], ptr : [Order -> Seq(Arena)], count : [Order -> Nat]]

\* The buckets of bb hold the blocks of F, each once, and their headers say so.
IsTable(bb, F) ==
  /\ bb \in Tables /\ F \subseteq Blocks
  /\ \A k \in Order : /\ Distinct(bb.ptr[k]) /\ bb.count[k] = Len(bb.ptr[k])
                      /\ \A o \in Arena : o \in On(bb.ptr[k]) <=> Blk(o, k) \in F
  /\ \A x \in F : bb.hdr[x.at] = Header("FREE", x.order)

\* The headers of the blocks of H say that these are in use.
InUse(bb, H) == \A x \in H : bb.hdr[x.at] = Header("USED", x.order)

\* Headers are of the right type, and tell one block from another.
LEMMA HeadersAre ==
  /\ Cleared \in Heads
  /\ \A use \in {"FREE", "USED"}, k \in Order : Header(use, k) \in Heads
  /\ \A k, j \in Order : Header("FREE", k) = Header("FREE", j) => k = j
  /\ \A k, j \in Order : Header("FREE", k) # Header("USED", j)
<1>1. \A k \in Order : Size[k] \in Nat
  BY SizeIs DEF Order
<1>2. \A k, j \in Order : Size[k] = Size[j] => k = j
  BY SizesDiffer
<1> QED BY <1>1, <1>2 DEF Header, Heads, Cleared

\* The table bb with another bucket k and other headers.
Changed(bb, k, u, c, h) ==
  [hdr |-> h, ptr |-> [bb.ptr EXCEPT ![k] = u], count |-> [bb.count EXCEPT ![k] = c]]

\* Its fields.
LEMMA ChangedIs ==
  ASSUME NEW bb \in Tables, NEW k \in Order, NEW u \in Seq(Arena), NEW c \in Nat, NEW h \in [Arena -> Heads],
         NEW r, r = Changed(bb, k, u, c, h)
  PROVE  /\ r \in Tables /\ r.hdr = h
         /\ \A j \in Order : r.ptr[j] = (IF j = k THEN u ELSE bb.ptr[j]) /\ r.count[j] = (IF j = k THEN c ELSE bb.count[j])
<1>1. bb.ptr \in [Order -> Seq(Arena)] /\ bb.count \in [Order -> Nat]
  BY DEF Tables
<1> DEFINE p == [bb.ptr EXCEPT ![k] = u]
           q == [bb.count EXCEPT ![k] = c]
<1>2. p \in [Order -> Seq(Arena)] /\ q \in [Order -> Nat]
  BY <1>1
<1>3. \A j \in Order : p[j] = (IF j = k THEN u ELSE bb.ptr[j]) /\ q[j] = (IF j = k THEN c ELSE bb.count[j])
  BY <1>1
<1>4. r = [hdr |-> h, ptr |-> p, count |-> q]
  BY DEF Changed
<1> HIDE DEF p, q
<1>5. r.hdr = h /\ r.ptr = p /\ r.count = q /\ r \in Tables
  BY <1>2, <1>4 DEF Tables
<1> QED BY <1>3, <1>5

\* A block out of its bucket.
LEMMA RemoveIs ==
  ASSUME NEW bb, NEW F, IsTable(bb, F), NEW x \in F,
         NEW r, r = LIST_REMOVE(bb, x.order, x.at)
  PROVE  IsTable(r, F \ {x}) /\ r.hdr = bb.hdr
<1> DEFINE k == x.order
           o == x.at
           s == bb.ptr[k]
           d == CHOOSE d \in DOMAIN s : s[d] = o
           G == F \ {x}
<1>1. /\ bb \in Tables /\ x \in Blocks /\ k \in Order /\ o \in Arena /\ x = Blk(o, k)
  BY BlockIs DEF IsTable
<1>2. s \in Seq(Arena) /\ Distinct(s) /\ bb.count[k] = Len(s) /\ o \in On(s)
  BY <1>1 DEF IsTable, Tables
<1>3. d \in 1 .. Len(s) /\ s[d] = o
  BY <1>2 DEF On
<1>4. r = [bb EXCEPT !.ptr[k] = RemoveAt(s, d), !.count[k] = bb.count[k] - 1]
  BY DEF LIST_REMOVE
<1> HIDE DEF d
<1> DEFINE u == RemoveAt(s, d)
<1>5. u \in Seq(Arena) /\ Distinct(u) /\ Len(s) \in Nat /\ Len(u) = Len(s) - 1 /\ On(u) = On(s) \ {o} /\ Len(u) \in Nat
  <2> HIDE DEF s
  <2>1. u \in Seq(Arena) /\ Distinct(u) /\ Len(s) \in Nat /\ Len(u) = Len(s) - 1 /\ On(u) = On(s) \ {s[d]}
    <3>1. s \in Seq(Arena) /\ Distinct(s) /\ d \in 1 .. Len(s)
      BY <1>2, <1>3
    <3> QED BY <3>1, TakenOut, ZenonT(30)
  <2> HIDE DEF u
  <2>2. On(u) = On(s) \ {o}
    BY <1>3, <2>1, Zenon
  <2>3. Len(s) \in Nat /\ Len(u) = Len(s) - 1
    BY <2>1, Zenon
  <2>4. Len(u) \in Nat
    BY <1>3, <2>3
  <2> QED BY <2>1, <2>2, <2>4, Zenon
<1> HIDE DEF u, s
<1>6. /\ r \in Tables /\ r.hdr = bb.hdr
      /\ \A j \in Order : r.ptr[j] = (IF j = k THEN u ELSE bb.ptr[j]) /\ r.count[j] = (IF j = k THEN Len(u) ELSE bb.count[j])
  <2>1. bb.count[k] - 1 = Len(u)
    BY <1>2, <1>5 DEF s
  <2>2. r = [bb EXCEPT !.ptr[k] = u, !.count[k] = Len(u)]
    BY <1>4, <2>1 DEF u
  <2>3. bb.hdr \in [Arena -> Heads]
    BY <1>1 DEF Tables
  <2> HIDE DEF k
  <2>4. r = Changed(bb, k, u, Len(u), bb.hdr)
    BY <1>1, <2>2 DEF Tables, Changed
  <2> QED BY <1>1, <1>5, <2>3, <2>4, ChangedIs
<1>7. ASSUME NEW j \in Order
      PROVE  /\ Distinct(r.ptr[j]) /\ r.count[j] = Len(r.ptr[j])
             /\ \A y \in Arena : y \in On(r.ptr[j]) <=> Blk(y, j) \in G
  <2>1. /\ Distinct(bb.ptr[j]) /\ bb.count[j] = Len(bb.ptr[j])
        /\ \A y \in Arena : y \in On(bb.ptr[j]) <=> Blk(y, j) \in F
    BY DEF IsTable
  <2>2. \A y \in Arena : Blk(y, j) = x <=> y = o /\ j = k
    BY <1>1, BlkIs
  <2>3. CASE j = k
    BY <1>5, <1>6, <2>1, <2>2, <2>3 DEF s
  <2>4. CASE j # k
    BY <1>6, <2>1, <2>2, <2>4
  <2> QED BY <2>3, <2>4
<1>8. G \subseteq Blocks /\ \A y \in G : r.hdr[y.at] = Header("FREE", y.order)
  BY <1>6 DEF IsTable
<1> HIDE DEF G
<1>9. IsTable(r, G)
  BY <1>6, <1>7, <1>8 DEF IsTable
<1> QED BY <1>6, <1>9 DEF G

\* A block clear of others; a table r that has it in its bucket and is bb elsewhere.
Clear(F, x) == x \in Blocks /\ \A z \in F : Units(z) \cap Units(x) = {}
Inserted(r, bb, F, x) ==
  IsTable(r, F \cup {x}) /\ \A y \in Arena : y \notin Units(x) => r.hdr[y] = bb.hdr[y]

\* A block into its bucket; its header is new and the rest of it is cleared.
LEMMA InsertIs ==
  ASSUME NEW bb, NEW F, IsTable(bb, F), NEW x, Clear(F, x)
  PROVE  Inserted(LIST_INSERT_HEAD(bb, x.order, x.at), bb, F, x)
<1> DEFINE r == LIST_INSERT_HEAD(bb, x.order, x.at)
           k == x.order
           o == x.at
           s == bb.ptr[k]
           G == F \cup {x}
           u == <<o>> \o s
           h == [y \in Arena |-> IF y = o THEN Header("FREE", k)
                                 ELSE IF y \in o + 1 .. o + Size[k] - 1 THEN Cleared ELSE bb.hdr[y]]
<1>1. /\ bb \in Tables /\ k \in Order /\ o \in Arena /\ o \in Nat /\ x = Blk(o, k) /\ o \in Units(x)
      /\ Size[k] \in Nat \ {0} /\ F \subseteq Blocks /\ x \in Blocks
  BY BlockIs DEF IsTable, Clear
<1>2. \A z \in F : z.at \in Units(z) /\ z.at \in Arena /\ z.at \notin Units(x)
  BY <1>1, BlockIs DEF Clear
<1>3. x \notin F
  BY <1>1, <1>2
<1>4. s \in Seq(Arena) /\ Distinct(s) /\ bb.count[k] = Len(s) /\ o \notin On(s)
  BY <1>1, <1>3 DEF IsTable, Tables
<1>5. u \in Seq(Arena) /\ Distinct(u) /\ Len(s) \in Nat /\ Len(u) = Len(s) + 1 /\ On(u) = On(s) \cup {o}
  BY <1>1, <1>4, PutBefore
<1>6. r = [bb EXCEPT !.ptr[k] = u, !.count[k] = bb.count[k] + 1, !.hdr = h]
  BY DEF LIST_INSERT_HEAD
<1> HIDE DEF r
<1>7. h \in [Arena -> Heads] /\ h[o] = Header("FREE", k) /\ \A y \in Arena : y \notin Units(x) => h[y] = bb.hdr[y]
  <2>1. \A y \in Arena : y \in Nat
    BY DEF Arena
  <2>2. Units(x) = o .. o + Size[k] - 1
    BY DEF Units
  <2>3. bb.hdr \in [Arena -> Heads] /\ Header("FREE", k) \in Heads /\ Cleared \in Heads
    BY <1>1, HeadersAre DEF Tables
  <2> HIDE DEF k, o
  <2> QED BY <1>1, <2>1, <2>2, <2>3
<1> HIDE DEF u, s, h
<1>8. /\ r \in Tables /\ r.hdr = h
      /\ \A j \in Order : r.ptr[j] = (IF j = k THEN u ELSE bb.ptr[j]) /\ r.count[j] = (IF j = k THEN Len(u) ELSE bb.count[j])
  <2>1. bb.count[k] + 1 = Len(u) /\ Len(u) \in Nat
    BY <1>4, <1>5 DEF s
  <2>2. r = [bb EXCEPT !.ptr[k] = u, !.count[k] = Len(u), !.hdr = h]
    BY <1>6, <2>1
  <2> HIDE DEF k, o
  <2>3. r = Changed(bb, k, u, Len(u), h)
    BY <1>1, <2>2 DEF Tables, Changed
  <2> QED BY <1>1, <1>5, <1>7, <2>1, <2>3, ChangedIs
<1>9. ASSUME NEW j \in Order
      PROVE  /\ Distinct(r.ptr[j]) /\ r.count[j] = Len(r.ptr[j])
             /\ \A y \in Arena : y \in On(r.ptr[j]) <=> Blk(y, j) \in G
  <2>1. /\ Distinct(bb.ptr[j]) /\ bb.count[j] = Len(bb.ptr[j])
        /\ \A y \in Arena : y \in On(bb.ptr[j]) <=> Blk(y, j) \in F
    BY DEF IsTable
  <2>2. \A y \in Arena : Blk(y, j) = x <=> y = o /\ j = k
    BY <1>1, BlkIs
  <2>3. CASE j = k
    BY <1>5, <1>8, <2>1, <2>2, <2>3 DEF s
  <2>4. CASE j # k
    BY <1>8, <2>1, <2>2, <2>4
  <2> QED BY <2>3, <2>4
<1>10. G \subseteq Blocks /\ \A y \in G : r.hdr[y.at] = Header("FREE", y.order)
  <2>1. \A y \in F : r.hdr[y.at] = Header("FREE", y.order)
    BY <1>2, <1>7, <1>8 DEF IsTable
  <2> QED BY <1>1, <1>7, <1>8, <2>1
<1> HIDE DEF G
<1>11. IsTable(r, G)
  BY <1>8, <1>9, <1>10 DEF IsTable
<1>12. Inserted(r, bb, F, x)
  BY <1>7, <1>8, <1>11 DEF G, Inserted
<1> QED BY <1>12 DEF r, k, o
-----------------------------------------------------------------------------
\* No free block has a free buddy; none except z.
NoPair(F) == \A x \in F : Buddy(x) \notin F
NoPairBut(F, z) == \A x \in F : x # z /\ Buddy(x) # z => Buddy(x) \notin F

\* The loop of buddy_try_merge on a block x that is given back, when F are the
\* free blocks and H the others in use: what is free with x, and merged so far,
\* is some G.
Passes == [b : Tables, at : Arena, order : Order, read : SUBSET Int, merged : BOOLEAN, ended : BOOLEAN]
Merging(r, bb, x, F, H) ==
  \E G \in SUBSET Blocks :
    /\ IsPartition(G \cup H) /\ G \cap H = {} /\ InUse(r.b, H)
    /\ IF r.merged THEN IsTable(r.b, G) ELSE r.b = bb /\ r.at = x.at /\ r.order = x.order /\ G = F \cup {x}
    /\ IF r.ended THEN NoPair(G) ELSE Blk(r.at, r.order) \in G /\ NoPairBut(G, Blk(r.at, r.order))

\* A free block z with a free buddy, where d says whether z is in its bucket;
\* r when z and its buddy have been united to p.
Uniting(bb, G, H, z, d) ==
  /\ G \in SUBSET Blocks /\ IsPartition(G \cup H) /\ G \cap H = {} /\ InUse(bb, H)
  /\ z \in G /\ Buddy(z) \in G /\ z.order < MaxOrder /\ NoPairBut(G, z)
  /\ d \in BOOLEAN /\ IsTable(bb, IF d THEN G ELSE G \ {z})
United(r, H, p) ==
  \E K \in SUBSET Blocks : /\ IsPartition(K \cup H) /\ K \cap H = {} /\ InUse(r, H)
                           /\ IsTable(r, K) /\ p \in K /\ NoPairBut(K, p)

\* What Merge does.
LEMMA MergeIs ==
  ASSUME NEW bb, NEW G, NEW H, NEW z, NEW d, Uniting(bb, G, H, z, d)
  PROVE  United(Merge(bb, z.at, z.order, d), H, Parent(z))
<1> DEFINE r == Merge(bb, z.at, z.order, d)
           g == Buddy(z)
           p == Parent(z)
           K == (G \ {z, g}) \cup {p}
           a == IF d THEN LIST_REMOVE(bb, z.order, z.at) ELSE bb
           c == LIST_REMOVE(a, z.order, g.at)
<1>0. /\ G \in SUBSET Blocks /\ IsPartition(G \cup H) /\ G \cap H = {} /\ InUse(bb, H)
      /\ z \in G /\ g \in G /\ z.order < MaxOrder /\ NoPairBut(G, z)
      /\ d \in BOOLEAN /\ IsTable(bb, IF d THEN G ELSE G \ {z})
  BY DEF Uniting
<1>1. /\ z \in Blocks /\ g \in Blocks /\ p \in Blocks /\ Buddy(g) = z /\ g.order = z.order /\ g.at # z.at
      /\ (AreHalves(p, z, g) \/ AreHalves(p, g, z))
  BY <1>0, BuddyIs
<1>2. g.at = BuddyOf(z.at, z.order) /\ p = Blk(Min({z.at, g.at}), z.order + 1)
  BY BlkIs DEF Buddy, Parent
<1>3. p.at = Min({z.at, g.at}) /\ p.order = z.order + 1
  BY <1>2, BlkIs
<1>4. z # g /\ g \in G /\ z \in G
  BY <1>0, <1>1
<1>5. r = LIST_INSERT_HEAD(c, p.order, p.at)
  <2>1. Min({z.at, g.at}) = Min({g.at, z.at})
    BY DEF Min
  <2> HIDE DEF p, g
  <2> QED BY <1>2, <1>3, <2>1 DEF Merge
<1> HIDE DEF g, p, r
<1>6. IsTable(a, G \ {z}) /\ a.hdr = bb.hdr
  BY <1>0, RemoveIs
<1>7. IsTable(c, (G \ {z}) \ {g}) /\ c.hdr = bb.hdr
  <2> HIDE DEF a
  <2>1. g \in G \ {z} /\ c = LIST_REMOVE(a, g.order, g.at)
    BY <1>1, <1>4
  <2>2. IsTable(a, G \ {z}) /\ a.hdr = bb.hdr
    BY <1>6
  <2> HIDE DEF c
  <2>3. IsTable(c, (G \ {z}) \ {g}) /\ c.hdr = a.hdr
    BY <2>1, <2>2, RemoveIs, ZenonT(30)
  <2> QED BY <2>2, <2>3
<1> HIDE DEF c, a
<1>8. Units(p) = Units(z) \cup Units(g)
  BY <1>1, HalfUnits
<1>9. \A y \in (G \cup H) \ {z, g} : Units(y) \cap Units(p) = {}
  BY <1>0, <1>4, <1>8 DEF IsPartition
<1>10. /\ IsTable(r, ((G \ {z}) \ {g}) \cup {p})
       /\ \A y \in Arena : y \notin Units(p) => r.hdr[y] = c.hdr[y]
  <2> DEFINE J == (G \ {z}) \ {g}
  <2>1. \A y \in J : Units(y) \cap Units(p) = {}
    BY <1>9
  <2>2. IsTable(c, J)
    BY <1>7
  <2> HIDE DEF J
  <2>3. /\ IsTable(r, J \cup {p})
        /\ \A y \in Arena : y \notin Units(p) => r.hdr[y] = c.hdr[y]
    <3>1. Clear(J, p)
      BY <1>1, <2>1 DEF Clear
    <3>2. Inserted(r, c, J, p)
      BY <1>5, <2>2, <3>1, InsertIs, Zenon
    <3> QED BY <3>2 DEF Inserted
  <2> QED BY <2>3 DEF J
<1>11. ((G \ {z}) \ {g}) \cup {p} = K
  OBVIOUS
<1>12. IsPartition(((G \cup H) \ {z, g}) \cup {p}) /\ p \notin G \cup H
  <2>1. z \in G \cup H /\ g \in G \cup H /\ {z, g} = {g, z}
    BY <1>4
  <2> DEFINE P == G \cup H
  <2>2. IsPartition(P) /\ z \in P /\ g \in P /\ p \in Blocks
    BY <1>0, <1>1, <2>1
  <2> HIDE DEF P
  <2>3. CASE AreHalves(p, z, g)
    BY <2>2, <2>3, Unites DEF P
  <2>4. CASE AreHalves(p, g, z)
    <3>1. IsPartition((P \ {g, z}) \cup {p}) /\ p \notin P
      BY <2>2, <2>4, Unites
    <3> QED BY <2>1, <3>1 DEF P
  <2> QED BY <1>1, <2>3, <2>4
<1>13. ((G \cup H) \ {z, g}) \cup {p} = K \cup H /\ K \cap H = {} /\ p \in K /\ K \in SUBSET Blocks
  BY <1>0, <1>1, <1>4, <1>12
<1>14. InUse(r, H)
  <2>1. ASSUME NEW y \in H PROVE y.at \in Arena /\ y.at \notin Units(p)
    <3>1. y \in (G \cup H) \ {z, g} /\ y \in Blocks
      BY <1>0, <1>4 DEF IsPartition
    <3>2. y.at \in Units(y) /\ y.at \in Arena
      BY <3>1, BlockIs
    <3> QED BY <1>9, <3>1, <3>2
  <2> QED BY <1>0, <1>6, <1>7, <1>10, <2>1 DEF InUse
<1>15. NoPairBut(K, p)
  <2>1. SUFFICES ASSUME NEW y \in K, y # p, Buddy(y) # p, Buddy(y) \in K PROVE FALSE
    BY DEF NoPairBut
  <2>2. y \in G \ {z, g} /\ Buddy(y) \in G \ {z, g}
    BY <2>1
  <2> QED BY <1>0, <2>2 DEF NoPairBut
<1> HIDE DEF K
<1>16. United(r, H, p)
  BY <1>10, <1>11, <1>12, <1>13, <1>14, <1>15 DEF United
<1> QED BY <1>16 DEF p, r

\* A pass keeps this, and goes to the next order unless it ends the loop.
LEMMA MergeStep ==
  ASSUME NEW bb, NEW F, IsTable(bb, F), NEW x \in Blocks, x \notin F, NEW H,
         NEW r \in Passes, Merging(r, bb, x, F, H)
  PROVE  LET t == MergeNext(r)
         IN  /\ t \in Passes /\ Merging(t, bb, x, F, H)
             /\ t.ended \/ (~r.ended /\ t.order = r.order + 1)
<1> DEFINE t == MergeNext(r)
           z == Blk(r.at, r.order)
           o == BuddyOf(r.at, r.order)
<1>1. CASE r.ended
  <2>1. t = r
    BY <1>1 DEF MergeNext
  <2> QED BY <1>1, <2>1
<1>2. CASE ~r.ended
  <2>1. PICK G \in SUBSET Blocks :
          /\ IsPartition(G \cup H) /\ G \cap H = {} /\ InUse(r.b, H)
          /\ IF r.merged THEN IsTable(r.b, G) ELSE r.b = bb /\ r.at = x.at /\ r.order = x.order /\ G = F \cup {x}
          /\ z \in G /\ NoPairBut(G, z)
    BY <1>2 DEF Merging
  <2>2. /\ z \in Blocks /\ z.at = r.at /\ z.order = r.order /\ r.order \in Order /\ r.at \in Nat
        /\ r.order \in Nat /\ MaxOrder \in Nat /\ r.order <= MaxOrder
    <3>1. z \in Blocks /\ z.at = r.at /\ z.order = r.order
      BY <2>1, BlkIs
    <3> QED BY <3>1, BlockIs
  <2>3. Buddy(z) = Blk(o, r.order) /\ o = BuddyOf(z.at, z.order) /\ Buddy(z).at = o /\ Buddy(z).order = r.order
    BY <2>2, BlkIs DEF Buddy
  <2>4. IsTable(r.b, IF r.merged THEN G ELSE G \ {z})
    <3>1. CASE r.merged
      BY <2>1, <3>1
    <3>2. CASE ~r.merged
      <4>1. r.b = bb /\ G = F \cup {x} /\ z = Blk(x.at, x.order)
        BY <2>1, <3>2
      <4>2. z = x
        BY <4>1, BlockIs
      <4>3. G \ {z} = F
        BY <4>1, <4>2
      <4> QED BY <3>2, <4>1, <4>3
    <3> QED BY <3>1, <3>2
  <2>5. \A c \in G : c # z => r.b.hdr[c.at] = Header("FREE", c.order)
    BY <2>4 DEF IsTable
  <2>6. r.merged \in BOOLEAN /\ r.read \in SUBSET Int /\ o \in Int /\ r = [r EXCEPT !.read = r.read]
    <3>1. r.merged \in BOOLEAN /\ r.read \in SUBSET Int /\ r = [r EXCEPT !.read = r.read]
      BY DEF Passes
    <3>2. Size[r.order] \in Nat
      BY <2>2, BlockIs
    <3> QED BY <2>2, <3>1, <3>2 DEF BuddyOf
  <2>7. CASE CanMerge(r.b, r.at, r.order)
    <3>1. o \in Arena /\ r.b.hdr[o] = Header("FREE", r.order)
      BY <2>7 DEF CanMerge
    <3>2. r.order < MaxOrder
      BY <2>2, <2>3, <3>1, TopIs
    <3>3. PICK c \in G \cup H : c # z /\ c.at = Buddy(z).at /\ c.order <= z.order
      <4>1. z \in G \cup H /\ z.order < MaxOrder
        BY <2>1, <2>2, <3>2
      <4> QED BY <2>1, <4>1, BuddyStarts
    <3>4. c \in Blocks /\ c.order \in Order /\ c.at = o
      <4>1. c \in Blocks
        BY <2>1, <3>3 DEF IsPartition
      <4> QED BY <2>3, <3>3, <4>1, BlockIs
    <3>5. c \notin H
      <4>1. c \in H => r.b.hdr[o] = Header("USED", c.order)
        BY <2>1, <3>4 DEF InUse
      <4> QED BY <2>2, <3>1, <3>4, <4>1, HeadersAre
    <3>6. Header("FREE", c.order) = Header("FREE", r.order)
      BY <2>5, <3>1, <3>3, <3>4, <3>5
    <3>7. c.order = r.order
      BY <2>2, <3>4, <3>6, HeadersAre
    <3>8. Buddy(z) \in G
      <4>1. c = Blk(c.at, c.order)
        BY <3>4, BlockIs
      <4> QED BY <2>3, <3>3, <3>4, <3>5, <3>7, <4>1
    <3>9. t = [b |-> Merge(r.b, z.at, z.order, r.merged), at |-> Min({r.at, o}), order |-> r.order + 1,
               read |-> r.read \cup {o}, merged |-> TRUE, ended |-> FALSE]
      BY <1>2, <2>2, <2>7 DEF MergeNext
    <3> DEFINE y == Merge(r.b, z.at, z.order, r.merged)
    <3>10. PICK K \in SUBSET Blocks :
             /\ IsPartition(K \cup H) /\ K \cap H = {} /\ InUse(y, H)
             /\ IsTable(y, K) /\ Parent(z) \in K /\ NoPairBut(K, Parent(z))
      <4>1. z \in G /\ z.order < MaxOrder /\ NoPairBut(G, z)
        BY <2>1, <2>2, <3>2
      <4>2. Uniting(r.b, G, H, z, r.merged)
        <5> HIDE DEF z
        <5> QED BY <2>1, <2>4, <2>6, <3>8, <4>1 DEF Uniting
      <4> HIDE DEF z
      <4>3. United(y, H, Parent(z))
        BY <4>2, MergeIs, Zenon
      <4> QED BY <4>3 DEF United
    <3> HIDE DEF y
    <3>11. Parent(z) = Blk(Min({r.at, o}), r.order + 1)
      BY <2>2, <2>3 DEF Parent
    <3>12. Min({r.at, o}) \in Arena /\ r.order + 1 \in Order
      <4>1. Parent(z) \in Blocks /\ Parent(z).at = Min({r.at, o}) /\ Parent(z).order = r.order + 1
        BY <3>10, <3>11, BlkIs
      <4> QED BY <4>1, BlockIs
    <3>13. t \in Passes
      <4>1. y \in Tables /\ r.read \cup {o} \in SUBSET Int
        BY <2>6, <3>10 DEF IsTable
      <4> HIDE DEF o
      <4> QED BY <3>9, <3>12, <4>1 DEF Passes, y
    <3>14. t.b = y /\ t.merged = TRUE /\ t.ended = FALSE /\ Blk(t.at, t.order) = Parent(z) /\ t.order = r.order + 1
      BY <3>9, <3>11 DEF y
    <3> HIDE DEF t
    <3>15. Merging(t, bb, x, F, H)
      BY <3>10, <3>14 DEF Merging
    <3> QED BY <1>2, <3>13, <3>14, <3>15 DEF t
  <2>8. CASE ~CanMerge(r.b, r.at, r.order)
    <3>1. t = [r EXCEPT !.read = r.read \cup {o}, !.ended = TRUE]
      BY <1>2, <2>8 DEF MergeNext
    <3>2. t \in Passes /\ t.b = r.b /\ t.at = r.at /\ t.order = r.order /\ t.merged = r.merged /\ t.ended = TRUE
      <4> DEFINE R == r.read \cup {o}
      <4>1. R \in SUBSET Int
        BY <2>6 DEF Passes
      <4>2. t = [r EXCEPT !.read = R, !.ended = TRUE]
        BY <3>1
      <4> HIDE DEF o, R, t, z
      <4> QED BY <4>1, <4>2 DEF Passes
    <3>3. Buddy(z) \notin G
      <4>1. SUFFICES ASSUME Buddy(z) \in G PROVE FALSE
        OBVIOUS
      <4>2. Buddy(z) \in Blocks /\ o \in Arena
        <5>1. Buddy(z) \in Blocks
          BY <4>1
        <5> QED BY <2>3, <5>1, BlockIs
      <4>3. Buddy(z) # z
        BY <2>2, <2>3, <4>2, TopIs, BuddyIs
      <4> QED BY <2>3, <2>5, <2>8, <4>1, <4>2, <4>3 DEF CanMerge
    <3>4. NoPair(G)
      <4>1. SUFFICES ASSUME NEW y \in G, Buddy(y) \in G PROVE FALSE
        BY DEF NoPair
      <4>2. y # z
        BY <3>3, <4>1
      <4>3. Buddy(y) = z
        BY <2>1, <4>1, <4>2 DEF NoPairBut
      <4>4. y \in Blocks /\ y.order \in Nat /\ y.order <= MaxOrder
        <5>1. y \in Blocks
          BY <4>1
        <5> QED BY <5>1, BlockIs
      <4>5. y.order < MaxOrder
        <5>1. SUFFICES ASSUME y.order = MaxOrder PROVE FALSE
          BY <2>2, <4>4
        <5>2. BuddyOf(y.at, y.order) \notin Arena
          BY <4>4, <5>1, TopIs
        <5>3. Buddy(y).at = BuddyOf(y.at, y.order)
          BY BlkIs DEF Buddy
        <5> QED BY <2>2, <4>3, <5>2, <5>3, BlockIs
      <4>6. Buddy(Buddy(y)) = y
        BY <4>4, <4>5, BuddyIs
      <4> QED BY <3>3, <4>3, <4>6
    <3> HIDE DEF t, z
    <3>5. Merging(t, bb, x, F, H)
      BY <2>1, <3>2, <3>4 DEF Merging
    <3> QED BY <3>2, <3>5 DEF t
  <2> QED BY <2>7, <2>8
<1> QED BY <1>1, <1>2
-----------------------------------------------------------------------------
\* The table has F in its buckets and H in use; together they are the arena, and
\* no two of F are buddies.
BuddyInv(bb, F, H) ==
  IsTable(bb, F) /\ IsPartition(F \cup H) /\ F \cap H = {} /\ InUse(bb, H) /\ NoPair(F)

\* x is in use and about to be given back; r is what the loop ends with.
Giving(bb, x, F, H) ==
  /\ IsTable(bb, F) /\ x \in Blocks /\ x \notin F /\ x \notin H /\ F \cap H = {}
  /\ IsPartition((F \cup {x}) \cup H) /\ InUse(bb, H) /\ NoPair(F)
Tried(r, bb, x, F, H) == r \in Passes /\ r.ended /\ Merging(r, bb, x, F, H)

\* The loop of buddy_try_merge ends, with a block that has no free buddy.
LEMMA TryMergeIs ==
  ASSUME NEW bb, NEW x, NEW F, NEW H, Giving(bb, x, F, H)
  PROVE  Tried(buddy_try_merge(bb, x.at, x.order), bb, x, F, H)
<1> DEFINE n == MaxOrder + 1
           start == [b |-> bb, at |-> x.at, order |-> x.order, read |-> {}, merged |-> FALSE, ended |-> FALSE]
           loop[i \in 0 .. n] == IF i = 0 THEN start ELSE MergeNext(loop[i - 1])
           S == {r \in Passes : Merging(r, bb, x, F, H)}
           G == [r \in S |-> MergeNext(r)]
<1>1. buddy_try_merge(bb, x.at, x.order) = loop[n]
  BY Zenon DEF buddy_try_merge
<1>2. /\ IsTable(bb, F) /\ x \in Blocks /\ x \notin F /\ x \notin H /\ F \cap H = {}
      /\ IsPartition((F \cup {x}) \cup H) /\ InUse(bb, H) /\ NoPair(F)
  BY DEF Giving
<1>3. x = Blk(x.at, x.order) /\ x.at \in Arena /\ x.order \in Order /\ MaxOrder \in Nat /\ n \in Nat /\ x.order \in Nat
  BY <1>2, BlockIs
<1>4. start \in S
  <2>1. start \in Passes
    BY <1>2, <1>3 DEF Passes, IsTable
  <2> DEFINE J == F \cup {x}
  <2>2. J \in SUBSET Blocks /\ IsPartition(J \cup H) /\ J \cap H = {} /\ x \in J
    BY <1>2 DEF IsTable
  <2>3. NoPairBut(J, x)
    BY <1>2 DEF NoPair, NoPairBut
  <2>4. /\ start.b = bb /\ start.at = x.at /\ start.order = x.order /\ start.merged = FALSE /\ start.ended = FALSE
    OBVIOUS
  <2>5. J = F \cup {x}
    OBVIOUS
  <2> HIDE DEF start, J
  <2>6. Merging(start, bb, x, F, H)
    BY <1>2, <1>3, <2>2, <2>3, <2>4, <2>5 DEF Merging
  <2> QED BY <2>1, <2>6
<1>5. ASSUME NEW r \in S
      PROVE  MergeNext(r) \in S /\ (MergeNext(r).ended \/ (~r.ended /\ MergeNext(r).order = r.order + 1))
  <2>1. r \in Passes /\ Merging(r, bb, x, F, H)
    OBVIOUS
  <2>2. IsTable(bb, F) /\ x \in Blocks /\ x \notin F
    BY <1>2
  <2>3. /\ MergeNext(r) \in Passes /\ Merging(MergeNext(r), bb, x, F, H)
        /\ MergeNext(r).ended \/ (~r.ended /\ MergeNext(r).order = r.order + 1)
    BY <2>1, <2>2, MergeStep, Zenon
  <2> QED BY <2>3
<1>6. G \in [S -> S]
  BY <1>5
<1>7. loop = [i \in 0 .. n |-> IF i = 0 THEN start ELSE MergeNext(loop[i - 1])]
  <2> HIDE DEF S, G, start
  <2>1. PICK f : Goes(f, n, S, start, G)
    BY <1>3, <1>4, <1>6, Recursion, Zenon
  <2>2. ASSUME NEW i \in 0 .. n
        PROVE  f[i] = IF i = 0 THEN start ELSE MergeNext(f[i - 1])
    <3>1. CASE i = 0
      BY <2>1, <3>1 DEF Goes
    <3>2. CASE i # 0
      <4>1. i \in 1 .. n /\ i - 1 \in 0 .. n
        BY <1>3, <3>2
      <4>2. f[i] = G[f[i - 1]] /\ f[i - 1] \in S
        BY <2>1, <4>1 DEF Goes
      <4> QED BY <3>2, <4>2 DEF G
    <3> QED BY <3>1, <3>2
  <2>3. f = [i \in 0 .. n |-> f[i]]
    BY <2>1 DEF Goes
  <2>4. f = [i \in 0 .. n |-> IF i = 0 THEN start ELSE MergeNext(f[i - 1])]
    BY <2>2, <2>3
  <2> QED BY <2>4
<1> HIDE DEF loop
<1>8. loop[0] = start /\ \A i \in 0 .. n - 1 : loop[i + 1] = MergeNext(loop[i])
  <2>1. loop[0] = start
    BY <1>3, <1>7
  <2>2. ASSUME NEW i \in 0 .. n - 1 PROVE loop[i + 1] = MergeNext(loop[i])
    <3>1. i + 1 \in 0 .. n /\ i + 1 # 0 /\ (i + 1) - 1 = i
      BY <1>3
    <3> QED BY <1>7, <3>1
  <2> QED BY <2>1, <2>2
<1> DEFINE T == {i \in 0 .. n : loop[i] \in S /\ (loop[i].ended \/ loop[i].order = x.order + i)}
<1>9. \A i \in 0 .. n : i \in T
  <2>1. 0 \in T
    <3>1. start.order = x.order + 0
      BY <1>3
    <3> HIDE DEF S, start
    <3> QED BY <1>3, <1>4, <1>8, <3>1
  <2>2. ASSUME NEW i \in 0 .. n - 1, i \in T PROVE i + 1 \in T
    <3> DEFINE r == loop[i]
               t == loop[i + 1]
    <3>1. r \in S /\ (r.ended \/ r.order = x.order + i) /\ t = MergeNext(r) /\ i + 1 \in 0 .. n
      BY <1>3, <1>8, <2>2
    <3> HIDE DEF S, r, t
    <3>2. t \in S /\ (t.ended \/ (~r.ended /\ t.order = r.order + 1))
      BY <1>5, <3>1
    <3>3. t.ended \/ t.order = x.order + (i + 1)
      BY <1>3, <3>1, <3>2
    <3> QED BY <3>1, <3>2, <3>3 DEF t
  <2> HIDE DEF T
  <2> QED BY <1>3, <2>1, <2>2, UpTo
<1>10. loop[n] \in S /\ loop[n].ended
  <2>1. loop[n] \in S /\ (loop[n].ended \/ loop[n].order = x.order + n)
    BY <1>3, <1>9
  <2>2. loop[n].order \in 0 .. MaxOrder
    BY <2>1 DEF Passes, Order
  <2> HIDE DEF S
  <2> QED BY <1>3, <2>1, <2>2
<1> QED BY <1>1, <1>10 DEF Tried

\* The table has H in use, for some free blocks.
HasInUse(bb, H) == \E F \in SUBSET Blocks : BuddyInv(bb, F, H)

\* A block given back is free: alone, or as part of a larger one.
LEMMA BlockGiven ==
  ASSUME NEW bb, NEW H, NEW x, x \notin H, HasInUse(bb, H \cup {x})
  PROVE  HasInUse(buddy_free(bb, x).b, H)
<1> DEFINE k == x.order
           r == buddy_try_merge(bb, x.at, k)
           c == LIST_INSERT_HEAD(bb, k, x.at)
           f == buddy_free(bb, x)
<1>1. PICK F \in SUBSET Blocks : BuddyInv(bb, F, H \cup {x})
  BY DEF HasInUse
<1> DEFINE J == F \cup {x}
<1>2. /\ IsTable(bb, F) /\ F \cap H = {} /\ x \notin F /\ x \in Blocks /\ J \in SUBSET Blocks /\ J \cap H = {}
      /\ IsPartition(J \cup H) /\ InUse(bb, H) /\ NoPair(F)
  <2>1. J \cup H = F \cup (H \cup {x})
    OBVIOUS
  <2>2. IsPartition(J \cup H)
    BY <1>1, <2>1 DEF BuddyInv
  <2> HIDE DEF J
  <2>3. J \cup H \subseteq Blocks
    BY <2>2 DEF IsPartition
  <2>4. InUse(bb, H)
    BY <1>1 DEF BuddyInv, InUse
  <2> QED BY <1>1, <2>2, <2>3, <2>4 DEF BuddyInv, J
<1>3. Giving(bb, x, F, H)
  BY <1>2 DEF Giving
<1>4. f.b = IF bb.count[k] # 0 /\ r.merged THEN r.b ELSE c
  BY DEF buddy_free
<1>5. Tried(r, bb, x, F, H)
  <2> HIDE DEF r
  <2>1. Tried(buddy_try_merge(bb, x.at, x.order), bb, x, F, H)
    BY <1>3, TryMergeIs, Zenon
  <2> QED BY <2>1 DEF r
<1> HIDE DEF r, f
<1>6. PICK G \in SUBSET Blocks :
        /\ IsPartition(G \cup H) /\ G \cap H = {} /\ InUse(r.b, H)
        /\ IF r.merged THEN IsTable(r.b, G) ELSE G = J
        /\ NoPair(G)
  BY <1>5 DEF Tried, Merging
<1>7. CASE bb.count[k] # 0 /\ r.merged
  <2>1. BuddyInv(f.b, G, H)
    BY <1>4, <1>6, <1>7 DEF BuddyInv
  <2> QED BY <2>1 DEF HasInUse, f
<1>8. CASE ~(bb.count[k] # 0 /\ r.merged)
  <2>1. \A z \in J \cup H : z # x => Units(z) \cap Units(x) = {}
    BY <1>2 DEF IsPartition
  <2>2. Clear(F, x)
    BY <1>2, <2>1 DEF Clear
  <2>3. Inserted(c, bb, F, x)
    <3>1. Inserted(LIST_INSERT_HEAD(bb, x.order, x.at), bb, F, x)
      BY <1>2, <2>2, InsertIs, Zenon
    <3> QED BY <3>1
  <2> HIDE DEF c
  <2>4. InUse(c, H)
    <3>1. ASSUME NEW y \in H PROVE y.at \in Arena /\ y.at \notin Units(x)
      <4>1. y \in Blocks /\ y # x
        BY <1>2 DEF IsPartition
      <4>2. y.at \in Units(y) /\ y.at \in Arena
        BY <4>1, BlockIs
      <4> QED BY <2>1, <4>1, <4>2
    <3> QED BY <1>2, <2>3, <3>1 DEF InUse, Inserted
  <2>5. NoPair(J)
    <3>1. CASE bb.count[k] # 0
      BY <1>6, <1>8, <3>1
    <3>2. CASE bb.count[k] = 0
      <4>1. /\ x.order \in Order /\ bb.count[k] = Len(bb.ptr[k]) /\ bb.ptr[k] \in Seq(Arena)
            /\ \A o \in Arena : o \in On(bb.ptr[k]) <=> Blk(o, k) \in F
        <5>1. x.order \in Order
          BY <1>2, BlockIs
        <5> QED BY <1>2, <5>1 DEF IsTable, Tables
      <4>2. \A o \in Arena : Blk(o, k) \notin F
        BY <3>2, <4>1 DEF On
      <4>3. \A y \in F : y.order # x.order
        BY <1>2, <4>2, BlockIs
      <4>4. SUFFICES ASSUME NEW y \in J, Buddy(y) \in J PROVE FALSE
        BY DEF NoPair
      <4>5. Buddy(y).order = y.order /\ y \in Blocks /\ Buddy(y) \in Blocks
        BY <1>2, <4>4, BlkIs DEF Buddy
      <4>6. y = x /\ Buddy(y) = x
        BY <1>2, <4>3, <4>4, <4>5 DEF NoPair
      <4>7. BuddyOf(x.at, x.order) = x.at /\ x.at \in Arena
        BY <1>2, <4>6, BlkIs, BlockIs DEF Buddy
      <4>8. x.order < MaxOrder
        <5>1. x.order <= MaxOrder /\ x.order \in Nat /\ MaxOrder \in Nat
          BY <1>2, BlockIs
        <5>2. x.order # MaxOrder
          BY <1>2, <4>7, TopIs
        <5> QED BY <5>1, <5>2
      <4>9. Buddy(x).at # x.at
        BY <1>2, <4>8, BuddyIs
      <4> QED BY <4>6, <4>9
    <3> QED BY <3>1, <3>2
  <2>6. BuddyInv(c, J, H)
    BY <1>2, <2>3, <2>4, <2>5 DEF BuddyInv, Inserted
  <2>7. f.b = c
    BY <1>4, <1>8
  <2> HIDE DEF J
  <2> QED BY <1>2, <2>6, <2>7 DEF HasInUse, f
<1> QED BY <1>7, <1>8
-----------------------------------------------------------------------------
\* The first of a bucket is the block of some free one.
LEMMA HeadIs ==
  ASSUME NEW bb, NEW F, IsTable(bb, F), NEW k \in Order, bb.ptr[k] # <<>>
  PROVE  Head(bb.ptr[k]) \in Arena /\ Blk(Head(bb.ptr[k]), k) \in F
<1> DEFINE s == bb.ptr[k]
<1>1. s \in Seq(Arena) /\ s # <<>> /\ \A o \in Arena : o \in On(s) <=> Blk(o, k) \in F
  BY DEF IsTable, Tables
<1> HIDE DEF s
<1>2. Head(s) \in Arena /\ Head(s) = s[1] /\ Len(s) \in Nat /\ 1 \in 1 .. Len(s)
  BY <1>1
<1>3. Head(s) \in On(s)
  BY <1>2 DEF On
<1> QED BY <1>1, <1>2, <1>3 DEF s

\* u is s with x and y before it.
TwoMore(u, T, s, x, y) ==
  /\ u \in Seq(T) /\ Distinct(u) /\ Len(s) \in Nat
  /\ Len(u) = Len(s) + 2 /\ On(u) = On(s) \cup {x, y} /\ u # <<>> /\ Head(u) = x

\* A sequence with two more elements before it.
LEMMA TwoBefore ==
  ASSUME NEW T, NEW s \in Seq(T), Distinct(s), NEW x \in T, NEW y \in T, x # y, x \notin On(s), y \notin On(s)
  PROVE  TwoMore(<<x>> \o (<<y>> \o s), T, s, x, y)
<1> DEFINE v == <<y>> \o s
           w == <<x>> \o v
<1>1. v \in Seq(T) /\ Distinct(v) /\ Len(s) \in Nat /\ Len(v) = Len(s) + 1 /\ On(v) = On(s) \cup {y}
  BY PutBefore
<1> HIDE DEF v
<1>2. w \in Seq(T) /\ Distinct(w) /\ Len(v) \in Nat /\ Len(w) = Len(v) + 1 /\ On(w) = On(v) \cup {x} /\ Head(w) = x
  <2>1. x \notin On(v)
    BY <1>1
  <2> QED BY <1>1, <2>1, PutBefore
<1> HIDE DEF w
<1>3. Len(w) = Len(s) + 2 /\ w # <<>>
  BY <1>1, <1>2
<1>4. On(w) = On(s) \cup {x, y}
  <2>1. \A A1, A2, A3 : A2 = A1 \cup {y} /\ A3 = A2 \cup {x} => A3 = A1 \cup {x, y}
    OBVIOUS
  <2> QED BY <1>1, <1>2, <2>1
<1>5. TwoMore(w, T, s, x, y)
  BY <1>1, <1>2, <1>3, <1>4 DEF TwoMore
<1> QED BY <1>5 DEF w, v

\* The loop of SplitDown: with H in use, the first free block of r.order may
\* have a free buddy and no other has.
SplitStates == [b : Tables, order : Order]
Splitting(r, H) ==
  \E G \in SUBSET Blocks :
    /\ IsTable(r.b, G) /\ IsPartition(G \cup H) /\ G \cap H = {} /\ InUse(r.b, H)
    /\ r.b.ptr[r.order] # <<>> /\ NoPairBut(G, Blk(Head(r.b.ptr[r.order]), r.order))

\* The first free block of order k becomes its halves.
LEMMA SplitIs ==
  ASSUME NEW bb \in Tables, NEW H, NEW k \in Order, k # 0, Splitting([b |-> bb, order |-> k], H),
         NEW r, r = [b |-> buddy_split(bb, k), order |-> k - 1]
  PROVE  r \in SplitStates /\ Splitting(r, H)
<1>1. PICK G \in SUBSET Blocks :
        /\ IsTable(bb, G) /\ IsPartition(G \cup H) /\ G \cap H = {} /\ InUse(bb, H)
        /\ bb.ptr[k] # <<>> /\ NoPairBut(G, Blk(Head(bb.ptr[k]), k))
  BY DEF Splitting
<1> DEFINE o == Head(bb.ptr[k])
           n == k - 1
           e == o + Size[n]
           z == Blk(o, k)
           lo == Blk(o, n)
           hi == Blk(e, n)
           a == LIST_REMOVE(bb, k, o)
           s == a.ptr[n]
           u == <<o>> \o (<<e>> \o s)
           h == [[a.hdr EXCEPT ![o] = Header("FREE", n)] EXCEPT ![e] = Header("FREE", n)]
           K == (G \ {z}) \cup {lo, hi}
           c == buddy_split(bb, k)
<1>2. o \in Arena /\ z \in G /\ z \in Blocks /\ z.at = o /\ z.order = k
  BY <1>1, HeadIs, BlkIs
<1>3. /\ n \in Order /\ n \in Nat /\ k \in Nat /\ n < MaxOrder /\ MaxOrder \in Nat /\ n # k
  BY SizeIs DEF Order
<1>4. lo.at = o /\ lo.order = n /\ hi.at = e /\ hi.order = n
  BY BlkIs
<1>5. /\ lo \in Blocks /\ hi \in Blocks /\ AreHalves(z, lo, hi) /\ Buddy(lo) = hi /\ Buddy(hi) = lo
  <2> DEFINE lo2 == Blk(z.at, z.order - 1)
             hi2 == Blk(z.at + Size[z.order - 1], z.order - 1)
  <2>1. lo = lo2 /\ hi = hi2 /\ z.order # 0
    BY <1>2
  <2>2. lo2 \in Blocks /\ hi2 \in Blocks /\ AreHalves(z, lo2, hi2) /\ Buddy(lo2) = hi2 /\ Buddy(hi2) = lo2
    BY <1>2, <2>1, HalvesAre
  <2> QED BY <2>1, <2>2
<1>6. IsTable(a, G \ {z}) /\ a.hdr = bb.hdr
  <2> HIDE DEF o, z
  <2> DEFINE a2 == LIST_REMOVE(bb, z.order, z.at)
  <2>1. a = a2
    BY <1>2
  <2>2. IsTable(a2, G \ {z}) /\ a2.hdr = bb.hdr
    BY <1>1, <1>2, RemoveIs
  <2> QED BY <2>1, <2>2
<1>7. c = [a EXCEPT !.count[n] = a.count[n] + 2, !.ptr[n] = u,
                    !.hdr[o] = Header("FREE", n), !.hdr[e] = Header("FREE", n)]
  BY DEF buddy_split
<1> HIDE DEF c, a, o, e, z, lo, hi
<1>8. o \in Arena /\ e \in Arena /\ e # o
  <2>1. lo.at \in Arena /\ hi.at \in Arena
    BY <1>5, BlockIs
  <2>2. lo # hi
    BY <1>2, <1>5, HalfUnits
  <2>3. lo = Blk(o, n) /\ hi = Blk(e, n)
    BY DEF lo, hi
  <2> QED BY <1>4, <2>1, <2>2, <2>3
<1>9. /\ IsPartition(((G \cup H) \ {z}) \cup {lo, hi}) /\ lo \notin G \cup H /\ hi \notin G \cup H
  <2> DEFINE P == G \cup H
  <2>1. IsPartition(P) /\ z \in P
    BY <1>1, <1>2
  <2> HIDE DEF P
  <2>2. IsPartition((P \ {z}) \cup {lo, hi}) /\ lo \notin P /\ hi \notin P
    BY <1>5, <2>1, Splits
  <2> QED BY <2>2 DEF P
<1>10. K \cup H = ((G \cup H) \ {z}) \cup {lo, hi} /\ K \cap H = {} /\ K \in SUBSET Blocks
  BY <1>1, <1>2, <1>5, <1>9
<1>11. s \in Seq(Arena) /\ Distinct(s) /\ a.count[n] = Len(s) /\ o \notin On(s) /\ e \notin On(s)
  <2>1. /\ s \in Seq(Arena) /\ Distinct(s) /\ a.count[n] = Len(s)
        /\ \A y \in Arena : y \in On(s) <=> Blk(y, n) \in G \ {z}
    BY <1>3, <1>6 DEF IsTable, Tables
  <2>2. lo = Blk(o, n) /\ hi = Blk(e, n)
    BY DEF lo, hi
  <2> QED BY <1>8, <1>9, <2>1, <2>2
<1>12. /\ u \in Seq(Arena) /\ Distinct(u) /\ Len(s) \in Nat
       /\ Len(u) = Len(s) + 2 /\ On(u) = On(s) \cup {o, e} /\ u # <<>> /\ Head(u) = o
  <2> HIDE DEF s
  <2>1. TwoMore(u, Arena, s, o, e)
    BY <1>8, <1>11, TwoBefore, Zenon
  <2> HIDE DEF u
  <2> QED BY <2>1 DEF TwoMore
<1>13. h \in [Arena -> Heads] /\ \A y \in Arena : h[y] = IF y = o \/ y = e THEN Header("FREE", n) ELSE bb.hdr[y]
  <2>1. a.hdr \in [Arena -> Heads] /\ Header("FREE", n) \in Heads
    BY <1>3, <1>6, HeadersAre DEF IsTable, Tables
  <2> QED BY <1>6, <1>8, <2>1
<1> HIDE DEF u, h, s
<1>14. c = Changed(a, n, u, Len(u), h)
  <2>1. a \in Tables
    BY <1>6 DEF IsTable
  <2>2. a.count[n] + 2 = Len(u)
    BY <1>11, <1>12
  <2>3. c = [a EXCEPT !.count[n] = Len(u), !.ptr[n] = u, !.hdr[o] = Header("FREE", n), !.hdr[e] = Header("FREE", n)]
    BY <1>7, <2>2
  <2> QED BY <2>1, <2>3 DEF Tables, Changed, h
<1>15. /\ c \in Tables /\ c.hdr = h
       /\ \A j \in Order : c.ptr[j] = (IF j = n THEN u ELSE a.ptr[j]) /\ c.count[j] = (IF j = n THEN Len(u) ELSE a.count[j])
  <2>1. a \in Tables /\ Len(u) \in Nat /\ u \in Seq(Arena) /\ h \in [Arena -> Heads] /\ n \in Order
    BY <1>3, <1>6, <1>12, <1>13 DEF IsTable
  <2> HIDE DEF n
  <2> QED BY <1>14, <2>1, ChangedIs
<1>16. ASSUME NEW j \in Order
       PROVE  /\ Distinct(c.ptr[j]) /\ c.count[j] = Len(c.ptr[j])
              /\ \A y \in Arena : y \in On(c.ptr[j]) <=> Blk(y, j) \in K
  <2>1. /\ Distinct(a.ptr[j]) /\ a.count[j] = Len(a.ptr[j])
        /\ \A y \in Arena : y \in On(a.ptr[j]) <=> Blk(y, j) \in G \ {z}
    BY <1>6 DEF IsTable
  <2>2. \A y \in Arena : (Blk(y, j) = lo <=> y = o /\ j = n) /\ (Blk(y, j) = hi <=> y = e /\ j = n)
    BY BlkIs DEF lo, hi
  <2>3. CASE j = n
    BY <1>12, <1>15, <2>1, <2>2, <2>3 DEF s
  <2>4. CASE j # n
    BY <1>15, <2>1, <2>2, <2>4
  <2> QED BY <2>3, <2>4
<1>17. \A y \in (G \cup H) \ {z} : y.at \in Arena /\ h[y.at] = bb.hdr[y.at]
  <2>1. TAKE y \in (G \cup H) \ {z}
  <2>2. y \in Blocks /\ Units(y) \cap Units(z) = {}
    BY <1>1, <1>2 DEF IsPartition
  <2>3. y.at \in Units(y) /\ y.at \in Arena /\ lo.at \in Units(lo) /\ hi.at \in Units(hi)
    BY <1>5, <2>2, BlockIs
  <2>4. lo.at \in Units(z) /\ hi.at \in Units(z)
    BY <1>2, <1>5, <2>3, HalfUnits
  <2> QED BY <1>4, <1>13, <2>2, <2>3, <2>4
<1>18. \A y \in K : c.hdr[y.at] = Header("FREE", y.order)
  <2>1. TAKE y \in K
  <2>2. CASE y = lo \/ y = hi
    BY <1>4, <1>8, <1>13, <1>15, <2>2
  <2>3. CASE y \in G \ {z}
    BY <1>1, <1>15, <1>17, <2>3 DEF IsTable
  <2> QED BY <2>2, <2>3
<1>19. InUse(c, H)
  BY <1>1, <1>2, <1>15, <1>17 DEF InUse
<1>20. c.ptr[n] # <<>> /\ Blk(Head(c.ptr[n]), n) = lo
  BY <1>3, <1>12, <1>15 DEF lo
<1>21. NoPairBut(K, lo)
  <2>1. SUFFICES ASSUME NEW y \in K, y # lo, Buddy(y) # lo, Buddy(y) \in K PROVE FALSE
    BY DEF NoPairBut
  <2>2. y # hi
    BY <1>5, <2>1
  <2>3. y \in G \ {z} /\ y \in Blocks
    BY <2>1, <2>2
  <2>4. Buddy(y) # hi
    <3>1. SUFFICES ASSUME Buddy(y) = hi PROVE FALSE
      OBVIOUS
    <3>2. y.order = n
      BY <1>4, <3>1, BlkIs DEF Buddy
    <3>3. Buddy(Buddy(y)) = y
      BY <1>3, <2>3, <3>2, BuddyIs
    <3> QED BY <1>5, <2>1, <3>1, <3>3
  <2>5. Buddy(y) \in G \ {z}
    BY <2>1, <2>4
  <2> QED BY <1>1, <2>3, <2>5 DEF NoPairBut, z, o
<1> HIDE DEF K, n
<1>22. IsTable(c, K)
  BY <1>10, <1>15, <1>16, <1>18 DEF IsTable
<1>23. r.b = c /\ r.order = n /\ r \in SplitStates
  BY <1>3, <1>15 DEF SplitStates, c, n
<1> QED BY <1>9, <1>10, <1>19, <1>20, <1>21, <1>22, <1>23 DEF Splitting

\* The first free block z of order k, in a table with G free and H in use.
HasFirst(bb, G, H, k) ==
  /\ G \in SUBSET Blocks /\ k \in Order
  /\ IsTable(bb, G) /\ IsPartition(G \cup H) /\ G \cap H = {} /\ InUse(bb, H)
  /\ bb.ptr[k] # <<>> /\ NoPairBut(G, Blk(Head(bb.ptr[k]), k))

\* Splitting a block of order j as often as it takes gives one of order k.
LEMMA SplitDownIs ==
  ASSUME NEW bb, NEW G, NEW H, NEW j, HasFirst(bb, G, H, j), NEW k \in Order, k <= j
  PROVE  \E K : HasFirst(SplitDown(bb, j, k), K, H, k)
<1> DEFINE n == MaxOrder
           start == [b |-> bb, order |-> j]
           loop[i \in 0 .. n] == IF i = 0 THEN start ELSE SplitNext(loop[i - 1], k)
           S == {r \in SplitStates : Splitting(r, H) /\ r.order >= k}
           F == [r \in S |-> SplitNext(r, k)]
<1>1. SplitDown(bb, j, k) = loop[n].b
  BY Zenon DEF SplitDown
<1>2. n \in Nat /\ k \in Nat /\ j \in Order /\ j \in Nat /\ j <= n
  BY SizeIs DEF Order, HasFirst
<1>3. start \in S
  <2>1. start.b = bb /\ start.order = j /\ start \in SplitStates
    BY <1>2 DEF SplitStates, HasFirst, IsTable
  <2> HIDE DEF start
  <2>2. Splitting(start, H)
    BY <2>1 DEF Splitting, HasFirst
  <2> QED BY <2>1, <2>2
<1>4. ASSUME NEW r \in S
      PROVE  SplitNext(r, k) \in S /\ SplitNext(r, k).order = IF r.order = k THEN k ELSE r.order - 1
  <2> DEFINE t == SplitNext(r, k)
  <2>1. r \in SplitStates /\ Splitting(r, H) /\ r.order >= k
    OBVIOUS
  <2>2. r.b \in Tables /\ r.order \in Order /\ r.order \in Nat /\ r = [b |-> r.b, order |-> r.order]
    BY <2>1 DEF SplitStates, Order
  <2>3. CASE r.order = k
    BY <2>1, <2>3 DEF SplitNext
  <2>4. CASE r.order # k
    <3> DEFINE c == r.b
               h == r.order
    <3>1. t = [b |-> buddy_split(c, h), order |-> h - 1]
      BY <2>4 DEF SplitNext
    <3>2. h # 0 /\ h - 1 >= k
      BY <1>2, <2>1, <2>2, <2>4
    <3>3. c \in Tables /\ h \in Order /\ Splitting([b |-> c, order |-> h], H)
      BY <2>1, <2>2
    <3>4. t.order = h - 1
      BY <3>1
    <3> HIDE DEF c, h, t
    <3>5. t \in SplitStates /\ Splitting(t, H)
      BY <3>1, <3>2, <3>3, SplitIs
    <3> QED BY <2>4, <3>2, <3>4, <3>5 DEF h, t
  <2> QED BY <2>3, <2>4
<1>5. F \in [S -> S]
  BY <1>4
<1>6. loop = [i \in 0 .. n |-> IF i = 0 THEN start ELSE SplitNext(loop[i - 1], k)]
  <2> HIDE DEF S, F, start, n
  <2>1. PICK f : Goes(f, n, S, start, F)
    BY <1>2, <1>3, <1>5, Recursion, Zenon
  <2>2. ASSUME NEW i \in 0 .. n
        PROVE  f[i] = IF i = 0 THEN start ELSE SplitNext(f[i - 1], k)
    <3>1. CASE i = 0
      BY <2>1, <3>1 DEF Goes
    <3>2. CASE i # 0
      <4>1. i \in 1 .. n /\ i - 1 \in 0 .. n
        BY <1>2, <3>2
      <4>2. f[i] = F[f[i - 1]] /\ f[i - 1] \in S
        BY <2>1, <4>1 DEF Goes
      <4> QED BY <3>2, <4>2 DEF F
    <3> QED BY <3>1, <3>2
  <2>3. f = [i \in 0 .. n |-> f[i]]
    BY <2>1 DEF Goes
  <2>4. f = [i \in 0 .. n |-> IF i = 0 THEN start ELSE SplitNext(f[i - 1], k)]
    BY <2>2, <2>3
  <2> QED BY <2>4
<1> HIDE DEF loop
<1>7. loop[0] = start /\ \A i \in 0 .. n - 1 : loop[i + 1] = SplitNext(loop[i], k)
  <2>1. loop[0] = start
    BY <1>2, <1>6
  <2>2. ASSUME NEW i \in 0 .. n - 1 PROVE loop[i + 1] = SplitNext(loop[i], k)
    <3>1. i + 1 \in 0 .. n /\ i + 1 # 0 /\ (i + 1) - 1 = i
      BY <1>2
    <3> QED BY <1>6, <3>1
  <2> QED BY <2>1, <2>2
<1> DEFINE T == {i \in 0 .. n : loop[i] \in S /\ (loop[i].order = k \/ loop[i].order = j - i)}
<1>8. \A i \in 0 .. n : i \in T
  <2>1. 0 \in T
    <3>1. start.order = j - 0
      BY <1>2
    <3> HIDE DEF S, start
    <3> QED BY <1>2, <1>3, <1>7, <3>1
  <2>2. ASSUME NEW i \in 0 .. n - 1, i \in T PROVE i + 1 \in T
    <3> DEFINE r == loop[i]
               t == loop[i + 1]
    <3>1. r \in S /\ (r.order = k \/ r.order = j - i) /\ t = SplitNext(r, k) /\ i + 1 \in 0 .. n
      BY <1>2, <1>7, <2>2
    <3> HIDE DEF S, r, t
    <3>2. t \in S /\ t.order = IF r.order = k THEN k ELSE r.order - 1
      BY <1>4, <3>1
    <3>3. t.order = k \/ t.order = j - (i + 1)
      BY <1>2, <3>1, <3>2
    <3> QED BY <3>1, <3>2, <3>3 DEF t
  <2> HIDE DEF T, n
  <2> QED BY <1>2, <2>1, <2>2, UpTo
<1> DEFINE r == loop[n]
<1>9. r \in SplitStates /\ Splitting(r, H) /\ r.order = k
  <2>1. r \in S /\ (r.order = k \/ r.order = j - n)
    BY <1>2, <1>8
  <2>2. r \in SplitStates /\ Splitting(r, H) /\ r.order >= k /\ r.order \in Nat
    BY <2>1 DEF SplitStates, Order
  <2> HIDE DEF r
  <2> QED BY <1>2, <2>1, <2>2
<1> HIDE DEF r
<1>10. PICK K \in SUBSET Blocks :
         /\ IsTable(r.b, K) /\ IsPartition(K \cup H) /\ K \cap H = {} /\ InUse(r.b, H)
         /\ r.b.ptr[k] # <<>> /\ NoPairBut(K, Blk(Head(r.b.ptr[k]), k))
  BY <1>9 DEF Splitting
<1>11. HasFirst(r.b, K, H, k)
  BY <1>10 DEF HasFirst
<1> QED BY <1>1, <1>11 DEF r

\* What an allocation gives: a block that was not in use, and is.
Allocated(r, k, H) ==
  LET x == Blk(r.at, k)
  IN  Clear(H, x) /\ x \notin H /\ HasInUse(r.b, H \cup {x})

\* What buddy_alloc does.
LEMMA BlockGot ==
  ASSUME NEW bb, NEW H, HasInUse(bb, H), NEW k \in Order, Enough(bb, k) # {}
  PROVE  Allocated(buddy_alloc(bb, k), k, H)
<1> DEFINE j == Min(Enough(bb, k))
           s == SplitDown(bb, j, k)
           o == Head(s.ptr[k])
           x == Blk(o, k)
           a == LIST_REMOVE(s, k, o)
           h == [a.hdr EXCEPT ![o] = [s.hdr[o] EXCEPT !.use = "USED"]]
           c == [a EXCEPT !.hdr[o] = [s.hdr[o] EXCEPT !.use = "USED"]]
           r == buddy_alloc(bb, k)
<1>1. PICK F \in SUBSET Blocks : BuddyInv(bb, F, H)
  BY DEF HasInUse
<1>2. j \in Enough(bb, k)
  <2> DEFINE E == Enough(bb, k)
  <2>1. E \in SUBSET Nat /\ E # {}
    BY SizeIs DEF Enough, Order
  <2> HIDE DEF E
  <2>2. \E u \in E : \A v \in E : u <= v
    BY <2>1, NatMin
  <2>3. Min(E) = CHOOSE u \in E : \A v \in E : u <= v
    BY DEF Min
  <2>4. Min(E) \in E
    BY <2>2, <2>3
  <2> QED BY <2>4 DEF E
<1>3. r = [b |-> c, at |-> o]
  BY DEF buddy_alloc
<1> HIDE DEF j
<1>4. j \in Order /\ k <= j /\ bb.count[j] > 0
  <2>1. j \in k .. MaxOrder /\ bb.count[j] > 0
    BY <1>2 DEF Enough
  <2> QED BY <2>1, SizeIs DEF Order
<1>5. HasFirst(bb, F, H, j)
  <2>1. bb.ptr[j] # <<>>
    BY <1>1, <1>4 DEF BuddyInv, IsTable
  <2>2. NoPairBut(F, Blk(Head(bb.ptr[j]), j))
    BY <1>1 DEF BuddyInv, NoPair, NoPairBut
  <2> QED BY <1>1, <1>4, <2>1, <2>2 DEF BuddyInv, HasFirst
<1>6. PICK K : HasFirst(s, K, H, k)
  <2> HIDE DEF s
  <2>1. \E K : HasFirst(SplitDown(bb, j, k), K, H, k)
    BY <1>4, <1>5, SplitDownIs, Zenon
  <2> QED BY <2>1 DEF s
<1> HIDE DEF s
<1>7. /\ K \in SUBSET Blocks
      /\ IsTable(s, K) /\ IsPartition(K \cup H) /\ K \cap H = {} /\ InUse(s, H)
      /\ s.ptr[k] # <<>> /\ NoPairBut(K, x)
  BY <1>6 DEF HasFirst
<1>8. o \in Arena /\ x \in K /\ x \in Blocks /\ x.at = o /\ x.order = k
  BY <1>7, HeadIs, BlkIs
<1>9. IsTable(a, K \ {x}) /\ a.hdr = s.hdr
  <2> HIDE DEF o, x
  <2> DEFINE a2 == LIST_REMOVE(s, x.order, x.at)
  <2>1. a = a2
    BY <1>8
  <2>2. IsTable(a2, K \ {x}) /\ a2.hdr = s.hdr
    BY <1>7, <1>8, RemoveIs
  <2> QED BY <2>1, <2>2
<1> HIDE DEF a, o, x
<1>10. /\ h \in [Arena -> Heads] /\ h[o] = Header("USED", k)
       /\ \A y \in Arena : y # o => h[y] = s.hdr[y]
  <2>1. a.hdr \in [Arena -> Heads] /\ Header("USED", k) \in Heads
    BY <1>9, HeadersAre DEF IsTable, Tables
  <2>2. s.hdr[o] = Header("FREE", k)
    BY <1>7, <1>8 DEF IsTable
  <2>3. [s.hdr[o] EXCEPT !.use = "USED"] = Header("USED", k)
    BY <2>2 DEF Header
  <2>4. h = [a.hdr EXCEPT ![o] = Header("USED", k)]
    BY <2>3
  <2> HIDE DEF h
  <2> QED BY <1>8, <1>9, <2>1, <2>4
<1>11. c = [a EXCEPT !.hdr = h]
  <2>1. a \in Tables
    BY <1>9 DEF IsTable
  <2> QED BY <2>1 DEF Tables
<1> HIDE DEF h, c
<1>12. c \in Tables /\ c.hdr = h /\ c.ptr = a.ptr /\ c.count = a.count
  <2>1. a \in Tables
    BY <1>9 DEF IsTable
  <2> QED BY <1>10, <1>11, <2>1 DEF Tables
<1>13. \A y \in (K \cup H) \ {x} : y.at \in Arena /\ h[y.at] = s.hdr[y.at] /\ Units(y) \cap Units(x) = {}
  <2>1. TAKE y \in (K \cup H) \ {x}
  <2>2. y \in Blocks /\ Units(y) \cap Units(x) = {}
    BY <1>7, <1>8 DEF IsPartition
  <2>3. y.at \in Units(y) /\ y.at \in Arena /\ x.at \in Units(x)
    BY <1>8, <2>2, BlockIs
  <2> QED BY <1>8, <1>10, <2>2, <2>3
<1> DEFINE G == K \ {x}
           I == H \cup {x}
<1>14. IsTable(c, G)
  <2>1. \A y \in G : c.hdr[y.at] = Header("FREE", y.order)
    BY <1>7, <1>12, <1>13 DEF IsTable
  <2> HIDE DEF G
  <2> QED BY <1>9, <1>12, <2>1 DEF IsTable, G
<1>15. InUse(c, I)
  BY <1>7, <1>8, <1>10, <1>12, <1>13 DEF InUse
<1>16. IsPartition(G \cup I) /\ G \cap I = {} /\ G \in SUBSET Blocks
  <2>1. G \cup I = K \cup H
    BY <1>8
  <2>2. G \cap I = {}
    BY <1>7
  <2> HIDE DEF I
  <2> QED BY <1>7, <2>1, <2>2
<1>17. NoPair(G)
  BY <1>7 DEF NoPair, NoPairBut
<1> HIDE DEF G, I
<1>18. HasInUse(c, I)
  BY <1>14, <1>15, <1>16, <1>17 DEF HasInUse, BuddyInv
<1>19. x \notin H /\ Clear(H, x)
  BY <1>7, <1>8, <1>13 DEF Clear
<1>20. r.b = c /\ Blk(r.at, k) = x
  BY <1>3 DEF x
<1> HIDE DEF r
<1> QED BY <1>18, <1>19, <1>20 DEF Allocated, I, r
-----------------------------------------------------------------------------
\* At first there is one free block.
LEMMA TableIs == HasInUse(create_buddy_table, {})
<1> DEFINE x == Blk(0, MaxOrder)
           F == {x}
           c == create_buddy_table
           p == [k \in Order |-> IF k = MaxOrder THEN <<0>> ELSE <<>>]
           q == [k \in Order |-> IF k = MaxOrder THEN 1 ELSE 0]
           h == [y \in Arena |-> IF y = 0 THEN Header("FREE", MaxOrder) ELSE Cleared]
           e == Size[MaxOrder]
<1>1. MaxOrder \in Nat /\ MaxOrder \in Order /\ e \in Nat \ {0} /\ x.at = 0 /\ x.order = MaxOrder
  BY SizeIs, BlkIs DEF Order
<1>2. Arena = 0 .. e - 1
  BY DEF Arena
<1>3. Units(x) = 0 .. 0 + e - 1
  BY <1>1 DEF Units
<1> HIDE DEF e
<1>4. 0 \in Arena /\ Units(x) = Arena
  BY <1>1, <1>2, <1>3
<1>5. x \in Blocks
  <2>1. 0 = 0 * Size[MaxOrder] /\ 0 + Size[MaxOrder] <= Size[MaxOrder]
    BY <1>1 DEF e
  <2>2. x = [at |-> 0, order |-> MaxOrder]
    BY DEF Blk
  <2> HIDE DEF x
  <2>3. x \in [at : Arena, order : Order]
    BY <1>1, <1>4, <2>2
  <2> QED BY <1>1, <2>1, <2>3 DEF Blocks
<1>6. c = [hdr |-> h, ptr |-> p, count |-> q]
  BY DEF create_buddy_table
<1>7. p \in [Order -> Seq(Arena)] /\ q \in [Order -> Nat] /\ h \in [Arena -> Heads]
  <2>1. h \in [Arena -> Heads]
    BY <1>1, HeadersAre
  <2>2. \A k \in Order : p[k] \in Seq(Arena)
    BY <1>4
  <2> HIDE DEF h
  <2> QED BY <2>1, <2>2
<1>8. /\ p[MaxOrder] = <<0>> /\ q[MaxOrder] = 1 /\ h[0] = Header("FREE", MaxOrder)
      /\ \A k \in Order : k # MaxOrder => p[k] = <<>> /\ q[k] = 0
  BY <1>1, <1>4
<1> HIDE DEF p, q, h, c, x
<1>9. c \in Tables /\ c.hdr = h /\ c.ptr = p /\ c.count = q
  BY <1>6, <1>7 DEF Tables
<1>10. ASSUME NEW k \in Order
       PROVE  /\ Distinct(c.ptr[k]) /\ c.count[k] = Len(c.ptr[k])
              /\ \A o \in Arena : o \in On(c.ptr[k]) <=> Blk(o, k) \in F
  <2>1. \A o \in Arena : Blk(o, k) \in F <=> o = 0 /\ k = MaxOrder
    BY BlkIs DEF x
  <2>2. CASE k = MaxOrder
    <3>1. c.ptr[k] = <<0>> /\ c.count[k] = 1 /\ Len(<<0>>) = 1 /\ <<0>>[1] = 0
      BY <1>8, <1>9, <2>2
    <3>2. Distinct(<<0>>) /\ On(<<0>>) = {0}
      BY <3>1 DEF Distinct, On
    <3> QED BY <2>1, <2>2, <3>1, <3>2
  <2>3. CASE k # MaxOrder
    <3>1. c.ptr[k] = <<>> /\ c.count[k] = 0 /\ Len(<<>>) = 0
      BY <1>8, <1>9, <2>3
    <3>2. Distinct(<<>>) /\ On(<<>>) = {}
      BY <3>1 DEF Distinct, On
    <3> QED BY <2>1, <2>3, <3>1, <3>2
  <2> QED BY <2>2, <2>3
<1>11. IsTable(c, F)
  BY <1>1, <1>5, <1>8, <1>9, <1>10 DEF IsTable
<1>12. IsPartition(F \cup {})
  BY <1>4, <1>5 DEF IsPartition
<1>13. NoPair(F)
  <2>1. SUFFICES ASSUME Buddy(x) = x PROVE FALSE
    BY DEF NoPair
  <2>2. BuddyOf(x.at, x.order) = x.at
    BY <2>1, BlkIs DEF Buddy
  <2>3. BuddyOf(x.at, x.order) \notin Arena
    BY <1>1, <1>5, TopIs
  <2> QED BY <1>1, <1>4, <2>2, <2>3
<1>14. InUse(c, {})
  BY DEF InUse
<1>15. BuddyInv(c, F, {})
  BY <1>11, <1>12, <1>13, <1>14 DEF BuddyInv
<1> QED BY <1>5, <1>15 DEF HasInUse, c

\* What is free is in the buckets.
LEMMA FreeBlocksAre ==
  ASSUME NEW bb, NEW F, IsTable(bb, F)
  PROVE  FreeBlocks(bb) = F
<1>1. \A k \in Order : ToSet(bb.ptr[k]) = On(bb.ptr[k]) /\ On(bb.ptr[k]) \subseteq Arena
  <2>1. TAKE k \in Order
  <2>2. bb.ptr[k] \in Seq(Arena)
    BY DEF IsTable, Tables
  <2> DEFINE s == bb.ptr[k]
  <2> HIDE DEF s
  <2>3. s \in Seq(Arena)
    BY <2>2 DEF s
  <2>4. DOMAIN s = 1 .. Len(s) /\ \A i \in 1 .. Len(s) : s[i] \in Arena
    BY <2>3
  <2>5. ToSet(s) = On(s) /\ On(s) \subseteq Arena
    BY <2>4 DEF ToSet, On
  <2> QED BY <2>5 DEF s
<1> DEFINE Of(k) == {[at |-> o, order |-> k] : o \in ToSet(bb.ptr[k])}
<1>2. FreeBlocks(bb) = UNION {Of(k) : k \in Order}
  BY DEF FreeBlocks
<1>3. ASSUME NEW y \in F PROVE y \in FreeBlocks(bb)
  <2>1. y = Blk(y.at, y.order) /\ y.order \in Order /\ y.at \in Arena
    BY BlockIs DEF IsTable
  <2>2. y.at \in ToSet(bb.ptr[y.order])
    BY <1>1, <2>1 DEF IsTable
  <2>3. y \in Of(y.order)
    BY <2>1, <2>2 DEF Blk
  <2> HIDE DEF Of
  <2> QED BY <1>2, <2>1, <2>3
<1>4. ASSUME NEW y \in FreeBlocks(bb) PROVE y \in F
  <2>1. PICK k \in Order : y \in Of(k)
    <3> HIDE DEF Of
    <3> QED BY <1>2
  <2>2. PICK o \in ToSet(bb.ptr[k]) : y = [at |-> o, order |-> k]
    BY <2>1
  <2> QED BY <1>1, <2>2 DEF IsTable, Blk
<1> QED BY <1>3, <1>4

\* Each unit is in one block.
LEMMA PartitionIs ==
  ASSUME HasInUse(b, HeldBlocks)
  PROVE  Partition
<1> DEFINE H == HeldBlocks
<1>1. PICK F \in SUBSET Blocks : BuddyInv(b, F, H)
  BY DEF HasInUse
<1> HIDE DEF H
<1>2. /\ IsTable(b, F) /\ IsPartition(F \cup H) /\ InUse(b, H) /\ NoPair(F) /\ F \subseteq Blocks
  BY <1>1 DEF BuddyInv
<1>3. FreeBlocks(b) = F
  BY <1>2, FreeBlocksAre
<1>4. ASSUME NEW x \in Arena
      PROVE  Cardinality({blk \in F \cup H : x \in Units(blk)}) = 1
  <2>1. PICK z \in F \cup H : x \in Units(z)
    BY <1>2 DEF IsPartition
  <2>2. \A y \in F \cup H : x \in Units(y) => y = z
    BY <1>2, <2>1 DEF IsPartition
  <2> DEFINE P == F \cup H
  <2>3. {blk \in P : x \in Units(blk)} = {z}
    <3>1. z \in P /\ \A y \in P : x \in Units(y) => y = z
      BY <2>1, <2>2
    <3> HIDE DEF P
    <3> QED BY <2>1, <3>1
  <2>4. Cardinality({z}) = 1
    BY FS_Singleton
  <2> QED BY <2>3, <2>4
<1>5. ASSUME NEW y \in F
      PROVE  b.hdr[y.at] = Header("FREE", y.order) /\ [y EXCEPT !.at = BuddyOf(y.at, y.order)] \notin F
  <2>1. b.hdr[y.at] = Header("FREE", y.order)
    BY <1>2 DEF IsTable
  <2>2. y = [at |-> y.at, order |-> y.order]
    BY <1>2, BlockIs DEF Blk
  <2>3. [y EXCEPT !.at = BuddyOf(y.at, y.order)] = Buddy(y)
    BY <2>2 DEF Buddy, Blk
  <2>4. Buddy(y) \notin F
    BY <1>2 DEF NoPair
  <2> QED BY <2>1, <2>3, <2>4
<1>6. \A k \in Order : b.count[k] = Len(b.ptr[k])
  BY <1>2 DEF IsTable
<1>7. \A y \in H : b.hdr[y.at] = Header("USED", y.order)
  BY <1>2 DEF InUse
<1> QED BY <1>3, <1>4, <1>5, <1>6, <1>7 DEF Partition, H
-----------------------------------------------------------------------------
\* The blocks that the events hold by de.
BlocksOf(de) == {de[e] : e \in {g \in Event : de[g] # Null}}

\* By de only processed events, those on p, hold blocks, each its own, and the
\* table bb says that these are in use.
Deltas(p, bb, de) ==
  /\ de \in [Event -> Blocks \cup {Null}]
  /\ \A e \in Event : de[e] # Null => e \in On(p)
  /\ \A e, g \in Event : de[e] = de[g] /\ de[e] # Null => e = g
  /\ HasInUse(bb, BlocksOf(de))

\* Only they hold lines, ou, and these and the op buffers left are all there are.
Lines(p, ou, op) ==
  /\ ou \in [Event -> {0, 1}] /\ op \in Nat
  /\ \A e \in Event : ou[e] # 0 => e \in On(p)
  /\ op + Cardinality({e \in Event : ou[e] # 0}) = NumOut

\* The state after the i-th newest event of p, when it is cu after the newest.
After(p, cu, be, i) == IF i = 1 THEN cu ELSE be[p[i - 1]]

\* Each event of p is undone to the state it found, be.
Undoes(p, me, de, cu, be) ==
  /\ me \in [Arena -> 0 .. Bytes - 1] /\ cu \in 0 .. Bytes - 1 /\ be \in [Event -> 0 .. Bytes - 1]
  /\ \A i \in 1 .. Len(p) :
       be[p[i]] = IF de[p[i]] = Null THEN After(p, cu, be, i)
                  ELSE (After(p, cu, be, i) - me[de[p[i]].at]) % Bytes

\* What is carried by the events of p.
Carried(p, bb, me, de, cu, ou, op, be) ==
  Deltas(p, bb, de) /\ Lines(p, ou, op) /\ Undoes(p, me, de, cu, be)

\* In this state.
CarriedNow(p) == Carried(p, b, mem, delta_buddy, cur_state, out_msgs, output, before)

\* The inductive invariant of EventMemory.
MemoryInv ==
  /\ handler \in Programs
  /\ \E f, v, p, w \in Lists : Good(m, owner, caused, nev, f, v, p, w) /\ CarriedNow(p)

\* Null is no block.
LEMMA NullNoBlock == Null \notin Blocks
BY MemoryAssumption DEF Blocks

\* A difference of bytes, taken from the new state, gives the old one.
LEMMA DifferenceBack ==
  ASSUME NEW d \in Nat \ {0}, NEW x \in 0 .. d - 1, NEW y \in 0 .. d - 1
  PROVE  (x - y) % d \in 0 .. d - 1 /\ (x - ((x - y) % d)) % d = y
<1>1. x \in Int /\ y \in Int /\ 0 <= x /\ x < d /\ 0 <= y /\ y < d
  OBVIOUS
<1>2. \A z \in 0 .. d - 1 : z % d = z /\ (z - d) % d = z
  OBVIOUS
<1>3. CASE x >= y
  <2>1. x - y \in 0 .. d - 1 /\ x - (x - y) = y
    BY <1>1, <1>3
  <2> QED BY <1>1, <1>2, <2>1
<1>4. CASE x < y
  <2>1. (x - y) + d \in 0 .. d - 1 /\ x - ((x - y) + d) = y - d /\ ((x - y) + d) - d = x - y
    BY <1>1, <1>4
  <2>2. (x - y) % d = (x - y) + d
    BY <1>2, <2>1
  <2> QED BY <1>1, <1>2, <2>1, <2>2
<1> QED BY <1>1, <1>3, <1>4

\* What events hold, counted.
LEMMA HoldsOne ==
  ASSUME NEW p, Deltas(p, b, delta_buddy)
  PROVE  HeldBlocks = BlocksOf(delta_buddy) /\ Cardinality(HeldBlocks) = Cardinality(Held)
<1>1. HeldBlocks = BlocksOf(delta_buddy) /\ HeldBlocks = {delta_buddy[e] : e \in Held}
  BY DEF HeldBlocks, Held, BlocksOf
<1> DEFINE f == [e \in Held |-> delta_buddy[e]]
<1>2. IsFiniteSet(Held)
  <2>1. IsFiniteSet(Event)
    BY EventQAssumption, FS_Interval DEF Event
  <2>2. Held \in SUBSET Event
    BY DEF Held
  <2> QED BY <2>1, <2>2, FS_Subset
<1>3. f \in Bijection(Held, HeldBlocks)
  <2>1. \A e, g \in Held : delta_buddy[e] = delta_buddy[g] => e = g
    BY DEF Deltas, Held
  <2>2. f \in [Held -> HeldBlocks] /\ \A y \in HeldBlocks : \E e \in Held : f[e] = y
    BY <1>1
  <2>3. \A e, g \in Held : f[e] = f[g] => e = g
    BY <2>1
  <2> HIDE DEF f
  <2> QED BY <2>2, <2>3 DEF Bijection, Injection, Surjection, IsInjective
<1>4. ExistsBijection(Held, HeldBlocks)
  BY <1>3 DEF ExistsBijection
<1>5. Cardinality(HeldBlocks) = Cardinality(Held)
  BY <1>2, <1>4, FS_Bijection
<1> QED BY <1>1, <1>5
-----------------------------------------------------------------------------
\* f is the loop that starts with a and whose i-th pass is as G[i] says, in S[i].
GoesOn(f, n, S, a, G) ==
  /\ f = [i \in 0 .. n |-> f[i]] /\ f[0] = a
  /\ \A i \in 0 .. n : f[i] \in S[i]
  /\ \A i \in 1 .. n : f[i] = G[i][f[i - 1]]

\* Such a loop has a value at each of its passes.
LEMMA LoopExists ==
  ASSUME NEW n \in Nat, NEW S, NEW a, a \in S[0], NEW G,
         \A i \in 1 .. n : \A x \in S[i - 1] : G[i][x] \in S[i]
  PROVE  \E f : GoesOn(f, n, S, a, G)
<1> DEFINE T == {k \in 0 .. n : \E f : GoesOn(f, k, S, a, G)}
<1>1. 0 \in T
  <2> DEFINE f == [i \in 0 .. 0 |-> a]
  <2>1. f[0] = a /\ f = [i \in 0 .. 0 |-> f[i]] /\ \A i \in 0 .. 0 : i = 0
    OBVIOUS
  <2> HIDE DEF f
  <2>2. GoesOn(f, 0, S, a, G)
    BY <2>1 DEF GoesOn
  <2> QED BY <2>2
<1>2. ASSUME NEW i \in 0 .. n - 1, i \in T
      PROVE  i + 1 \in T
  <2>1. PICK f : GoesOn(f, i, S, a, G)
    BY <1>2
  <2> DEFINE k == i + 1
             g == [j \in 0 .. k |-> IF j = k THEN G[k][f[i]] ELSE f[j]]
  <2>2. i \in Nat /\ k \in 1 .. n /\ k - 1 = i /\ i \in 0 .. i /\ k \in 0 .. n /\ k \in 0 .. k /\ 0 \in 0 .. k /\ k # 0
    OBVIOUS
  <2>3. \A j \in 0 .. k : j = k \/ j \in 0 .. i
    BY <2>2
  <2>4. \A j \in 1 .. k : j = k \/ (j \in 1 .. i /\ j - 1 # k /\ j \in 0 .. k /\ j - 1 \in 0 .. k)
    BY <2>2
  <2> HIDE DEF k
  <2>5. f[i] \in S[i] /\ G[k][f[i]] \in S[k]
    BY <2>1, <2>2 DEF GoesOn
  <2>6. g[0] = a
    BY <2>1, <2>2 DEF GoesOn
  <2>7. \A j \in 0 .. k : g[j] \in S[j]
    BY <2>1, <2>3, <2>5 DEF GoesOn
  <2>8. \A j \in 1 .. k : g[j] = G[j][g[j - 1]]
    <3>1. TAKE j \in 1 .. k
    <3>2. CASE j = k
      <4>1. g[k] = G[k][f[i]]
        BY <2>2
      <4>2. i \in 0 .. k /\ i # k
        BY <2>2
      <4>3. g[i] = f[i]
        BY <4>2
      <4> QED BY <2>2, <3>2, <4>1, <4>3
    <3>3. CASE j # k
      <4>1. j \in 1 .. i /\ j - 1 # k /\ j \in 0 .. k /\ j - 1 \in 0 .. k
        BY <2>4, <3>3
      <4>2. g[j] = f[j] /\ g[j - 1] = f[j - 1]
        BY <3>3, <4>1
      <4>3. f[j] = G[j][f[j - 1]]
        BY <2>1, <4>1 DEF GoesOn
      <4> QED BY <4>2, <4>3
    <3> QED BY <3>2, <3>3
  <2>9. g = [j \in 0 .. k |-> g[j]]
    OBVIOUS
  <2> HIDE DEF g
  <2>10. GoesOn(g, k, S, a, G)
    BY <2>6, <2>7, <2>8, <2>9 DEF GoesOn
  <2> QED BY <2>2, <2>10 DEF k
<1> HIDE DEF T
<1>3. n \in T
  BY <1>1, <1>2, UpTo
<1> QED BY <1>3 DEF T

\* Undoing the events of p one by one.
LEMMA RestoresIs ==
  ASSUME NEW f, NEW v, NEW p, NEW w, Good(m, owner, caused, nev, f, v, p, w),
         Undoes(p, mem, delta_buddy, cur_state, before)
  PROVE  RestoresState
<1> DEFINE n == Len(p)
           Undone[i \in 0 .. n] ==
             IF i = 0 THEN cur_state
             ELSE LET s == Undone[i - 1]
                  IN  IF delta_buddy[p[i]] = Null THEN s ELSE (s - mem[delta_buddy[p[i]].at]) % Bytes
           h == [i \in 0 .. n |-> IF i = 0 THEN cur_state ELSE before[p[i]]]
<1>1. Chain("pevent_q") = p /\ n \in Nat
  BY Chains, GoodLists DEF Lists
<1>2. /\ \A i \in 1 .. n :
            before[p[i]] = IF delta_buddy[p[i]] = Null THEN After(p, cur_state, before, i)
                           ELSE (After(p, cur_state, before, i) - mem[delta_buddy[p[i]].at]) % Bytes
  BY DEF Undoes
<1>3. \A i \in 1 .. n : h[i] = before[p[i]] /\ h[i - 1] = After(p, cur_state, before, i)
  <2>1. TAKE i \in 1 .. n
  <2>2. i \in 0 .. n /\ i - 1 \in 0 .. n /\ i # 0 /\ (i - 1 = 0 <=> i = 1)
    BY <1>1
  <2> QED BY <2>2 DEF After
<1>4. h[0] = cur_state
  BY <1>1
<1> DEFINE Back(s, e) == IF delta_buddy[e] = Null THEN s ELSE (s - mem[delta_buddy[e].at]) % Bytes
<1>5. ASSUME NEW i \in 1 .. n PROVE h[i] = Back(h[i - 1], p[i])
  <2>1. h[i] = before[p[i]] /\ h[i - 1] = After(p, cur_state, before, i)
    BY <1>3
  <2> HIDE DEF h
  <2> QED BY <1>2, <2>1
<1>6. h = [i \in 0 .. n |-> IF i = 0 THEN cur_state ELSE Back(h[i - 1], p[i])]
  <2>1. h = [i \in 0 .. n |-> h[i]]
    OBVIOUS
  <2>2. ASSUME NEW i \in 0 .. n PROVE h[i] = IF i = 0 THEN cur_state ELSE Back(h[i - 1], p[i])
    <3>1. i # 0 => i \in 1 .. n
      BY <1>1
    <3> HIDE DEF h, Back
    <3> QED BY <1>4, <1>5, <3>1
  <2> HIDE DEF h, Back
  <2> QED BY <2>1, <2>2
<1>7. Undone = [i \in 0 .. n |-> IF i = 0 THEN cur_state ELSE Back(Undone[i - 1], p[i])]
  <2> HIDE DEF h
  <2> QED BY <1>6, Zenon
<1> HIDE DEF Undone
<1>8. Undone[0] = cur_state /\ \A i \in 1 .. n : Undone[i] = Back(Undone[i - 1], p[i])
  <2>1. 0 \in 0 .. n /\ \A i \in 1 .. n : i \in 0 .. n /\ i # 0
    BY <1>1
  <2> HIDE DEF Back
  <2> QED BY <1>7, <2>1
<1> DEFINE T == {i \in 0 .. n : Undone[i] = h[i]}
<1>9. \A i \in 0 .. n : i \in T
  <2>1. 0 \in T
    BY <1>1, <1>4, <1>8
  <2>2. ASSUME NEW i \in 0 .. n - 1, i \in T PROVE i + 1 \in T
    <3>1. i + 1 \in 1 .. n /\ i + 1 \in 0 .. n /\ (i + 1) - 1 = i /\ Undone[i] = h[i]
      BY <1>1, <2>2
    <3> HIDE DEF h, Back
    <3>2. Undone[i + 1] = h[i + 1]
      BY <1>5, <1>8, <3>1
    <3> QED BY <3>1, <3>2
  <2> HIDE DEF T
  <2> QED BY <1>1, <2>1, <2>2, UpTo
<1>10. \A i \in 1 .. n : Undone[i] = before[p[i]]
  <2>1. \A i \in 1 .. n : i \in 0 .. n
    BY <1>1
  <2> HIDE DEF h
  <2> QED BY <1>3, <1>9, <2>1
<1> QED BY <1>1, <1>10 DEF RestoresState, Undone
-----------------------------------------------------------------------------
\* The blocks of the events that are not among the first i of s, and no longer
\* those of s.
LeftAfter(s, i) == {delta_buddy[e] : e \in Held \ {s[j] : j \in 1 .. i}}

\* One event of s after the other.
FreeStates == [b : Tables, beyond : BOOLEAN]

\* A pass gives back what the i-th of s holds.
LEMMA FreeDeltaIs ==
  ASSUME NEW p, Deltas(p, b, delta_buddy), NEW s \in Seq(Ref),
         \A i, j \in 1 .. Len(s) : s[i] = s[j] /\ s[i] # Null => i = j,
         NEW i \in 1 .. Len(s), NEW r \in FreeStates, HasInUse(r.b, LeftAfter(s, i - 1))
  PROVE  FreeDelta(r, s[i]) \in FreeStates /\ HasInUse(FreeDelta(r, s[i]).b, LeftAfter(s, i))
<1> DEFINE e == s[i]
           x == delta_buddy[e]
           u == FreeDelta(r, e)
           D == {s[j] : j \in 1 .. i - 1}
           E == {s[j] : j \in 1 .. i}
<1>1. /\ Len(s) \in Nat /\ i \in Nat /\ i - 1 \in Nat /\ e \in Ref
      /\ \A j \in 1 .. i - 1 : j \in 1 .. Len(s) /\ j # i
  OBVIOUS
<1>2. E = D \cup {e}
  <2>1. \A j \in 1 .. i : j = i \/ j \in 1 .. i - 1
    BY <1>1
  <2>2. i \in 1 .. i /\ \A j \in 1 .. i - 1 : j \in 1 .. i
    BY <1>1
  <2> QED BY <2>1, <2>2
<1>3. LeftAfter(s, i - 1) = {delta_buddy[g] : g \in Held \ D} /\ LeftAfter(s, i) = {delta_buddy[g] : g \in Held \ E}
  BY DEF LeftAfter
<1>4. CASE e = Null \/ x = Null
  <2>1. u = r
    BY <1>4 DEF FreeDelta
  <2>2. e \notin Held
    BY <1>4, EventQAssumption DEF Held, Event
  <2>3. Held \ E = Held \ D
    BY <1>2, <2>2
  <2> HIDE DEF D, E, u
  <2> QED BY <1>3, <2>1, <2>3 DEF u
<1>5. CASE e # Null /\ x # Null
  <2> DEFINE f == buddy_free(r.b, x)
             K == LeftAfter(s, i)
  <2>1. u = [b |-> f.b, beyond |-> r.beyond \/ f.beyond]
    BY <1>5 DEF FreeDelta
  <2>2. e \in Event /\ e \in Held
    BY <1>1, <1>5 DEF Ref, Held
  <2>3. e \notin D
    <3>1. \A j \in 1 .. i - 1 : s[j] # s[i]
      BY <1>1, <1>5
    <3> QED BY <3>1
  <2>4. \A g \in Held : delta_buddy[g] = x => g = e
    BY <2>2 DEF Deltas, Held
  <2>5. LeftAfter(s, i - 1) = K \cup {x} /\ x \notin K
    <3>1. Held \ D = (Held \ E) \cup {e} /\ e \notin Held \ E
      BY <1>2, <2>2, <2>3
    <3> HIDE DEF D, E
    <3>2. x \notin {delta_buddy[g] : g \in Held \ E}
      BY <2>4, <3>1
    <3>3. {delta_buddy[g] : g \in Held \ D} = {delta_buddy[g] : g \in Held \ E} \cup {x}
      BY <3>1
    <3> QED BY <1>3, <3>2, <3>3
  <2>6. HasInUse(f.b, K)
    <3> HIDE DEF x, K, f
    <3>1. HasInUse(r.b, K \cup {x})
      BY <2>5
    <3>2. HasInUse(buddy_free(r.b, x).b, K)
      BY <2>5, <3>1, BlockGiven, Zenon
    <3> QED BY <3>2 DEF f
  <2>7. f.b \in Tables
    BY <2>6 DEF HasInUse, BuddyInv, IsTable
  <2>8. u.b = f.b /\ u \in FreeStates
    <3>1. r.beyond \in BOOLEAN
      BY DEF FreeStates
    <3>2. f.beyond \in BOOLEAN
      BY DEF buddy_free
    <3> HIDE DEF f
    <3>3. (r.beyond \/ f.beyond) \in BOOLEAN
      OBVIOUS
    <3> QED BY <2>1, <2>7, <3>3 DEF FreeStates
  <2> QED BY <2>6, <2>8
<1> QED BY <1>4, <1>5

\* What FreeDeltas leaves in use.
LEMMA FreeDeltasIs ==
  ASSUME NEW p, Deltas(p, b, delta_buddy), NEW s \in Seq(Ref),
         \A i, j \in 1 .. Len(s) : s[i] = s[j] /\ s[i] # Null => i = j
  PROVE  HasInUse(FreeDeltas(s).b, {delta_buddy[e] : e \in Held \ On(s)}) /\ FreeDeltas(s).beyond \in BOOLEAN
<1> DEFINE n == Len(s)
           start == [b |-> b, beyond |-> FALSE]
           loop[i \in 0 .. n] == IF i = 0 THEN start ELSE FreeDelta(loop[i - 1], s[i])
           S == [i \in 0 .. n |-> {r \in FreeStates : HasInUse(r.b, LeftAfter(s, i))}]
           G == [i \in 1 .. n |-> [r \in S[i - 1] |-> FreeDelta(r, s[i])]]
<1>1. FreeDeltas(s) = loop[n]
  BY Zenon DEF FreeDeltas
<1>2. n \in Nat /\ 0 \in 0 .. n /\ n \in 0 .. n /\ \A i \in 1 .. n : i \in 0 .. n /\ i - 1 \in 0 .. n /\ i # 0
  OBVIOUS
<1>3. start \in S[0]
  <2>1. LeftAfter(s, 0) = BlocksOf(delta_buddy)
    <3>1. {s[j] : j \in 1 .. 0} = {}
      OBVIOUS
    <3>2. Held \ {} = {g \in Event : delta_buddy[g] # Null}
      BY DEF Held
    <3> QED BY <3>1, <3>2 DEF LeftAfter, BlocksOf
  <2>2. HasInUse(b, LeftAfter(s, 0)) /\ b \in Tables
    BY <2>1 DEF Deltas, HasInUse, BuddyInv, IsTable
  <2>3. start \in FreeStates /\ start.b = b
    BY <2>2 DEF FreeStates
  <2> HIDE DEF start
  <2> QED BY <1>2, <2>2, <2>3
<1>4. ASSUME NEW i \in 1 .. n, NEW r \in S[i - 1]
      PROVE  FreeDelta(r, s[i]) \in S[i] /\ G[i][r] = FreeDelta(r, s[i])
  <2>1. r \in FreeStates /\ HasInUse(r.b, LeftAfter(s, i - 1))
    BY <1>2
  <2>2. FreeDelta(r, s[i]) \in FreeStates /\ HasInUse(FreeDelta(r, s[i]).b, LeftAfter(s, i))
    BY <2>1, FreeDeltaIs
  <2>3. G[i] = [x \in S[i - 1] |-> FreeDelta(x, s[i])]
    OBVIOUS
  <2>4. G[i][r] = FreeDelta(r, s[i])
    <3> HIDE DEF G, S
    <3> QED BY <2>3
  <2>5. FreeDelta(r, s[i]) \in S[i]
    <3> HIDE DEF G
    <3> QED BY <1>2, <2>2
  <2> QED BY <2>4, <2>5
<1>5. PICK f : GoesOn(f, n, S, start, G)
  <2> HIDE DEF S, G, start, n
  <2>1. \A i \in 1 .. n : \A r \in S[i - 1] : G[i][r] \in S[i]
    BY <1>4
  <2> QED BY <1>2, <1>3, <2>1, LoopExists, Zenon
<1>6. f = [i \in 0 .. n |-> IF i = 0 THEN start ELSE FreeDelta(f[i - 1], s[i])]
  <2> HIDE DEF S, G, start
  <2>1. ASSUME NEW i \in 0 .. n PROVE f[i] = IF i = 0 THEN start ELSE FreeDelta(f[i - 1], s[i])
    <3>1. CASE i = 0
      BY <1>5, <3>1 DEF GoesOn
    <3>2. CASE i # 0
      <4>1. i \in 1 .. n /\ i - 1 \in 0 .. n
        BY <1>2, <3>2
      <4>2. f[i] = G[i][f[i - 1]] /\ f[i - 1] \in S[i - 1]
        BY <1>5, <4>1 DEF GoesOn
      <4> QED BY <1>4, <3>2, <4>1, <4>2
    <3> QED BY <3>1, <3>2
  <2>2. f = [i \in 0 .. n |-> f[i]]
    BY <1>5 DEF GoesOn
  <2> QED BY <2>1, <2>2
<1>7. loop = [i \in 0 .. n |-> IF i = 0 THEN start ELSE FreeDelta(loop[i - 1], s[i])]
  <2> HIDE DEF start, S, G
  <2> QED BY <1>6, Zenon
<1> HIDE DEF loop
<1> DEFINE T == {i \in 0 .. n : loop[i] = f[i]}
<1>8. \A i \in 0 .. n : i \in T
  <2>1. 0 \in T
    <3> HIDE DEF start
    <3> QED BY <1>2, <1>6, <1>7
  <2>2. ASSUME NEW i \in 0 .. n - 1, i \in T PROVE i + 1 \in T
    <3>1. i + 1 \in 0 .. n /\ i + 1 # 0 /\ (i + 1) - 1 = i /\ loop[i] = f[i]
      BY <1>2, <2>2
    <3> HIDE DEF start
    <3>2. loop[i + 1] = FreeDelta(loop[i], s[i + 1]) /\ f[i + 1] = FreeDelta(f[i], s[i + 1])
      BY <1>6, <1>7, <3>1
    <3> QED BY <3>1, <3>2
  <2> HIDE DEF T, n
  <2> QED BY <1>2, <2>1, <2>2, UpTo
<1>9. loop[n] \in FreeStates /\ HasInUse(loop[n].b, LeftAfter(s, n))
  <2>1. f[n] \in S[n] /\ loop[n] = f[n]
    BY <1>2, <1>5, <1>8 DEF GoesOn
  <2>2. S[n] = {r \in FreeStates : HasInUse(r.b, LeftAfter(s, n))}
    BY <1>2
  <2> HIDE DEF S
  <2> QED BY <2>1, <2>2
<1>10. LeftAfter(s, n) = {delta_buddy[e] : e \in Held \ On(s)}
  BY DEF LeftAfter, On
<1> HIDE DEF n
<1> QED BY <1>1, <1>9, <1>10 DEF FreeStates
-----------------------------------------------------------------------------
\* Blocks in use do not overlap.
LEMMA UsedApart ==
  ASSUME NEW bb, NEW H, HasInUse(bb, H)
  PROVE  H \subseteq Blocks /\ \A x, y \in H : x # y => Units(x) \cap Units(y) = {}
BY DEF HasInUse, BuddyInv, IsPartition

\* Where the block of e begins, nothing that is given back lies.
LEMMA KeptApart ==
  ASSUME NEW p, Deltas(p, b, delta_buddy), NEW e \in Event, delta_buddy[e] # Null, NEW g \in Event, g # e,
         delta_buddy[g] # Null
  PROVE  delta_buddy[e].at \in Arena /\ delta_buddy[e].at \notin Units(delta_buddy[g])
<1> DEFINE x == delta_buddy[e]
           y == delta_buddy[g]
           H == BlocksOf(delta_buddy)
<1>1. x \in H /\ y \in H /\ x # y
  BY DEF Deltas, BlocksOf
<1>2. HasInUse(b, H)
  BY DEF Deltas
<1> HIDE DEF H, x, y
<1>3. H \subseteq Blocks /\ Units(x) \cap Units(y) = {}
  BY <1>1, <1>2, UsedApart
<1>4. x.at \in Units(x) /\ x.at \in Arena
  BY <1>1, <1>3, BlockIs
<1> QED BY <1>3, <1>4 DEF x, y

\* What the events outside s carry is kept.
KeptBut(s) ==
  \A e \in Event : e \notin On(s) => /\ delta_buddy'[e] = delta_buddy[e] /\ before'[e] = before[e]
                                     /\ delta_buddy[e] # Null => mem'[delta_buddy[e].at] = mem[delta_buddy[e].at]

\* The events of s are released; q has the other ones of p at least.
LEMMA ReleaseIs ==
  ASSUME NEW p, Deltas(p, b, delta_buddy), Lines(p, out_msgs, output),
         mem \in [Arena -> 0 .. Bytes - 1], before \in [Event -> 0 .. Bytes - 1],
         NEW s \in Seq(Ref), \A i, j \in 1 .. Len(s) : s[i] = s[j] /\ s[i] # Null => i = j,
         NEW q, On(p) \ On(s) \subseteq On(q), Release(s)
  PROVE  /\ Deltas(q, b', delta_buddy') /\ Lines(q, out_msgs', output')
         /\ mem' \in [Arena -> 0 .. Bytes - 1] /\ before' \in [Event -> 0 .. Bytes - 1]
         /\ KeptBut(s)
<1> DEFINE r == FreeDeltas(s)
           F == Range(s) \ {Null}
           blocks == {delta_buddy[e] : e \in F} \ {Null}
           C == {e \in Event : out_msgs[e] # 0}
<1>1. /\ b' = r.b
      /\ mem' = [x \in Arena |-> IF \E blk \in blocks : x \in Units(blk) THEN 0 ELSE mem[x]]
      /\ delta_buddy' = [e \in Event |-> IF e \in F THEN Null ELSE delta_buddy[e]]
      /\ out_msgs' = [e \in Event |-> IF e \in F THEN 0 ELSE out_msgs[e]]
      /\ output' = output + Cardinality({e \in F : out_msgs[e] # 0})
      /\ before' = [e \in Event |-> IF e \in F THEN 0 ELSE before[e]]
  BY DEF Release
<1>2. Range(s) = On(s) /\ F \subseteq Event /\ (\A e \in Event : e \in F <=> e \in On(s)) /\ 0 \in 0 .. Bytes - 1
  <2>1. DOMAIN s = 1 .. Len(s) /\ \A i \in 1 .. Len(s) : s[i] \in Ref
    OBVIOUS
  <2>2. Range(s) = On(s) /\ On(s) \subseteq Ref
    BY <2>1 DEF Range, On
  <2>3. Null \notin Event /\ 0 \in 0 .. Bytes - 1
    BY EventQAssumption, MemoryAssumption DEF Event
  <2> QED BY <2>2, <2>3 DEF Ref
<1>3. HasInUse(r.b, {delta_buddy[e] : e \in Held \ On(s)})
  BY FreeDeltasIs
<1> HIDE DEF r, F
<1>4. Deltas(q, b', delta_buddy')
  <2>1. \A e \in Event : delta_buddy'[e] = IF e \in F THEN Null ELSE delta_buddy[e]
    BY <1>1
  <2>2. BlocksOf(delta_buddy') = {delta_buddy[e] : e \in Held \ On(s)}
    <3>1. {g \in Event : delta_buddy'[g] # Null} = Held \ On(s)
      BY <1>2, <2>1 DEF Held
    <3>2. \A g \in Held \ On(s) : delta_buddy'[g] = delta_buddy[g]
      BY <1>2, <2>1 DEF Held
    <3> QED BY <3>1, <3>2 DEF BlocksOf
  <2>3. HasInUse(b', BlocksOf(delta_buddy'))
    BY <1>1, <1>3, <2>2
  <2>4. delta_buddy' \in [Event -> Blocks \cup {Null}]
    BY <1>1 DEF Deltas
  <2>5. \A e \in Event : delta_buddy'[e] # Null => e \in On(q)
    BY <1>2, <2>1 DEF Deltas
  <2>6. \A e, g \in Event : delta_buddy'[e] = delta_buddy'[g] /\ delta_buddy'[e] # Null => e = g
    BY <2>1 DEF Deltas
  <2> QED BY <2>3, <2>4, <2>5, <2>6 DEF Deltas
<1>5. Lines(q, out_msgs', output')
  <2>1. \A e \in Event : out_msgs'[e] = IF e \in F THEN 0 ELSE out_msgs[e]
    BY <1>1
  <2>2. {e \in F : out_msgs[e] # 0} = C \cap F
    BY <1>2
  <2>3. {e \in Event : out_msgs'[e] # 0} = C \ F
    BY <2>1
  <2>4. IsFiniteSet(C)
    <3>1. IsFiniteSet(Event)
      BY EventQAssumption, FS_Interval DEF Event
    <3> QED BY <3>1, FS_Subset
  <2>5. output \in Nat /\ output + Cardinality(C) = NumOut
    BY DEF Lines
  <2> HIDE DEF C
  <2>6. Cardinality(C \ F) = Cardinality(C) - Cardinality(C \cap F)
    BY <2>4, FS_Difference
  <2>7. Cardinality(C \cap F) \in Nat /\ Cardinality(C) \in Nat
    BY <2>4, FS_Intersection, FS_CardinalityType
  <2>8. output' \in Nat /\ output' + Cardinality(C \ F) = NumOut
    <3>1. output' = output + Cardinality({e \in F : out_msgs[e] # 0})
      BY <1>1, Zenon
    <3>2. output' = output + Cardinality(C \cap F)
      BY <2>2, <3>1, Zenon
    <3> QED BY <2>5, <2>6, <2>7, <3>2, MemoryAssumption
  <2>9. out_msgs' \in [Event -> {0, 1}]
    BY <1>1 DEF Lines
  <2>10. \A e \in Event : out_msgs'[e] # 0 => e \in On(q)
    BY <1>2, <2>1 DEF Lines
  <2> QED BY <2>3, <2>8, <2>9, <2>10 DEF Lines
<1>6. mem' \in [Arena -> 0 .. Bytes - 1] /\ before' \in [Event -> 0 .. Bytes - 1]
  <2> HIDE DEF blocks
  <2> QED BY <1>1, <1>2
<1>7. KeptBut(s)
  <2>1. SUFFICES ASSUME NEW e \in Event, e \notin On(s)
                 PROVE  /\ delta_buddy'[e] = delta_buddy[e] /\ before'[e] = before[e]
                        /\ delta_buddy[e] # Null => mem'[delta_buddy[e].at] = mem[delta_buddy[e].at]
    BY DEF KeptBut
  <2>2. e \notin F
    BY <1>2, <2>1
  <2>3. delta_buddy'[e] = delta_buddy[e] /\ before'[e] = before[e]
    BY <1>1, <2>2
  <2>4. ASSUME delta_buddy[e] # Null PROVE mem'[delta_buddy[e].at] = mem[delta_buddy[e].at]
    <3> DEFINE o == delta_buddy[e].at
    <3>1. \A g \in F : delta_buddy[g] # Null => o \in Arena /\ o \notin Units(delta_buddy[g])
      BY <1>2, <2>2, <2>4, KeptApart
    <3>2. o \in Arena
      <4>1. delta_buddy[e] \in Blocks
        BY <2>4 DEF Deltas
      <4> QED BY <4>1, BlockIs
    <3>3. ~ \E blk \in blocks : o \in Units(blk)
      BY <3>1
    <3> HIDE DEF o, blocks
    <3>4. mem'[o] = mem[o]
      BY <1>1, <3>2, <3>3
    <3> QED BY <3>4 DEF o
  <2> QED BY <2>3, <2>4
<1> QED BY <1>4, <1>5, <1>6, <1>7
-----------------------------------------------------------------------------
\* The events of q carry the same by me2, de2 and be2.
KeptOn(q, me, de, be, me2, de2, be2) ==
  \A g \in On(q) : /\ de2[g] = de[g] /\ be2[g] = be[g]
                   /\ de[g] # Null => me2[de[g].at] = me[de[g].at]

\* One more event, e, which found cu.
LEMMA UndoesPushed ==
  ASSUME NEW p \in Lists, NEW e \in Event \ On(p), NEW me, NEW de, NEW cu, NEW be, Undoes(p, me, de, cu, be),
         NEW me2 \in [Arena -> 0 .. Bytes - 1], NEW de2, NEW cu2 \in 0 .. Bytes - 1, NEW be2 \in [Event -> 0 .. Bytes - 1],
         KeptOn(p, me, de, be, me2, de2, be2), be2[e] = cu,
         cu = IF de2[e] = Null THEN cu2 ELSE (cu2 - me2[de2[e].at]) % Bytes
  PROVE  Undoes(<<e>> \o p, me2, de2, cu2, be2)
<1> DEFINE q == <<e>> \o p
<1>1. /\ q \in Lists /\ Len(q) = Len(p) + 1 /\ q[1] = e /\ Len(p) \in Nat
      /\ \A i \in 1 .. Len(p) : q[1 + i] = p[i]
  <2>1. Len(p) \in Nat
    BY DEF Lists
  <2> QED BY <2>1, Prepended
<1> HIDE DEF q
<1>2. ASSUME NEW i \in 1 .. Len(q)
      PROVE  be2[q[i]] = IF de2[q[i]] = Null THEN After(q, cu2, be2, i)
                         ELSE (After(q, cu2, be2, i) - me2[de2[q[i]].at]) % Bytes
  <2>1. CASE i = 1
    <3>1. After(q, cu2, be2, i) = cu2
      BY <2>1 DEF After
    <3> QED BY <1>1, <2>1, <3>1
  <2>2. CASE i # 1
    <3> DEFINE j == i - 1
    <3>1. j \in 1 .. Len(p) /\ i = 1 + j /\ q[i] = p[j] /\ p[j] \in On(p) /\ j # 0
      BY <1>1, <2>2 DEF On
    <3>2. After(q, cu2, be2, i) = be2[q[j]]
      BY <2>2 DEF After
    <3>3. be2[q[j]] = After(p, cu, be, j)
      <4>1. CASE j = 1
        BY <1>1, <4>1 DEF After
      <4>2. CASE j # 1
        <5>1. j - 1 \in 1 .. Len(p) /\ 1 + (j - 1) = j
          BY <1>1, <3>1, <4>2
        <5>2. q[j] = p[j - 1] /\ p[j - 1] \in On(p)
          BY <1>1, <5>1 DEF On
        <5> QED BY <4>2, <5>2 DEF After, KeptOn
      <4> QED BY <4>1, <4>2
    <3>4. be[p[j]] = IF de[p[j]] = Null THEN After(p, cu, be, j)
                     ELSE (After(p, cu, be, j) - me[de[p[j]].at]) % Bytes
      BY <3>1 DEF Undoes
    <3>5. be2[p[j]] = be[p[j]] /\ de2[p[j]] = de[p[j]] /\ (de[p[j]] # Null => me2[de[p[j]].at] = me[de[p[j]].at])
      BY <3>1 DEF KeptOn
    <3> HIDE DEF j
    <3> QED BY <3>1, <3>2, <3>3, <3>4, <3>5
  <2> QED BY <2>1, <2>2
<1>3. Undoes(q, me2, de2, cu2, be2)
  BY <1>2 DEF Undoes
<1> QED BY <1>3 DEF q

\* The newest event is undone.
LEMMA UndoesPopped ==
  ASSUME NEW p \in Lists, p # <<>>, NEW me, NEW de, NEW cu, NEW be, Undoes(p, me, de, cu, be),
         NEW me2 \in [Arena -> 0 .. Bytes - 1], NEW de2, NEW cu2, NEW be2 \in [Event -> 0 .. Bytes - 1],
         KeptOn(Tail(p), me, de, be, me2, de2, be2),
         cu2 = IF de[p[1]] = Null THEN cu ELSE (cu - me[de[p[1]].at]) % Bytes
  PROVE  Undoes(Tail(p), me2, de2, cu2, be2)
<1> DEFINE q == Tail(p)
<1>1. /\ q \in Lists /\ Len(p) \in Nat \ {0} /\ Len(q) = Len(p) - 1
      /\ \A i \in 1 .. Len(p) - 1 : q[i] = p[i + 1]
  BY Headless
<1> HIDE DEF q
<1>2. cu2 = be[p[1]] /\ cu2 \in 0 .. Bytes - 1
  <2>1. 1 \in 1 .. Len(p) /\ p[1] \in Event
    BY <1>1 DEF Lists
  <2>2. After(p, cu, be, 1) = cu
    BY DEF After
  <2> QED BY <2>1, <2>2 DEF Undoes
<1>3. ASSUME NEW i \in 1 .. Len(q)
      PROVE  be2[q[i]] = IF de2[q[i]] = Null THEN After(q, cu2, be2, i)
                         ELSE (After(q, cu2, be2, i) - me2[de2[q[i]].at]) % Bytes
  <2> DEFINE j == i + 1
  <2>1. j \in 1 .. Len(p) /\ q[i] = p[j] /\ q[i] \in On(q) /\ j # 1 /\ j - 1 = i
    BY <1>1 DEF On
  <2>2. After(q, cu2, be2, i) = After(p, cu, be, j)
    <3>1. After(p, cu, be, j) = be[p[i]]
      BY <2>1 DEF After
    <3>2. CASE i = 1
      BY <1>2, <3>1, <3>2 DEF After
    <3>3. CASE i # 1
      <4>1. i - 1 \in 1 .. Len(q) /\ i - 1 \in 1 .. Len(p) - 1 /\ (i - 1) + 1 = i
        BY <1>1, <3>3
      <4>2. q[i - 1] = p[i] /\ q[i - 1] \in On(q)
        BY <1>1, <4>1 DEF On
      <4>3. After(q, cu2, be2, i) = be2[q[i - 1]]
        BY <3>3 DEF After
      <4> QED BY <3>1, <4>2, <4>3 DEF KeptOn, q
    <3> QED BY <3>2, <3>3
  <2>3. be[p[j]] = IF de[p[j]] = Null THEN After(p, cu, be, j)
                   ELSE (After(p, cu, be, j) - me[de[p[j]].at]) % Bytes
    BY <2>1 DEF Undoes
  <2>4. be2[p[j]] = be[p[j]] /\ de2[p[j]] = de[p[j]] /\ (de[p[j]] # Null => me2[de[p[j]].at] = me[de[p[j]].at])
    BY <2>1 DEF KeptOn, q
  <2> HIDE DEF j
  <2> QED BY <2>1, <2>2, <2>3, <2>4
<1>4. Undoes(q, me2, de2, cu2, be2)
  BY <1>2, <1>3 DEF Undoes
<1> QED BY <1>4 DEF q

\* The oldest events are gone.
LEMMA UndoesCut ==
  ASSUME NEW p \in Lists, NEW me, NEW de, NEW cu, NEW be, Undoes(p, me, de, cu, be),
         NEW q \in Lists, Len(q) <= Len(p), \A i \in 1 .. Len(q) : q[i] = p[i],
         NEW me2 \in [Arena -> 0 .. Bytes - 1], NEW de2, NEW be2 \in [Event -> 0 .. Bytes - 1],
         KeptOn(q, me, de, be, me2, de2, be2)
  PROVE  Undoes(q, me2, de2, cu, be2)
<1>1. Len(p) \in Nat /\ Len(q) \in Nat
  BY DEF Lists
<1>2. ASSUME NEW i \in 1 .. Len(q)
      PROVE  be2[q[i]] = IF de2[q[i]] = Null THEN After(q, cu, be2, i)
                         ELSE (After(q, cu, be2, i) - me2[de2[q[i]].at]) % Bytes
  <2>1. i \in 1 .. Len(p) /\ q[i] = p[i] /\ q[i] \in On(q)
    BY <1>1 DEF On
  <2>2. After(q, cu, be2, i) = After(p, cu, be, i)
    <3>1. CASE i = 1
      BY <3>1 DEF After
    <3>2. CASE i # 1
      <4>1. i - 1 \in 1 .. Len(q)
        BY <1>1, <3>2
      <4>2. q[i - 1] = p[i - 1] /\ q[i - 1] \in On(q)
        BY <1>1, <4>1 DEF On
      <4> QED BY <3>2, <4>2 DEF KeptOn, After
    <3> QED BY <3>1, <3>2
  <2>3. be[p[i]] = IF de[p[i]] = Null THEN After(p, cu, be, i)
                   ELSE (After(p, cu, be, i) - me[de[p[i]].at]) % Bytes
    BY <2>1 DEF Undoes
  <2>4. be2[p[i]] = be[p[i]] /\ de2[p[i]] = de[p[i]] /\ (de[p[i]] # Null => me2[de[p[i]].at] = me[de[p[i]].at])
    BY <2>1 DEF KeptOn
  <2> QED BY <2>1, <2>2, <2>3, <2>4
<1> QED BY <1>2 DEF Undoes
-----------------------------------------------------------------------------
\* An event that carries nothing is freed.
LEMMA FreedCarries ==
  ASSUME NEW p \in Lists, CarriedNow(p), NEW e \in Event \ On(p), Release(<<e>>), cur_state' = cur_state
  PROVE  CarriedNow(p)'
<1>1. /\ Deltas(p, b, delta_buddy) /\ Lines(p, out_msgs, output) /\ Undoes(p, mem, delta_buddy, cur_state, before)
      /\ mem \in [Arena -> 0 .. Bytes - 1] /\ before \in [Event -> 0 .. Bytes - 1]
  BY DEF CarriedNow, Carried, Undoes
<1>2. <<e>> \in Seq(Ref) /\ (\A i, j \in 1 .. Len(<<e>>) : <<e>>[i] = <<e>>[j] /\ <<e>>[i] # Null => i = j)
  BY DEF Ref
<1>3. On(<<e>>) = {e} /\ On(p) \ On(<<e>>) \subseteq On(p)
  BY Single
<1>4. /\ Deltas(p, b', delta_buddy') /\ Lines(p, out_msgs', output')
      /\ mem' \in [Arena -> 0 .. Bytes - 1] /\ before' \in [Event -> 0 .. Bytes - 1]
      /\ KeptBut(<<e>>)
  BY <1>1, <1>2, <1>3, ReleaseIs
<1>5. KeptOn(p, mem, delta_buddy, before, mem', delta_buddy', before')
  BY <1>3, <1>4 DEF KeptBut, KeptOn, Lists, On
<1>6. Undoes(p, mem', delta_buddy', cur_state, before')
  <2>1. Len(p) <= Len(p)
    BY DEF Lists
  <2> QED BY <1>1, <1>4, <1>5, <2>1, UndoesCut
<1> QED BY <1>4, <1>6 DEF CarriedNow, Carried

\* The newest event is undone.
LEMMA UndoneCarries ==
  ASSUME NEW p \in Lists, p # <<>>, CarriedNow(p), Release(<<p[1]>>),
         cur_state' = IF delta_buddy[p[1]] = Null THEN cur_state ELSE tw_snapshot_restore(p[1])
  PROVE  CarriedNow(Tail(p))'
<1> DEFINE e == p[1]
<1>1. /\ Deltas(p, b, delta_buddy) /\ Lines(p, out_msgs, output) /\ Undoes(p, mem, delta_buddy, cur_state, before)
      /\ mem \in [Arena -> 0 .. Bytes - 1] /\ before \in [Event -> 0 .. Bytes - 1]
  BY DEF CarriedNow, Carried, Undoes
<1>2. /\ Tail(p) \in Lists /\ Len(p) \in Nat \ {0} /\ On(Tail(p)) = On(p) \ {e}
  BY Headless
<1>3. e \in Event
  BY <1>2 DEF Lists
<1> HIDE DEF e
<1>4. <<e>> \in Seq(Ref) /\ (\A i, j \in 1 .. Len(<<e>>) : <<e>>[i] = <<e>>[j] /\ <<e>>[i] # Null => i = j)
  BY <1>3 DEF Ref
<1>5. On(<<e>>) = {e} /\ On(p) \ On(<<e>>) \subseteq On(Tail(p))
  BY <1>2, <1>3, Single
<1>6. Release(<<e>>)
  BY DEF e
<1>7. /\ Deltas(Tail(p), b', delta_buddy') /\ Lines(Tail(p), out_msgs', output')
      /\ mem' \in [Arena -> 0 .. Bytes - 1] /\ before' \in [Event -> 0 .. Bytes - 1]
      /\ KeptBut(<<e>>)
  BY <1>1, <1>4, <1>5, <1>6, ReleaseIs
<1>8. KeptOn(Tail(p), mem, delta_buddy, before, mem', delta_buddy', before')
  <2>1. On(Tail(p)) \subseteq Event
    BY <1>2 DEF Lists, On
  <2> QED BY <1>2, <1>5, <1>7, <2>1 DEF KeptBut, KeptOn
<1>9. cur_state' = IF delta_buddy[p[1]] = Null THEN cur_state ELSE (cur_state - mem[delta_buddy[p[1]].at]) % Bytes
  BY DEF tw_snapshot_restore
<1>10. Undoes(Tail(p), mem', delta_buddy', cur_state', before')
  BY <1>1, <1>7, <1>8, <1>9, UndoesPopped
<1> QED BY <1>7, <1>10 DEF CarriedNow, Carried
-----------------------------------------------------------------------------
\* A snapshot of e is taken, or none can be.
LEMMA SnapshotTaken ==
  ASSUME NEW p \in Lists, Deltas(p, b, delta_buddy), mem \in [Arena -> 0 .. Bytes - 1], cur_state \in 0 .. Bytes - 1,
         NEW e \in Event \ On(p), NEW new \in 0 .. Bytes - 1, NEW k \in Order,
         Enough(b, k) # {}, tw_snapshot_delta(e, new, k)
  PROVE  /\ Deltas(<<e>> \o p, b', delta_buddy') /\ mem' \in [Arena -> 0 .. Bytes - 1]
         /\ \A g \in On(p) : /\ delta_buddy'[g] = delta_buddy[g]
                             /\ delta_buddy[g] # Null => mem'[delta_buddy[g].at] = mem[delta_buddy[g].at]
         /\ cur_state' = new /\ delta_buddy'[e] # Null
         /\ (new - mem'[delta_buddy'[e].at]) % Bytes = cur_state
<1> DEFINE r == buddy_alloc(b, k)
           x == Blk(r.at, k)
           H == BlocksOf(delta_buddy)
           d == Difference(new, cur_state)
<1>1. /\ b' = r.b /\ delta_buddy' = [delta_buddy EXCEPT ![e] = x] /\ cur_state' = new
      /\ mem' = [y \in Arena |-> IF y \in Units(x) THEN d ELSE mem[y]]
  BY DEF tw_snapshot_delta, Blk
<1>2. HasInUse(b, H)
  BY DEF Deltas
<1>3. Clear(H, x) /\ x \notin H /\ HasInUse(r.b, H \cup {x})
  <2> HIDE DEF H
  <2>1. Allocated(buddy_alloc(b, k), k, H)
    BY <1>2, BlockGot
  <2> QED BY <2>1 DEF Allocated
<1> HIDE DEF r, x, H, d
<1>4. x \in Blocks /\ \A z \in H : Units(z) \cap Units(x) = {}
  BY <1>3 DEF Clear
<1>5. x # Null /\ x.at \in Arena /\ x.at \in Units(x)
  BY <1>4, NullNoBlock, BlockIs
<1>6. d \in 0 .. Bytes - 1 /\ (new - d) % Bytes = cur_state
  BY DifferenceBack, MemoryAssumption DEF d, Difference
<1>7. mem' \in [Arena -> 0 .. Bytes - 1] /\ mem'[x.at] = d
  BY <1>1, <1>5, <1>6
<1>8. /\ On(<<e>> \o p) = On(p) \cup {e} /\ On(p) \subseteq Event /\ e \in Event
      /\ delta_buddy \in [Event -> Blocks \cup {Null}] /\ delta_buddy[e] = Null
  <2>1. On(<<e>> \o p) = On(p) \cup {e}
    BY Prepended
  <2>2. On(p) \subseteq Event
    BY DEF Lists, On
  <2> QED BY <2>1, <2>2 DEF Deltas
<1>9. delta_buddy'[e] = x /\ \A g \in Event : g # e => delta_buddy'[g] = delta_buddy[g]
  BY <1>1, <1>8
<1>10. ASSUME NEW g \in Event, delta_buddy[g] # Null
       PROVE  delta_buddy[g] \in H /\ mem'[delta_buddy[g].at] = mem[delta_buddy[g].at]
  <2> DEFINE y == delta_buddy[g]
  <2>1. y \in H /\ y \in Blocks
    BY <1>8, <1>10 DEF H, BlocksOf
  <2> HIDE DEF y
  <2>2. y.at \in Arena /\ y.at \in Units(y) /\ y.at \notin Units(x)
    BY <1>4, <2>1, BlockIs
  <2>3. mem'[y.at] = mem[y.at]
    BY <1>1, <2>2
  <2> QED BY <2>1, <2>3 DEF y
<1>11. Deltas(<<e>> \o p, b', delta_buddy')
  <2>1. BlocksOf(delta_buddy') = H \cup {x}
    <3>1. {g \in Event : delta_buddy'[g] # Null} = {g \in Event : delta_buddy[g] # Null} \cup {e}
      BY <1>5, <1>8, <1>9
    <3>2. \A g \in {z \in Event : delta_buddy[z] # Null} : delta_buddy'[g] = delta_buddy[g]
      BY <1>8, <1>9
    <3> QED BY <1>9, <3>1, <3>2 DEF BlocksOf, H
  <2>2. HasInUse(b', BlocksOf(delta_buddy'))
    BY <1>1, <1>3, <2>1
  <2>3. delta_buddy' \in [Event -> Blocks \cup {Null}]
    BY <1>1, <1>4, <1>8
  <2>4. \A g \in Event : delta_buddy'[g] # Null => g \in On(<<e>> \o p)
    BY <1>8, <1>9 DEF Deltas
  <2>5. ASSUME NEW g \in Event, NEW z \in Event, delta_buddy'[g] = delta_buddy'[z], delta_buddy'[g] # Null
        PROVE  g = z
    <3>1. CASE g = e \/ z = e
      BY <1>3, <1>9, <1>10, <2>5, <3>1
    <3>2. CASE g # e /\ z # e
      BY <1>9, <2>5, <3>2 DEF Deltas
    <3> QED BY <3>1, <3>2
  <2> QED BY <2>2, <2>3, <2>4, <2>5 DEF Deltas
<1> QED BY <1>1, <1>5, <1>6, <1>7, <1>8, <1>9, <1>10, <1>11

\* A line for e, or none.
LEMMA LinePrinted ==
  ASSUME NEW p \in Lists, Lines(p, out_msgs, output), NEW e \in Event \ On(p),
         tw_output(e) \/ UNCHANGED <<out_msgs, output>>
  PROVE  Lines(<<e>> \o p, out_msgs', output')
<1> DEFINE C == {g \in Event : out_msgs[g] # 0}
<1>1. /\ On(<<e>> \o p) = On(p) \cup {e} /\ e \in Event
      /\ out_msgs \in [Event -> {0, 1}] /\ output \in Nat /\ output + Cardinality(C) = NumOut
      /\ \A g \in Event : out_msgs[g] # 0 => g \in On(p)
  BY Prepended DEF Lines
<1>2. CASE UNCHANGED <<out_msgs, output>>
  <2>1. out_msgs' = out_msgs /\ output' = output
    BY <1>2
  <2> QED BY <1>1, <2>1 DEF Lines
<1>3. CASE output = 0 /\ tw_output(e)
  <2>1. out_msgs' = out_msgs /\ output' = output
    BY <1>3 DEF tw_output
  <2> QED BY <1>1, <2>1 DEF Lines
<1>4. CASE output # 0 /\ tw_output(e)
  <2>1. out_msgs' = [out_msgs EXCEPT ![e] = 1] /\ output' = output - 1
    BY <1>4 DEF tw_output
  <2>2. out_msgs' \in [Event -> {0, 1}] /\ \A g \in Event : out_msgs'[g] # 0 => g \in On(<<e>> \o p)
    BY <1>1, <2>1
  <2>3. {g \in Event : out_msgs'[g] # 0} = C \cup {e} /\ e \notin C
    BY <1>1, <2>1
  <2>4. IsFiniteSet(C)
    <3>1. IsFiniteSet(Event)
      BY EventQAssumption, FS_Interval DEF Event
    <3> QED BY <3>1, FS_Subset
  <2> HIDE DEF C
  <2>5. Cardinality(C \cup {e}) = Cardinality(C) + 1 /\ Cardinality(C) \in Nat
    BY <2>3, <2>4, FS_AddElement, FS_CardinalityType
  <2>6. output' \in Nat /\ output' + Cardinality(C \cup {e}) = NumOut
    BY <1>1, <1>4, <2>1, <2>5, MemoryAssumption
  <2>7. output' + Cardinality({g \in Event : out_msgs'[g] # 0}) = NumOut
    BY <2>3, <2>6, Zenon
  <2> QED BY <2>2, <2>6, <2>7 DEF Lines
<1> QED BY <1>2, <1>3, <1>4
\* An event is processed.
LEMMA ProcessedCarries ==
  ASSUME NEW p \in Lists, CarriedNow(p), handler \in Programs, NEW e \in Event \ On(p), ProcessEvent(e)
  PROVE  CarriedNow(<<e>> \o p)'
<1> DEFINE q == <<e>> \o p
<1>1. /\ Deltas(p, b, delta_buddy) /\ Lines(p, out_msgs, output) /\ Undoes(p, mem, delta_buddy, cur_state, before)
      /\ mem \in [Arena -> 0 .. Bytes - 1] /\ before \in [Event -> 0 .. Bytes - 1] /\ cur_state \in 0 .. Bytes - 1
  BY DEF CarriedNow, Carried, Undoes
<1>2. /\ handler[e].new \in 0 .. Bytes - 1 /\ handler[e].order \in Order \cup {Null}
  BY MemoryAssumption
<1>3. before' = [before EXCEPT ![e] = cur_state] /\ (tw_output(e) \/ UNCHANGED <<out_msgs, output>>)
  BY DEF ProcessEvent
<1>4. /\ before' \in [Event -> 0 .. Bytes - 1] /\ before'[e] = cur_state
      /\ \A g \in On(p) : before'[g] = before[g]
  <2>1. On(p) \subseteq Event
    BY DEF Lists, On
  <2> QED BY <1>1, <1>3, <2>1
<1>5. Lines(q, out_msgs', output')
  <2> HIDE DEF q
  <2>1. Lines(<<e>> \o p, out_msgs', output')
    BY <1>1, <1>3, LinePrinted
  <2> QED BY <2>1 DEF q
<1>6. Deltas(q, b', delta_buddy') /\ Undoes(q, mem', delta_buddy', cur_state', before')
  <2>1. CASE UNCHANGED <<b, mem, delta_buddy, cur_state>>
    <3>1. b' = b /\ mem' = mem /\ delta_buddy' = delta_buddy /\ cur_state' = cur_state
      BY <2>1
    <3>2. On(q) = On(p) \cup {e} /\ delta_buddy[e] = Null
      BY <1>1, Prepended DEF Deltas
    <3> HIDE DEF q
    <3>3. Deltas(q, b', delta_buddy')
      BY <1>1, <3>1, <3>2 DEF Deltas
    <3>4. KeptOn(p, mem, delta_buddy, before, mem, delta_buddy, before')
      BY <1>4 DEF KeptOn
    <3>5. Undoes(<<e>> \o p, mem, delta_buddy, cur_state, before')
      BY <1>1, <1>4, <3>2, <3>4, UndoesPushed
    <3> QED BY <3>1, <3>3, <3>5 DEF q
  <2>2. CASE handler[e].order # Null /\ tw_snapshot_delta(e, handler[e].new, handler[e].order) /\ Enough(b, handler[e].order) # {}
    <3>1. handler[e].order \in Order
      BY <1>2, <2>2
    <3>2. /\ Deltas(<<e>> \o p, b', delta_buddy') /\ mem' \in [Arena -> 0 .. Bytes - 1]
          /\ \A g \in On(p) : /\ delta_buddy'[g] = delta_buddy[g]
                              /\ delta_buddy[g] # Null => mem'[delta_buddy[g].at] = mem[delta_buddy[g].at]
          /\ cur_state' = handler[e].new /\ delta_buddy'[e] # Null
          /\ (handler[e].new - mem'[delta_buddy'[e].at]) % Bytes = cur_state
      BY <1>1, <1>2, <2>2, <3>1, SnapshotTaken
    <3>3. KeptOn(p, mem, delta_buddy, before, mem', delta_buddy', before')
      BY <1>4, <3>2 DEF KeptOn
    <3>4. Undoes(<<e>> \o p, mem', delta_buddy', cur_state', before')
      BY <1>1, <1>2, <1>4, <3>2, <3>3, UndoesPushed
    <3> QED BY <3>2, <3>4
  <2>3. \/ UNCHANGED <<b, mem, delta_buddy, cur_state>>
        \/ handler[e].order # Null /\ tw_snapshot_delta(e, handler[e].new, handler[e].order) /\ Enough(b, handler[e].order) # {}
    <3>1. CASE handler[e].order # Null /\ tw_snapshot_delta(e, handler[e].new, handler[e].order)
      BY <3>1 DEF tw_snapshot_delta
    <3>2. CASE handler[e].order = Null /\ UNCHANGED <<b, mem, delta_buddy, cur_state, stopped>>
      BY <3>2
    <3> QED BY <3>1, <3>2 DEF ProcessEvent
  <2> QED BY <2>1, <2>2, <2>3
<1> QED BY <1>5, <1>6 DEF CarriedNow, Carried
-----------------------------------------------------------------------------
\* The walk of fossil collection: each event of old, followed by what it sent.
WalkOf(old) == [i \in 1 .. 2 * Len(old) |-> IF i % 2 = 1 THEN old[(i + 1) \div 2] ELSE caused[old[i \div 2]]]

\* Odd and even.
LEMMA Halves ==
  ASSUME NEW n \in Nat, NEW i \in 1 .. 2 * n
  PROVE  \/ i % 2 = 1 /\ (i + 1) \div 2 \in 1 .. n /\ i = 2 * ((i + 1) \div 2) - 1
         \/ i % 2 # 1 /\ i \div 2 \in 1 .. n /\ i = 2 * (i \div 2)
OBVIOUS

\* It visits every event once.
LEMMA WalkIs ==
  ASSUME NEW own, Causes(own, caused), NEW old \in Lists, \A e \in On(old) : own[e] = "pevent_q"
  PROVE  /\ WalkOf(old) \in Seq(Ref)
         /\ \A i, j \in 1 .. Len(WalkOf(old)) : WalkOf(old)[i] = WalkOf(old)[j] /\ WalkOf(old)[i] # Null => i = j
         /\ On(old) \subseteq On(WalkOf(old))
         /\ \A e \in On(WalkOf(old)) : e \in On(old) \/ e = Null \/ own[e] = "sevent_q"
<1> DEFINE n == Len(old)
           s == WalkOf(old)
<1>1. n \in Nat /\ (\A i \in 1 .. n : old[i] \in Event /\ old[i] \in On(old)) /\ \A i, j \in 1 .. n : old[i] = old[j] => i = j
  BY DEF Lists, On
<1>2. caused \in [Event -> Ref]
  BY DEF Causes
<1>3. \A i \in 1 .. n : caused[old[i]] \in Ref
  BY <1>1, <1>2
<1> HIDE DEF n
<1>4. ASSUME NEW i \in 1 .. 2 * n
      PROVE  /\ i % 2 = 1 => s[i] = old[(i + 1) \div 2] /\ (i + 1) \div 2 \in 1 .. n /\ i = 2 * ((i + 1) \div 2) - 1
             /\ i % 2 # 1 => s[i] = caused[old[i \div 2]] /\ i \div 2 \in 1 .. n /\ i = 2 * (i \div 2)
  <2>1. s[i] = IF i % 2 = 1 THEN old[(i + 1) \div 2] ELSE caused[old[i \div 2]]
    BY DEF WalkOf, n
  <2> HIDE DEF s
  <2> QED BY <1>1, <2>1, Halves
<1>5. ASSUME NEW i \in 1 .. 2 * n PROVE s[i] \in Ref
  <2>1. s[i] \in Event \/ s[i] \in Ref
    BY <1>1, <1>3, <1>4
  <2> QED BY <2>1 DEF Ref
<1>6. s \in Seq(Ref) /\ Len(s) = 2 * n
  <2>1. 2 * n \in Nat
    BY <1>1
  <2>2. s = [i \in 1 .. 2 * n |-> s[i]]
    BY DEF WalkOf, n
  <2> HIDE DEF s
  <2>3. s \in [1 .. 2 * n -> Ref]
    BY <1>5, <2>2
  <2> QED BY <2>1, <2>3
<1> HIDE DEF s
<1>7. ASSUME NEW i \in 1 .. 2 * n, NEW j \in 1 .. 2 * n, s[i] = s[j], s[i] # Null
      PROVE  i = j
  <2>1. \A k \in 1 .. n : own[old[k]] = "pevent_q" /\ (caused[old[k]] # Null => own[caused[old[k]]] = "sevent_q")
    BY <1>1 DEF Causes
  <2>2. i % 2 = 1 <=> j % 2 = 1
    <3>1. "pevent_q" # "sevent_q"
      OBVIOUS
    <3>2. \A k \in 1 .. 2 * n : s[k] # Null => IF k % 2 = 1 THEN own[s[k]] = "pevent_q" ELSE own[s[k]] = "sevent_q"
      BY <1>4, <2>1
    <3> QED BY <1>7, <3>1, <3>2
  <2>3. CASE i % 2 = 1
    BY <1>1, <1>4, <1>7, <2>2, <2>3
  <2>4. CASE i % 2 # 1
    <3>1. caused[old[i \div 2]] = caused[old[j \div 2]] /\ caused[old[i \div 2]] # Null
      BY <1>4, <1>7, <2>2, <2>4
    <3>2. i \div 2 \in 1 .. n /\ j \div 2 \in 1 .. n /\ i = 2 * (i \div 2) /\ j = 2 * (j \div 2)
      BY <1>4, <2>2, <2>4
    <3>3. old[i \div 2] = old[j \div 2]
      BY <1>1, <3>1, <3>2 DEF Causes
    <3> QED BY <1>1, <3>2, <3>3
  <2> QED BY <2>3, <2>4
<1>8. On(old) \subseteq On(s)
  <2>1. ASSUME NEW k \in 1 .. n PROVE old[k] \in On(s)
    <3>1. 2 * k - 1 \in 1 .. 2 * n /\ (2 * k - 1) % 2 = 1 /\ (2 * k - 1 + 1) \div 2 = k
      BY <1>1
    <3>2. s[2 * k - 1] = old[k]
      BY <1>4, <3>1
    <3> QED BY <1>6, <3>1, <3>2 DEF On
  <2> QED BY <2>1 DEF On, n
<1>9. ASSUME NEW i \in 1 .. 2 * n PROVE s[i] \in On(old) \/ s[i] = Null \/ own[s[i]] = "sevent_q"
  <2>1. CASE i % 2 = 1
    BY <1>1, <1>4, <2>1
  <2>2. CASE i % 2 # 1
    BY <1>1, <1>4, <2>2 DEF Causes
  <2> QED BY <2>1, <2>2
<1>10. \A e \in On(s) : e \in On(old) \/ e = Null \/ own[e] = "sevent_q"
  BY <1>6, <1>9 DEF On
<1>11. \A i, j \in 1 .. Len(s) : s[i] = s[j] /\ s[i] # Null => i = j
  BY <1>6, <1>7
<1> QED BY <1>6, <1>8, <1>10, <1>11 DEF s
\* A list turned round.
LEMMA Reversed ==
  ASSUME NEW s \in Lists
  PROVE  Reverse(s) \in Lists /\ On(Reverse(s)) = On(s)
<1> DEFINE n == Len(s)
           r == Reverse(s)
<1>1. n \in Nat /\ (\A i \in 1 .. n : s[i] \in Event) /\ \A i, j \in 1 .. n : s[i] = s[j] => i = j
  BY DEF Lists
<1>2. r = [i \in 1 .. n |-> s[(n - i) + 1]]
  BY DEF Reverse
<1>3. \A i \in 1 .. n : (n - i) + 1 \in 1 .. n /\ (n - ((n - i) + 1)) + 1 = i
  BY <1>1
<1> HIDE DEF n, r
<1>4. r \in Seq(Event) /\ Len(r) = n /\ \A i \in 1 .. n : r[i] = s[(n - i) + 1]
  <2>1. r \in [1 .. n -> Event]
    BY <1>1, <1>2, <1>3
  <2> QED BY <1>1, <1>2, <2>1
<1>5. r \in Lists
  <2>1. ASSUME NEW i \in 1 .. n, NEW j \in 1 .. n, r[i] = r[j] PROVE i = j
    <3> DEFINE y == (n - i) + 1
               z == (n - j) + 1
    <3>1. y \in 1 .. n /\ z \in 1 .. n /\ r[i] = s[y] /\ r[j] = s[z]
      BY <1>3, <1>4
    <3> HIDE DEF y, z
    <3>2. y = z
      BY <1>1, <2>1, <3>1
    <3> QED BY <1>1, <3>2 DEF y, z
  <2> QED BY <1>4, <2>1 DEF Lists
<1>6. On(r) = On(s)
  <2>1. \A i \in 1 .. n : r[i] = s[(n - i) + 1] /\ s[i] = r[(n - i) + 1]
    BY <1>3, <1>4
  <2>2. On(r) = {r[i] : i \in 1 .. n} /\ On(s) = {s[i] : i \in 1 .. n}
    BY <1>4 DEF On, n
  <2> QED BY <1>3, <2>1, <2>2
<1> QED BY <1>5, <1>6 DEF r

\* The newer events of p are not among the older ones.
LEMMA NewerOlder ==
  ASSUME NEW p \in Lists, NEW k \in 1 .. Len(p)
  PROVE  /\ SubSeq(p, 1, k - 1) \in Lists /\ Len(SubSeq(p, 1, k - 1)) <= Len(p)
         /\ \A i \in 1 .. Len(SubSeq(p, 1, k - 1)) : SubSeq(p, 1, k - 1)[i] = p[i]
         /\ On(SubSeq(p, 1, k - 1)) = On(p) \ OldFrom(p, k)
         /\ SubSeq(p, k, Len(p)) \in Lists /\ On(SubSeq(p, k, Len(p))) = OldFrom(p, k) /\ OldFrom(p, k) \subseteq On(p)
<1> DEFINE q == SubSeq(p, 1, k - 1)
<1>1. Len(p) \in Nat /\ k \in Nat /\ \A i, j \in 1 .. Len(p) : p[i] = p[j] => i = j
  BY DEF Lists
<1>2. /\ 1 \in 1 .. Len(p) + 1 /\ k - 1 \in 1 - 1 .. Len(p) /\ (k - 1) - 1 + 1 = k - 1
      /\ k \in 1 .. Len(p) + 1 /\ Len(p) \in k - 1 .. Len(p) /\ \A i \in 1 .. k - 1 : 1 + i - 1 = i
  BY <1>1
<1>3. /\ q \in Lists /\ Len(q) = (k - 1) - 1 + 1 /\ On(q) = {p[i] : i \in 1 .. k - 1}
      /\ \A i \in 1 .. (k - 1) - 1 + 1 : q[i] = p[1 + i - 1]
  BY <1>2, Part
<1>4. SubSeq(p, k, Len(p)) \in Lists /\ On(SubSeq(p, k, Len(p))) = OldFrom(p, k)
  BY <1>2, Part DEF OldFrom
<1> HIDE DEF q
<1>5. Len(q) = k - 1 /\ Len(q) <= Len(p) /\ \A i \in 1 .. Len(q) : q[i] = p[i]
  BY <1>1, <1>2, <1>3
<1>6. OldFrom(p, k) \subseteq On(p)
  <2>1. \A i \in k .. Len(p) : i \in 1 .. Len(p)
    BY <1>1
  <2> QED BY <2>1 DEF OldFrom, On
<1>7. On(q) = On(p) \ OldFrom(p, k)
  <2>1. \A i \in 1 .. Len(p) : i \in 1 .. k - 1 \/ i \in k .. Len(p)
    BY <1>1
  <2>2. \A i \in 1 .. k - 1 : i \in 1 .. Len(p) /\ \A j \in k .. Len(p) : j \in 1 .. Len(p) /\ p[i] # p[j]
    BY <1>1
  <2> QED BY <1>3, <2>1, <2>2 DEF OldFrom, On
<1> QED BY <1>3, <1>4, <1>5, <1>6, <1>7 DEF q

\* The oldest events, from place k on, are collected.
LEMMA CollectedCarries ==
  ASSUME NEW f, NEW v, NEW p, NEW w, Good(m, owner, caused, nev, f, v, p, w), CarriedNow(p),
         NEW k \in 1 .. Len(p), Release(WalkOf(Reverse(SubSeq(p, k, Len(p))))), cur_state' = cur_state
  PROVE  CarriedNow(SubSeq(p, 1, k - 1))'
<1> DEFINE old == Reverse(SubSeq(p, k, Len(p)))
           s == WalkOf(old)
           q == SubSeq(p, 1, k - 1)
<1>1. /\ Deltas(p, b, delta_buddy) /\ Lines(p, out_msgs, output) /\ Undoes(p, mem, delta_buddy, cur_state, before)
      /\ mem \in [Arena -> 0 .. Bytes - 1] /\ before \in [Event -> 0 .. Bytes - 1]
  BY DEF CarriedNow, Carried, Undoes
<1>2. p \in Lists /\ Causes(owner, caused) /\ \A e \in On(p) : owner[e] = "pevent_q"
  <2>1. p \in Lists
    BY GoodLists
  <2>2. On(p) \subseteq Event
    BY <2>1 DEF Lists, On
  <2> QED BY <2>1, <2>2 DEF Good, Owns
<1>3. /\ q \in Lists /\ Len(q) <= Len(p) /\ (\A i \in 1 .. Len(q) : q[i] = p[i])
      /\ On(q) = On(p) \ OldFrom(p, k)
      /\ SubSeq(p, k, Len(p)) \in Lists /\ On(SubSeq(p, k, Len(p))) = OldFrom(p, k) /\ OldFrom(p, k) \subseteq On(p)
  BY <1>2, NewerOlder
<1>4. old \in Lists /\ On(old) = OldFrom(p, k)
  BY <1>3, Reversed
<1> HIDE DEF old, q
<1>5. /\ s \in Seq(Ref) /\ (\A i, j \in 1 .. Len(s) : s[i] = s[j] /\ s[i] # Null => i = j)
      /\ On(old) \subseteq On(s)
      /\ \A e \in On(s) : e \in On(old) \/ e = Null \/ owner[e] = "sevent_q"
  <2>1. \A e \in On(old) : owner[e] = "pevent_q"
    BY <1>2, <1>3, <1>4
  <2> QED BY <1>2, <1>4, <2>1, WalkIs
<1>6. Release(s)
  BY DEF old
<1> HIDE DEF s
<1>7. On(p) \ On(s) \subseteq On(q) /\ On(q) \cap On(s) = {} /\ On(q) \subseteq Event
  <2>1. On(q) \subseteq Event /\ Null \notin Event
    BY <1>3, EventQAssumption DEF Lists, On, Event
  <2>2. \A e \in On(q) : owner[e] # "sevent_q"
    BY <1>2, <1>3
  <2> QED BY <1>3, <1>4, <1>5, <2>1, <2>2
<1>8. /\ Deltas(q, b', delta_buddy') /\ Lines(q, out_msgs', output')
      /\ mem' \in [Arena -> 0 .. Bytes - 1] /\ before' \in [Event -> 0 .. Bytes - 1]
      /\ KeptBut(s)
  BY <1>1, <1>5, <1>6, <1>7, ReleaseIs
<1>9. KeptOn(q, mem, delta_buddy, before, mem', delta_buddy', before')
  BY <1>7, <1>8 DEF KeptBut, KeptOn
<1>10. Undoes(q, mem', delta_buddy', cur_state, before')
  BY <1>1, <1>2, <1>3, <1>8, <1>9, UndoesCut
<1>11. CarriedNow(q)'
  BY <1>8, <1>10 DEF CarriedNow, Carried, q
<1> QED BY <1>11 DEF q
-----------------------------------------------------------------------------
\* There is an invariant state after a step that leaves these lists.
LEMMA Holding ==
  ASSUME NEW f, NEW v, NEW p, NEW w, Good(m', owner', caused', nev', f, v, p, w), CarriedNow(p)',
         handler \in Programs, handler' = handler
  PROVE  MemoryInv'
<1>1. f \in Lists /\ v \in Lists /\ p \in Lists /\ w \in Lists
  BY GoodLists
<1>2. handler' \in Programs
  OBVIOUS
<1> QED BY <1>1, <1>2 DEF MemoryInv

\* At first no event carries anything.
LEMMA MemoryInit ==
  ASSUME Init
  PROVE  MemoryInv
<1> DEFINE f == [i \in 1 .. N - 1 |-> i + 1]
<1>1. Good(m, owner, caused, nev, f, <<>>, <<>>, <<>>)
  BY AllocIs DEF Init
<1> HIDE DEF f
<1>2. f \in Lists /\ <<>> \in Lists
  BY <1>1, GoodLists
<1>3. /\ delta_buddy = [e \in Event |-> Null] /\ out_msgs = [e \in Event |-> 0] /\ output = NumOut
      /\ b = create_buddy_table /\ mem = [x \in Arena |-> 0] /\ cur_state = 0 /\ before = [e \in Event |-> 0]
      /\ handler \in Programs
  BY DEF Init
<1>4. Deltas(<<>>, b, delta_buddy)
  <2>1. BlocksOf(delta_buddy) = {}
    BY <1>3 DEF BlocksOf
  <2>2. HasInUse(b, BlocksOf(delta_buddy))
    BY <1>3, <2>1, TableIs
  <2> QED BY <1>3, <2>2 DEF Deltas
<1>5. Lines(<<>>, out_msgs, output)
  <2>1. {e \in Event : out_msgs[e] # 0} = {}
    BY <1>3
  <2>2. output + Cardinality({}) = NumOut /\ output \in Nat
    BY <1>3, FS_EmptySet, MemoryAssumption
  <2>3. output + Cardinality({e \in Event : out_msgs[e] # 0}) = NumOut
    BY <2>1, <2>2, Zenon
  <2> QED BY <1>3, <2>2, <2>3 DEF Lines
<1>6. Undoes(<<>>, mem, delta_buddy, cur_state, before)
  <2>1. 0 \in 0 .. Bytes - 1
    BY MemoryAssumption
  <2> QED BY <1>3, <2>1 DEF Undoes
<1>7. CarriedNow(<<>>)
  BY <1>4, <1>5, <1>6 DEF CarriedNow, Carried
<1> QED BY <1>1, <1>2, <1>3, <1>7 DEF MemoryInv

\* Every step keeps what is carried in order.
LEMMA MemoryStep ==
  ASSUME MemoryInv, [Next]_vars
  PROVE  MemoryInv'
<1>1. PICK f, v, p, w \in Lists : Good(m, owner, caused, nev, f, v, p, w) /\ CarriedNow(p)
  BY DEF MemoryInv
<1>2. handler \in Programs /\ handler' = handler
  BY DEF MemoryInv, Next, Stopped, vars
<1>3. UNCHANGED carried => CarriedNow(p)'
  BY <1>1 DEF carried, CarriedNow
<1>4. CASE Receive /\ UNCHANGED carried
  <2>1. Good(m', owner', caused', nev', Front(f), Append(v, f[Len(f)]), p, w)
    BY <1>1, <1>4, ReceiveIs
  <2> QED BY <1>2, <1>3, <1>4, <2>1, Holding
<1>5. CASE PopList /\ UNCHANGED carried
  <2>1. Good(m', owner', caused', nev', f, <<>>, p, v)
    BY <1>1, <1>5, PopListStep
  <2> QED BY <1>2, <1>3, <1>5, <2>1, Holding
<1>6. CASE EnqueueNext /\ UNCHANGED carried
  <2>1. Good(m', owner', caused', nev', f, v, p, Tail(w))
    BY <1>1, <1>6, EnqueueStep
  <2> QED BY <1>2, <1>3, <1>6, <2>1, Holding
<1>7. ASSUME NEW e \in Event, CancelEvent(e) PROVE MemoryInv'
  <2>1. Cancel(e) /\ Release(<<e>>) /\ cur_state' = cur_state
    BY <1>7 DEF CancelEvent
  <2>2. PICK i \in 1 .. Len(v) : v[i] = e /\ Good(m', owner', caused', nev', <<e>> \o f, RemoveAt(v, i), p, w)
    BY <1>1, <2>1, CancelIs
  <2>3. e \notin On(p)
    <3>1. On(v) \cap On(p) = {}
      BY <1>1, Apart DEF Good
    <3> QED BY <2>2, <3>1 DEF On
  <2>4. CarriedNow(p)'
    BY <1>1, <2>1, <2>3, FreedCarries
  <2> QED BY <1>2, <2>2, <2>4, Holding
<1>8. ASSUME NEW e \in Event, SendFinishEvent(e) PROVE MemoryInv'
  <2>1. SendFinish(e) /\ Release(<<e>>) /\ cur_state' = cur_state
    BY <1>8 DEF SendFinishEvent
  <2>2. e \notin On(p) /\ Good(m', owner', caused', nev', <<e>> \o f, v, p, w)
    BY <1>1, <2>1, SendFinishIs
  <2>3. CarriedNow(p)'
    BY <1>1, <2>1, <2>2, FreedCarries
  <2> QED BY <1>2, <2>2, <2>3, Holding
<1>9. ASSUME NEW e \in Event, ProcessEvent(e) PROVE MemoryInv'
  <2>1. Process(e)
    BY <1>9 DEF ProcessEvent
  <2>2. e \notin On(p) /\ \E g : Good(m', owner', caused', nev', g, v, <<e>> \o p, w)
    BY <1>1, <2>1, ProcessIs
  <2>3. CarriedNow(<<e>> \o p)'
    BY <1>1, <1>2, <1>9, <2>2, ProcessedCarries
  <2> QED BY <1>2, <2>2, <2>3, Holding
<1>10. CASE Rollback
  <2>1. Undo /\ m.head["pevent_q"] = p[1] /\ p # <<>>
    <3>1. Undo
      BY <1>10 DEF Rollback
    <3>2. p # <<>>
      BY <1>1, <3>1, UndoIs
    <3>3. IsQueue(m, "pevent_q", p)
      BY <1>1 DEF Good, Holds
    <3>4. m.head["pevent_q"] = At(p, 1)
      BY <3>3 DEF IsQueue, IsChain
    <3>5. 1 \in 1 .. Len(p)
      BY <1>1, <3>2, Headless
    <3> QED BY <3>1, <3>2, <3>4, <3>5 DEF At
  <2>2. Good(m', owner', caused', nev', f, v, Tail(p), w)
    BY <1>1, <2>1, UndoIs
  <2>3. Release(<<p[1]>>) /\ cur_state' = IF delta_buddy[p[1]] = Null THEN cur_state ELSE tw_snapshot_restore(p[1])
    BY <1>10, <2>1 DEF Rollback
  <2>4. CarriedNow(Tail(p))'
    BY <1>1, <2>1, <2>3, UndoneCarries
  <2> QED BY <1>2, <2>2, <2>4, Holding
<1>11. ASSUME NEW n \in 1 .. Len(Chain("pevent_q")), FossilOldest(n) PROVE MemoryInv'
  <2>1. Chain("pevent_q") = p
    BY <1>1, Chains
  <2>2. /\ Fossil(Range(Reverse(SubSeq(p, n, Len(p))))) /\ Release(WalkOf(Reverse(SubSeq(p, n, Len(p)))))
        /\ cur_state' = cur_state
    BY <1>11, <2>1 DEF FossilOldest, WalkOf
  <2>3. n \in 1 .. Len(p) /\ Fossil(OldFrom(p, n))
    BY <1>1, <1>11, <2>1, <2>2, OldestIs
  <2>4. \E g : Good(m', owner', caused', nev', g, v, SubSeq(p, 1, n - 1), w)
    BY <1>1, <2>3, FossilStep
  <2>5. CarriedNow(SubSeq(p, 1, n - 1))'
    BY <1>1, <2>2, <2>3, CollectedCarries
  <2> QED BY <1>2, <2>4, <2>5, Holding
<1>12. CASE UNCHANGED vars
  <2>1. Good(m', owner', caused', nev', f, v, p, w) /\ UNCHANGED carried
    BY <1>1, <1>12 DEF vars, listVars
  <2> QED BY <1>2, <1>3, <2>1, Holding
<1> QED BY <1>4, <1>5, <1>6, <1>7, <1>8, <1>9, <1>10, <1>11, <1>12 DEF Next, Stopped

\* Blocks never overlap and none is lost, whatever is split and merged.
THEOREM BlocksPartitioned == Spec => []Partition
<1>1. Init => MemoryInv
  BY MemoryInit
<1>2. MemoryInv /\ [Next]_vars => MemoryInv'
  BY MemoryStep
<1>3. MemoryInv => Partition
  <2> SUFFICES ASSUME MemoryInv PROVE Partition
    OBVIOUS
  <2>1. PICK p : CarriedNow(p)
    BY DEF MemoryInv
  <2>2. Deltas(p, b, delta_buddy)
    BY <2>1 DEF CarriedNow, Carried
  <2>3. HasInUse(b, HeldBlocks)
    BY <2>2, HoldsOne DEF Deltas
  <2> QED BY <2>3, PartitionIs
<1> QED BY <1>1, <1>2, <1>3, PTL DEF Spec

\* Only processed events carry anything, each its own block, and no line buffer is lost.
THEOREM OnlyProcessedCarry == Spec => []CarriedByProcessed
<1>1. Init => MemoryInv
  BY MemoryInit
<1>2. MemoryInv /\ [Next]_vars => MemoryInv'
  BY MemoryStep
<1>3. MemoryInv => CarriedByProcessed
  <2> SUFFICES ASSUME MemoryInv PROVE CarriedByProcessed
    OBVIOUS
  <2>1. PICK f, v, p, w \in Lists : Good(m, owner, caused, nev, f, v, p, w) /\ CarriedNow(p)
    BY DEF MemoryInv
  <2>2. Deltas(p, b, delta_buddy) /\ Lines(p, out_msgs, output)
    BY <2>1 DEF CarriedNow, Carried
  <2>3. Range(Chain("pevent_q")) = On(p)
    BY <2>1, Chains, RangeOn
  <2>4. Cardinality(HeldBlocks) = Cardinality(Held)
    BY <2>2, HoldsOne
  <2> QED BY <2>2, <2>3, <2>4 DEF CarriedByProcessed, Deltas, Lines
<1> QED BY <1>1, <1>2, <1>3, PTL DEF Spec

\* Undoing the processed events one by one gives each the state it had found.
THEOREM UndoRestores == Spec => []RestoresState
<1>1. Init => MemoryInv
  BY MemoryInit
<1>2. MemoryInv /\ [Next]_vars => MemoryInv'
  BY MemoryStep
<1>3. MemoryInv => RestoresState
  <2> SUFFICES ASSUME MemoryInv PROVE RestoresState
    OBVIOUS
  <2>1. PICK f, v, p, w \in Lists : Good(m, owner, caused, nev, f, v, p, w) /\ CarriedNow(p)
    BY DEF MemoryInv
  <2>2. Undoes(p, mem, delta_buddy, cur_state, before)
    BY <2>1 DEF CarriedNow, Carried
  <2> QED BY <2>1, <2>2, RestoresIs
<1> QED BY <1>1, <1>2, <1>3, PTL DEF Spec
=============================================================================

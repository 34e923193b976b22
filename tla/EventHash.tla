------------------------------ MODULE EventHash ------------------------------
(***************************************************************************)
(* What one PE keeps of the events it received from other PEs, in the two  *)
(* ways the build offers: an AVL tree per KP over a fixed list of nodes    *)
(* (here one KP), or a hash table per sending PE.                          *)
(***************************************************************************)
EXTENDS AvlTree, HashQuadratic, FiniteSets

CONSTANTS
  g_tw_hash_size,
  SendPe,       \* the other PEs
  Received      \* events: [recv_ts, tiebreaker, event_id, send_pe]

ASSUME EventHashAssumption ==
  /\ g_tw_hash_size \in Nat
  /\ \A e, f \in Received :
       /\ e.send_pe \in SendPe /\ e.event_id \in Nat \ {0}
       /\ e.send_pe = f.send_pe /\ e.event_id = f.event_id => e = f

VARIABLES
  build,        \* "AVL_TREE" or "hash"
  num_nodes,    \* g_tw_avl_node_count
  tree,         \* kp->avl_tree
  nfree,        \* the length of the list at avl_list_head
  incoming,     \* hash_t->incoming, hash_sizes and num_stored, by PE
  halted        \* tw_error was called

hashVars == <<build, num_nodes, tree, nfree, incoming, halted>>

KeyOf(e) == <<e.recv_ts, e.tiebreaker, e.event_id, e.send_pe>>

tw_hash_create ==
  LET size == IF is_prime(g_tw_hash_size) THEN g_tw_hash_size ELSE next_prime(g_tw_hash_size)
  IN  /\ tree = AVL_EMPTY /\ nfree = num_nodes
      /\ incoming = [pe \in SendPe |-> allocate_table(size)]
      /\ halted = FALSE

\* avl_alloc takes the head of the list and fails when that empties it.
avl_alloc == nfree' = nfree - 1 /\ halted' = (nfree = 1)

tw_hash_insert(e) ==
  /\ \/ /\ build = "AVL_TREE"
        /\ avl_alloc
        /\ tree' = IF halted' THEN tree ELSE avlInsert(tree, KeyOf(e))
        /\ UNCHANGED incoming
     \/ /\ build = "hash"
        /\ incoming' = [incoming EXCEPT ![e.send_pe] = Insert(@, e)]
        /\ UNCHANGED <<tree, nfree, halted>>
  /\ UNCHANGED <<build, num_nodes>>

\* The event removed, or Empty, and the structures left.  The argument is the
\* anti-message, which carries the fields of the event, or the event itself.
Removal(e) ==
  IF build = "AVL_TREE"
  THEN LET r == avlDelete(tree, KeyOf(e))
       IN  [tree |-> r.tree, nfree |-> nfree + r.freed, incoming |-> incoming,
            event |-> IF r.key = <<>> THEN Empty ELSE CHOOSE f \in Received : KeyOf(f) = r.key]
  ELSE LET h == incoming[e.send_pe]
           k == find_entry(h, e.event_id)
           hit == k \in DOMAIN h.cell
       IN  [tree |-> tree, nfree |-> nfree,
            incoming |-> IF hit THEN [incoming EXCEPT ![e.send_pe] = Remove(h, k)] ELSE incoming,
            event |-> IF hit THEN h.cell[k] ELSE Empty]

\* A search that finds nothing is an error; in the table it has left it.
tw_hash_remove(e) ==
  LET r == Removal(e)
  IN  /\ tree' = r.tree /\ nfree' = r.nfree /\ incoming' = r.incoming
      /\ halted' = (r.event = Empty)
      /\ UNCHANGED <<build, num_nodes>>

\* The event that a search for e finds, or Empty.
Found(e) ==
  IF build = "AVL_TREE" THEN IF avlSearch(tree, KeyOf(e)) THEN e ELSE Empty
  ELSE Removal(e).event
=============================================================================

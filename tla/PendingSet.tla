----------------------------- MODULE PendingSet -----------------------------
(***************************************************************************)
(* The events one PE of the optimistic scheduler has and has not committed, *)
(* in the structures that hold them: event_q, the splay queue, the list of *)
(* processed events of its KP, the cancel list, and the tree or hash table *)
(* of all that came from other PEs.  An event is hashed when it is         *)
(* received, whatever list it goes to, and must leave the hash exactly     *)
(* once: for its anti-message or when it is fossil collected.              *)
(*                                                                         *)
(* An element of Event stands for a place in the order of events and, if   *)
(* received, for an event_id: after it is cancelled a later event may have *)
(* the same.                                                               *)
(***************************************************************************)
EXTENDS SplayQueue, EventHash, Sequences

CONSTANTS
  MaxWaiting,   \* a bound: the length of event_q and of cancel_q
  MaxProcessed, \* a bound: the length of pevent_q
  Loads         \* [build, nodes, events: a subset of Event], one for a run

ASSUME PendingAssumption ==
  /\ Received \subseteq Event /\ \A l \in Loads : l.events \subseteq Event /\ l.nodes \in Nat \ {0}
  /\ MaxWaiting \in Nat /\ MaxProcessed \in Nat

VARIABLES
  load,         \* the events of this run
  event_q, cancel_q,
  pevent_q,     \* the newest first
  remote,       \* the events with state.remote
  gvt           \* a signature

lists == <<load, event_q, cancel_q, pevent_q, remote, gvt>>
vars == <<pqVars, hashVars, lists>>

SeqSet(s) == {s[i] : i \in DOMAIN s}
Without(s, e) == SelectSeq(s, LAMBDA f : f # e)

Held == SeqSet(event_q) \cup SeqSet(cancel_q) \cup SeqSet(pevent_q) \cup TreeOf(root)

Init ==
  /\ \E l \in Loads : load = l.events /\ build = l.build /\ num_nodes = l.nodes
  /\ tw_pq_create /\ tw_hash_create
  /\ event_q = <<>> /\ cancel_q = <<>> /\ pevent_q = <<>>
  /\ remote = {} /\ gvt = 0

\* kp->last_sig
last_sig == IF pevent_q = <<>> THEN gvt ELSE Sig[Head(pevent_q)]

\* The end of recv_finish and of tw_event_send: in the fast case an event that
\* is not in the past goes to pq at once.
Deliver(e, fast) ==
  \/ /\ last_sig <= Sig[e] /\ fast
     /\ tw_pq_enqueue(e)
     /\ UNCHANGED event_q
  \/ /\ last_sig > Sig[e] \/ ~fast
     /\ Len(event_q) < MaxWaiting
     /\ event_q' = Append(event_q, e)
     /\ UNCHANGED pqVars

\* recv_finish with an event of another PE, which may not pass a cancel that is
\* waiting.
RecvEvent(e) ==
  /\ ~halted /\ e \in Received \ Held /\ Sig[e] >= gvt
  /\ tw_hash_insert(e)
  /\ remote' = remote \cup {e}
  /\ Deliver(e, cancel_q = <<>>)
  /\ UNCHANGED <<load, cancel_q, pevent_q, gvt>>

\* tw_event_send to an LP of this KP by one of this or another KP of the PE.
SendLocal(e) ==
  /\ ~halted /\ e \in Event \ (Received \cup Held) /\ Sig[e] >= gvt
  /\ Deliver(e, TRUE)
  /\ UNCHANGED <<hashVars, load, cancel_q, pevent_q, remote, gvt>>

\* recv_finish with the anti-message of e, which is still to be committed.
RecvCancel(e) ==
  /\ ~halted /\ e \in remote /\ Len(cancel_q) < MaxWaiting
  /\ tw_hash_remove(e)
  /\ remote' = remote \ {Removal(e).event}
  /\ cancel_q' = <<Removal(e).event>> \o cancel_q
  /\ UNCHANGED <<pqVars, load, event_q, pevent_q, gvt>>

\* event_cancel of an event sent to this PE.
CancelLocal(e) ==
  /\ ~halted /\ e \in Held \ (Received \cup SeqSet(cancel_q))
  /\ \/ /\ e \in TreeOf(root)
        /\ tw_pq_delete_any(e)
        /\ UNCHANGED cancel_q
     \/ /\ e \notin TreeOf(root) /\ Len(cancel_q) < MaxWaiting
        /\ cancel_q' = <<e>> \o cancel_q
        /\ UNCHANGED pqVars
  /\ UNCHANGED <<hashVars, load, event_q, pevent_q, remote, gvt>>

\* One pass of the loop of tw_sched_event_q, once what the event is too late
\* for has been undone.
EventQNext ==
  /\ ~halted /\ event_q # <<>>
  /\ event_q' = Tail(event_q)
  /\ LET e == Head(event_q)
     IN  \/ /\ e \in SeqSet(cancel_q)
            /\ UNCHANGED pqVars
         \/ /\ e \notin SeqSet(cancel_q) /\ last_sig <= Sig[e]
            /\ tw_pq_enqueue(e)
  /\ UNCHANGED <<hashVars, load, cancel_q, pevent_q, remote, gvt>>

\* One pass of the loop of tw_sched_cancel_q: of the events processed the one
\* cancelled is by now the newest.
CancelQNext ==
  /\ ~halted /\ cancel_q # <<>>
  /\ cancel_q' = Tail(cancel_q)
  /\ LET c == Head(cancel_q)
     IN  \/ /\ c \in TreeOf(root)
            /\ tw_pq_delete_any(c)
            /\ UNCHANGED <<event_q, pevent_q>>
         \/ /\ pevent_q # <<>> /\ c = Head(pevent_q)
            /\ pevent_q' = Tail(pevent_q)
            /\ UNCHANGED <<pqVars, event_q>>
         \/ /\ c \notin TreeOf(root) \cup SeqSet(pevent_q)
            /\ event_q' = Without(event_q, c)
            /\ UNCHANGED <<pqVars, pevent_q>>
  /\ UNCHANGED <<hashVars, load, remote, gvt>>

\* The loops of tw_kp_rollback_to_sig and tw_kp_rollback_event undo the newest
\* event; the network is read when what it sent is cancelled, so that events
\* and anti-messages may come in between.
Undo ==
  /\ ~halted /\ pevent_q # <<>>
  /\ \/ event_q # <<>> /\ Sig[Head(event_q)] <= Sig[Head(pevent_q)]
     \/ cancel_q # <<>> /\ Head(cancel_q) \in SeqSet(Tail(pevent_q))
  /\ pevent_q' = Tail(pevent_q)
  /\ tw_pq_enqueue(Head(pevent_q))
  /\ UNCHANGED <<hashVars, load, event_q, cancel_q, remote, gvt>>

\* tw_sched_batch, when both lists have been worked through.
Process ==
  /\ ~halted /\ event_q = <<>> /\ cancel_q = <<>> /\ Len(pevent_q) < MaxProcessed
  /\ tw_pq_dequeue
  /\ pevent_q' = IF out' = Null THEN pevent_q ELSE <<out'>> \o pevent_q
  /\ UNCHANGED <<hashVars, load, event_q, cancel_q, remote, gvt>>

\* GVT has passed the oldest event processed, which is committed and freed.
Fossil ==
  /\ ~halted /\ event_q = <<>> /\ cancel_q = <<>> /\ pevent_q # <<>>
  /\ LET e == pevent_q[Len(pevent_q)]
     IN  /\ gvt' = Sig[e] + 1
         /\ pevent_q' = SubSeq(pevent_q, 1, Len(pevent_q) - 1)
         /\ \/ /\ e \in remote
               /\ tw_hash_remove(e)
               /\ remote' = remote \ {e}
            \/ /\ e \notin remote
               /\ UNCHANGED <<hashVars, remote>>
  /\ UNCHANGED <<pqVars, load, event_q, cancel_q>>

Stopped == halted /\ UNCHANGED vars

Next ==
  \/ \E e \in load : RecvEvent(e) \/ SendLocal(e) \/ RecvCancel(e) \/ CancelLocal(e)
  \/ EventQNext \/ CancelQNext \/ Undo \/ Process \/ Fossil \/ Stopped

Spec == Init /\ [][Next]_vars
-----------------------------------------------------------------------------
\* Whatever has come and gone, exactly the events that are received and
\* neither cancelled nor committed are found, each as itself: what recv_finish
\* needs when an anti-message comes for any of them.
HashedWhileLive ==
  ~halted =>
    /\ remote = (Held \ SeqSet(cancel_q)) \cap Received
    /\ \A e \in Received : Found(e) = IF e \in remote THEN e ELSE Empty

\* The tree keeps its order and its stored heights through insertions and
\* deletions with their rotations, the double rotation on equal grandchildren
\* included, every node is in it or on the free list, and a table counts its
\* entries.
StoreSound ==
  ~halted =>
    /\ \A i \in 1 .. Len(Keys(tree)) - 1 : Less(Keys(tree)[i], Keys(tree)[i + 1])
    /\ avlSanityCheck(tree)
    /\ nfree + Len(Keys(tree)) = num_nodes
    /\ \A pe \in SendPe :
         incoming[pe].num_stored = Cardinality({k \in DOMAIN incoming[pe].cell : incoming[pe].cell[k] # Empty})

\* Probing by squares from any event_id ends at an empty cell of the table: the
\* loop of find_empty, which has no other way out, ends.
FindsRoom ==
  \A pe \in SendPe : \A e \in Received :
    e.send_pe = pe => find_empty(incoming[pe], e) < hash_size(incoming[pe])
=============================================================================

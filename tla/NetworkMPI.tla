----------------------------- MODULE NetworkMPI -----------------------------
(***************************************************************************)
(* The MPI network layer of ROSS (core/network-mpi.c): the life of the     *)
(* buffer of a remote event at its sender, from the outgoing queue through *)
(* the pending Isend to the sent event "queue" (an owner tag, not a list), *)
(* and of the anti-message that may follow it.                             *)
(*                                                                         *)
(* An event is an element of Event, one per call of tw_event_send: event_id*)
(* is fresh for every send, so an event sent again after a rollback is     *)
(* another element.  A queue is the set of its events: every order the     *)
(* lists can have is then possible, which is more than the FIFO outq does. *)
(* The transport is MPI's: reliable, and a message does not overtake an    *)
(* earlier one of the same pair of ranks, of which only the part that      *)
(* matters is kept: an anti-message does not overtake its own event.       *)
(***************************************************************************)
EXTENDS Naturals, FiniteSets

CONSTANTS
  PE,          \* the ranks of MPI_COMM_ROSS
  Event,       \* events, one per tw_event_send
  Src,         \* [Event -> PE], the PE of src_lp
  Dst,         \* [Event -> PE], the PE that dest_lp is mapped to
  SendBuffer   \* send_buffer: the length of posted_sends

ASSUME NetworkAssumption ==
  /\ Src \in [Event -> PE]
  /\ Dst \in [Event -> PE]
  /\ SendBuffer \in Nat \ {0}

VARIABLES
  owner,         \* state.owner of the sender's buffer ("none": not sent)
  cancel_q,      \* events whose buffer at the sender has state.cancel_q
  cancel_asend,  \* events whose buffer at the sender has state.cancel_asend
  outq,          \* the outgoing queues of all PEs
  posted_sends,  \* the events whose Isend MPI has not reported complete
  net,           \* external: the messages that MPI holds
  s_nwhite_sent, \* the messages counted by the senders' s_nwhite_sent
  s_nwhite_recv  \* the messages counted by the receivers' s_nwhite_recv

netVars == <<owner, cancel_q, cancel_asend, outq, posted_sends, net,
             s_nwhite_sent, s_nwhite_recv>>

Owner == {"none", "outq", "asend", "acancel", "sevent", "free"}

\* A message is an event, or its anti-message: the same buffer sent again
\* with state.cancel_q set.
Msg == Event \X {"event", "anti"}

Remote == {e \in Event : Src[e] # Dst[e]}

NetTypeOK ==
  /\ owner \in [Event -> Owner]
  /\ cancel_q \subseteq Event
  /\ cancel_asend \subseteq Event
  /\ outq \subseteq Event
  /\ posted_sends \subseteq Event
  /\ net \subseteq Msg
  /\ s_nwhite_sent \subseteq Msg
  /\ s_nwhite_recv \subseteq Msg

NetInit ==
  /\ owner = [e \in Event |-> "none"]
  /\ cancel_q = {}
  /\ cancel_asend = {}
  /\ outq = {}
  /\ posted_sends = {}
  /\ net = {}
  /\ s_nwhite_sent = {}
  /\ s_nwhite_recv = {}

-----------------------------------------------------------------------------
PostedBy(p) == {e \in posted_sends : Src[e] = p}

OutqOf(p) == {e \in outq : Src[e] = p}

\* send_begin stops when posted_sends is full or outq is empty; every handler
\* that adds to outq ends with it, so this holds whenever a handler returns.
Serviced(p) == OutqOf(p) = {} \/ Cardinality(PostedBy(p)) >= SendBuffer

\* The transmission that the buffer of e is in or about to start.
MsgOf(e) == <<e, IF e \in cancel_q THEN "anti" ELSE "event">>

\* tw_net_send, up to its test_q/send_begin loop: the events K enter outq.
tw_net_send(K) ==
  /\ owner' = [e \in Event |-> IF e \in K THEN "outq" ELSE owner[e]]
  /\ outq' = outq \cup K
  /\ UNCHANGED <<cancel_q, cancel_asend, posted_sends, net,
                 s_nwhite_sent, s_nwhite_recv>>

\* One iteration of send_begin: an event leaves outq and its Isend is posted.
send_begin(e) ==
  /\ e \in outq
  /\ Cardinality(PostedBy(Src[e])) < SendBuffer
  /\ outq' = outq \ {e}
  /\ owner' = [owner EXCEPT ![e] = IF e \in cancel_q THEN "acancel" ELSE "asend"]
  /\ posted_sends' = posted_sends \cup {e}
  /\ net' = net \cup {MsgOf(e)}
  /\ s_nwhite_sent' = s_nwhite_sent \cup {MsgOf(e)}
  /\ UNCHANGED <<cancel_q, cancel_asend, s_nwhite_recv>>

\* send_finish, called by test_q when MPI reports the Isend of e complete.
\* An event cancelled meanwhile goes back to outq as its own anti-message;
\* its owner stays TW_net_asend there.
send_finish(e) ==
  /\ e \in posted_sends
  /\ posted_sends' = posted_sends \ {e}
  /\ \/ /\ owner[e] = "asend" /\ e \in cancel_asend
        /\ cancel_asend' = cancel_asend \ {e}
        /\ cancel_q' = cancel_q \cup {e}
        /\ outq' = outq \cup {e}
        /\ UNCHANGED owner
     \/ /\ owner[e] = "asend" /\ e \notin cancel_asend
        /\ owner' = [owner EXCEPT ![e] = "sevent"]
        /\ UNCHANGED <<cancel_asend, cancel_q, outq>>
     \/ /\ owner[e] = "acancel"
        /\ owner' = [owner EXCEPT ![e] = "free"]
        /\ UNCHANGED <<cancel_asend, cancel_q, outq>>
  /\ UNCHANGED <<net, s_nwhite_sent, s_nwhite_recv>>

\* Mutant: an event still in outq is marked and stays there.
tw_net_cancel_queued(e) ==
  /\ \/ /\ owner[e] = "outq"
        /\ cancel_q' = cancel_q \cup {e}
        /\ UNCHANGED <<owner, outq, cancel_asend>>
     \/ /\ owner[e] = "asend"
        /\ cancel_asend' = cancel_asend \cup {e}
        /\ UNCHANGED <<owner, outq, cancel_q>>
     \/ /\ owner[e] = "sevent"
        /\ cancel_q' = cancel_q \cup {e}
        /\ outq' = outq \cup {e}
        /\ UNCHANGED <<owner, cancel_asend>>
  /\ UNCHANGED <<posted_sends, net, s_nwhite_sent, s_nwhite_recv>>

\* tw_net_cancel, up to its call of service_queues.  It says by its owner
\* where the buffer is; an event that never left outq is just freed.
tw_net_cancel(e) ==
  /\ \/ /\ owner[e] = "outq"
        /\ outq' = outq \ {e}
        /\ owner' = [owner EXCEPT ![e] = "free"]
        /\ UNCHANGED <<cancel_asend, cancel_q>>
     \/ /\ owner[e] = "asend"
        /\ cancel_asend' = cancel_asend \cup {e}
        /\ UNCHANGED <<owner, outq, cancel_q>>
     \/ /\ owner[e] = "sevent"
        /\ cancel_q' = cancel_q \cup {e}
        /\ outq' = outq \cup {e}
        /\ UNCHANGED <<owner, cancel_asend>>
  /\ UNCHANGED <<posted_sends, net, s_nwhite_sent, s_nwhite_recv>>

\* Mutant: recv_finish counts events but not anti-messages.
NetReceiveEventsCounted(m) ==
  /\ m \in net
  /\ m[2] = "anti" => <<m[1], "event">> \notin net
  /\ net' = net \ {m}
  /\ s_nwhite_recv' = IF m[2] = "event" THEN s_nwhite_recv \cup {m} ELSE s_nwhite_recv
  /\ UNCHANGED <<owner, cancel_q, cancel_asend, outq, posted_sends, s_nwhite_sent>>

\* The part of recv_finish that belongs to the network: message m is taken
\* from MPI, in the order of the pair, and counted.
NetReceive(m) ==
  /\ m \in net
  /\ m[2] = "anti" => <<m[1], "event">> \notin net
  /\ net' = net \ {m}
  /\ s_nwhite_recv' = s_nwhite_recv \cup {m}
  /\ UNCHANGED <<owner, cancel_q, cancel_asend, outq, posted_sends, s_nwhite_sent>>

\* Mutant: fossil collection frees a buffer that MPI is still sending from.
FreeSentAny(C) ==
  owner' = [e \in Event |-> IF e \in C THEN "free" ELSE owner[e]]

\* The fossil collection of an event frees the buffers of the events C that
\* it sent, those among them that have reached the sent event queue.
FreeSent(C) ==
  owner' = [e \in Event |-> IF e \in C /\ owner[e] = "sevent"
                              THEN "free" ELSE owner[e]]
=============================================================================

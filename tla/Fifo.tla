-------------------------------- MODULE Fifo --------------------------------
(***************************************************************************)
(* The intrusive lists of magnesium: a fifo is a dummy node and a pointer  *)
(* to its last node, and the nodes are members of the messages and actors  *)
(* that are linked.  Every queue, run queue and timer queue is one; module *)
(* Kernel takes them for sequences, which is what this module shows.       *)
(*                                                                         *)
(* The address of a fifo stands for the address of its dummy node.  The    *)
(* variable list is not in the code: it is the sequence that the calls     *)
(* made so far should have left in each fifo.                              *)
(***************************************************************************)
EXTENDS Naturals, Sequences

CONSTANTS Fifo, Node, NULL

ASSUME FifoAssumption ==
  /\ Fifo \cap Node = {}
  /\ NULL \notin Fifo \cup Node

VARIABLES
  next,   \* next[p]: the next pointer of the node at address p
  tail,   \* tail[f]: address of the last node, or of the dummy
  list

vars == <<next, tail, list>>

Linked(n) == \E f \in Fifo : \E i \in DOMAIN list[f] : list[f][i] = n

\* mg_fifo_init of every fifo.  The nodes are not initialised.
Init ==
  /\ next \in [Fifo \cup Node -> Node \cup {NULL}]
  /\ \A f \in Fifo : next[f] = NULL
  /\ tail = [f \in Fifo |-> f]
  /\ list = [f \in Fifo |-> <<>>]

mg_fifo_empty(f) == tail[f] = f

\* Mutant: the node keeps its next pointer.
MutantEnqueue(f, n) ==
  /\ ~Linked(n)
  /\ next' = [next EXCEPT ![tail[f]] = n]
  /\ tail' = [tail EXCEPT ![f] = n]
  /\ list' = [list EXCEPT ![f] = Append(@, n)]

\* A node is enqueued only while no fifo links it.
mg_fifo_enqueue(f, n) ==
  /\ ~Linked(n)
  /\ next' = [next EXCEPT ![n] = NULL, ![tail[f]] = n]
  /\ tail' = [tail EXCEPT ![f] = n]
  /\ list' = [list EXCEPT ![f] = Append(@, n)]

\* Every caller has seen that the fifo is not empty.
mg_fifo_dequeue(f) ==
  LET head == next[f] IN
  /\ ~mg_fifo_empty(f)
  /\ next' = [next EXCEPT ![f] = next[head]]
  /\ tail' = IF next[head] = NULL THEN [tail EXCEPT ![f] = f] ELSE tail
  /\ list' = [list EXCEPT ![f] = Tail(@)]

Next == \E f \in Fifo : mg_fifo_dequeue(f) \/ \E n \in Node : mg_fifo_enqueue(f, n)

Spec == Init /\ [][Next]_vars

-----------------------------------------------------------------------------
\* Every variable has its type.
TypeOK ==
  /\ next \in [Fifo \cup Node -> Node \cup {NULL}]
  /\ tail \in [Fifo -> Fifo \cup Node]
  /\ list \in [Fifo -> Seq(Node)]

\* The pointers of fifo f chain the nodes of s, from the dummy to the tail.
Chains(f, s) ==
  /\ s = <<>> => next[f] = NULL /\ tail[f] = f
  /\ s # <<>> => /\ next[f] = s[1]
                 /\ tail[f] = s[Len(s)]
                 /\ next[s[Len(s)]] = NULL
  /\ \A i \in 1..(Len(s) - 1) : next[s[i]] = s[i + 1]

\* Whatever nodes were enqueued and dequeued, reused and passed from one fifo
\* to another, the pointers represent the sequence of those still linked: the
\* next one dequeued is the oldest, and mg_fifo_empty is right.
Represents == \A f \in Fifo : Chains(f, list[f])

\* No node is linked twice.
LinkedOnce ==
  \A f, g \in Fifo : \A i \in DOMAIN list[f], j \in DOMAIN list[g] :
    list[f][i] = list[g][j] => f = g /\ i = j
=============================================================================

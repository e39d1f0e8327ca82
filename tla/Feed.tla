-------------------------------- MODULE Feed --------------------------------
(***************************************************************************)
(* What the event feed of an experiment promises a client that follows it  *)
(* (core/events.py, api/live.py): from the moment it joins, every event    *)
(* that is still kept and every later one is due to it until it has been   *)
(* sent; an event may be missed only after Keep newer ones were published. *)
(* Events are numbered in the order in which they were published.          *)
(***************************************************************************)
EXTENDS Naturals

CONSTANTS Clients, Keep

VARIABLES
  seq,   \* events published so far
  due,   \* per client, the events it has still to be sent
  open   \* the clients that follow

fvars == <<seq, due, open>>

Old == {e \in Nat : e + Keep <= seq'}

(* A client's due events gain the new one and lose at most old ones. *)
Publish ==
  /\ seq' = seq + 1 /\ open' = open
  /\ due' \in [Clients -> SUBSET (1..seq')]
  /\ \A c \in Clients :
       LET all == IF c \in open THEN due[c] \cup {seq'} ELSE due[c]
       IN  due'[c] \subseteq all /\ all \ due'[c] \subseteq Old

(* A new client is owed at least the last Keep events. *)
Join(c) ==
  /\ c \notin open /\ open' = open \cup {c} /\ seq' = seq
  /\ \E kept \in SUBSET (1..seq) :
       /\ (1..seq) \ kept \subseteq Old
       /\ due' = [due EXCEPT ![c] = kept]

Send(c) ==
  /\ \E e \in due[c] : due' = [due EXCEPT ![c] = @ \ {e}]
  /\ UNCHANGED <<seq, open>>

Leave(c) ==
  /\ c \in open /\ open' = open \ {c}
  /\ due' = [due EXCEPT ![c] = {}] /\ seq' = seq

Init == seq = 0 /\ due = [c \in Clients |-> {}] /\ open = {}

Next == Publish \/ \E c \in Clients : Join(c) \/ Send(c) \/ Leave(c)

Spec == Init /\ [][Next]_fvars

=============================================================================

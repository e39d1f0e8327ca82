---------------------------- MODULE EventStream -----------------------------
(***************************************************************************)
(* core/events.py and the SSE side of api/live.py: the event log of one    *)
(* experiment, the threads that publish to it, and the connections that    *)
(* replay its history, subscribe, replay what they missed meanwhile and    *)
(* then follow.  An event is its number; log says who published it.        *)
(*                                                                         *)
(* A publisher appends and copies the subscribers under the log's lock and *)
(* delivers after it has released it.  Waking the connection is left out:  *)
(* it looks into its buffer after a timeout at the latest.                 *)
(***************************************************************************)
EXTENDS Naturals, Sequences, SequencesExt

CONSTANTS
  Publishers,  \* threads that publish to this experiment
  Clients,     \* connections; one that is closed does not come back
  MaxHistory,  \* MAX_HISTORY
  MaxEvents    \* bound: events published in all

ASSUME SizeAssumption == MaxHistory \in Nat \ {0} /\ MaxEvents \in Nat

VARIABLES
  log,      \* history: the publisher of each event, so Len(log) is _seq
  history,  \* _history
  subs,     \* _subscribers
  posting,  \* per publisher, the event it delivers: 0 when none
  to,       \* the subscribers it has still to call
  stage,    \* per client, where stream_experiment_events is
  todo,     \* the frames it is about to yield
  last,     \* last_seq
  buffer,   \* its EventBuffer
  sent      \* history: what it has yielded

bus == <<log, history, subs, posting, to>>
client == <<stage, todo, last, buffer, sent>>
vars == <<bus, client>>

seq == Len(log)
Numbers == 1..MaxEvents

Init ==
  /\ log = <<>> /\ history = <<>> /\ subs = {}
  /\ posting = [p \in Publishers |-> 0] /\ to = [p \in Publishers |-> {}]
  /\ stage = [c \in Clients |-> "away"] /\ todo = [c \in Clients |-> <<>>]
  /\ last = [c \in Clients |-> 0] /\ buffer = [c \in Clients |-> <<>>]
  /\ sent = [c \in Clients |-> <<>>]

-----------------------------------------------------------------------------
(* The older half goes when the history is full: [-MAX_HISTORY // 2:]       *)
(* keeps the larger half of an odd length.                                 *)
Half == (MaxHistory + 1) \div 2

Trimmed ==
  IF Len(history) >= MaxHistory
    THEN SubSeq(history, Len(history) - Half + 1, Len(history))
    ELSE history

Publish(p) ==
  /\ posting[p] = 0 /\ seq < MaxEvents
  /\ log' = Append(log, p)
  /\ history' = Append(Trimmed, seq + 1)
  /\ to' = [to EXCEPT ![p] = subs]
  /\ posting' = [posting EXCEPT ![p] = IF subs = {} THEN 0 ELSE seq + 1]
  /\ UNCHANGED <<subs, client>>

(* One subscriber after the other: EventBuffer.push. *)
Deliver(p) ==
  /\ \E c \in to[p] :
       /\ buffer' = [buffer EXCEPT ![c] = Append(@, posting[p])]
       /\ to' = [to EXCEPT ![p] = @ \ {c}]
       /\ posting' = [posting EXCEPT ![p] = IF to[p] = {c} THEN 0 ELSE @]
  /\ UNCHANGED <<log, history, subs, stage, todo, last, sent>>

-----------------------------------------------------------------------------
At(c, here, there) == stage[c] = here /\ stage' = [stage EXCEPT ![c] = there]

(* replay(0) *)
Connect(c) ==
  /\ At(c, "away", "burst")
  /\ todo' = [todo EXCEPT ![c] = history]
  /\ last' = [last EXCEPT ![c] = IF history = <<>> THEN 0 ELSE seq]
  /\ UNCHANGED <<bus, buffer, sent>>

(* A frame of the burst, of the catch-up or of the live loop. *)
Yield(c) ==
  /\ todo[c] # <<>>
  /\ sent' = [sent EXCEPT ![c] = Append(@, Head(todo[c]))]
  /\ todo' = [todo EXCEPT ![c] = Tail(@)]
  /\ UNCHANGED <<bus, stage, last, buffer>>

Subscribe(c) ==
  /\ todo[c] = <<>> /\ At(c, "burst", "subscribed")
  /\ subs' = subs \cup {c}
  /\ UNCHANGED <<log, history, posting, to, todo, last, buffer, sent>>

(* Mutant of CatchUp: what was published before subscribe is not read.     *)
CatchUpSkipped(c) ==
  /\ At(c, "subscribed", "catchup")
  /\ UNCHANGED <<bus, todo, last, buffer, sent>>

(* Mutant of CatchUp: the replay starts from the beginning.                *)
CatchUpFromZero(c) ==
  /\ At(c, "subscribed", "catchup")
  /\ todo' = [todo EXCEPT ![c] = history]
  /\ UNCHANGED <<bus, last, buffer, sent>>

(* replay(last_seq): the history is in order, so what is later than        *)
(* last_seq is the end of it.                                              *)
CatchUp(c) ==
  /\ At(c, "subscribed", "catchup")
  /\ \E k \in 0..Len(history) :
       /\ \A i \in DOMAIN history : history[i] > last[c] <=> i > k
       /\ todo' = [todo EXCEPT ![c] = SubSeq(history, k + 1, Len(history))]
  /\ UNCHANGED <<bus, last, buffer, sent>>

Follow(c) ==
  /\ todo[c] = <<>> /\ At(c, "catchup", "live")
  /\ UNCHANGED <<bus, todo, last, buffer, sent>>

(* Mutant of PopAll: the newest event first.                               *)
PopAllReversed(c) ==
  /\ stage[c] = "live" /\ todo[c] = <<>> /\ buffer[c] # <<>>
  /\ todo' = [todo EXCEPT ![c] = Reverse(buffer[c])]
  /\ buffer' = [buffer EXCEPT ![c] = <<>>]
  /\ UNCHANGED <<bus, stage, last, sent>>

(* Mutant of PopAll: a single event waits for the next.                    *)
PopAllBatched(c) ==
  /\ stage[c] = "live" /\ todo[c] = <<>> /\ Len(buffer[c]) > 1
  /\ todo' = [todo EXCEPT ![c] = buffer[c]]
  /\ buffer' = [buffer EXCEPT ![c] = <<>>]
  /\ UNCHANGED <<bus, stage, last, sent>>

PopAll(c) ==
  /\ stage[c] = "live" /\ todo[c] = <<>> /\ buffer[c] # <<>>
  /\ todo' = [todo EXCEPT ![c] = buffer[c]]
  /\ buffer' = [buffer EXCEPT ![c] = <<>>]
  /\ UNCHANGED <<bus, stage, last, sent>>

(* The connection drops at a yield, or has been idle for max_idle_s.  Only *)
(* the live loop is in the block that unsubscribes.                        *)
Disconnect(c) ==
  /\ \/ stage[c] \in {"burst", "catchup"} /\ todo[c] # <<>> /\ UNCHANGED subs
     \/ stage[c] = "live" /\ subs' = subs \ {c}
  /\ stage' = [stage EXCEPT ![c] = "closed"] /\ todo' = [todo EXCEPT ![c] = <<>>]
  /\ UNCHANGED <<log, history, posting, to, last, buffer, sent>>

ClientStep(c) ==
  Yield(c) \/ Subscribe(c) \/ CatchUp(c) \/ Follow(c) \/ PopAll(c)

Next ==
  \/ \E p \in Publishers : Publish(p) \/ Deliver(p)
  \/ \E c \in Clients : Connect(c) \/ ClientStep(c) \/ Disconnect(c)

Spec == Init /\ [][Next]_vars

(* Publishers and connections that are at work go on working. *)
FairSpec ==
  /\ Spec
  /\ \A p \in Publishers : WF_vars(Deliver(p))
  /\ \A c \in Clients : WF_vars(ClientStep(c))

-----------------------------------------------------------------------------
Connected(c) == stage[c] \notin {"away", "closed"}

(* What is on its way to a client: frames to yield, its buffer, deliveries *)
(* in progress, and, before the second replay, the history after last_seq. *)
Pending(c) ==
  ToSet(todo[c]) \cup ToSet(buffer[c])
    \cup {posting[p] : p \in {q \in Publishers : c \in to[q]}}
    \cup IF stage[c] \in {"burst", "subscribed"}
           THEN {e \in ToSet(history) : e > last[c]} ELSE {}

Due == [c \in Clients |-> IF Connected(c) THEN Pending(c) \ ToSet(sent[c]) ELSE {}]

(* The feed promises more than its parts: between the burst, the           *)
(* subscription and the second replay no event is missed unless half a     *)
(* history of newer ones was published meanwhile.                          *)
F == INSTANCE Feed WITH Keep <- Half, due <- Due, open <- {c \in Clients : Connected(c)}

ImplementsFeed == F!Spec

(* No event is yielded more than twice, whatever publishers and replays    *)
(* overlap, and an event of the first burst only once.                     *)
AtMostTwice ==
  \A c \in Clients : \A i, j \in DOMAIN sent[c] :
    (i < j /\ sent[c][i] = sent[c][j]) =>
      /\ sent[c][i] > last[c]
      /\ \A k \in DOMAIN sent[c] : k > j => sent[c][k] # sent[c][j]

(* A client to whom nothing is due ends on each publisher's latest event:  *)
(* repeated and overtaken frames never leave an older state of the same    *)
(* publisher on the dashboard after its newest was shown.                  *)
Settled(c) == stage[c] = "live" /\ Pending(c) = {}

Publisher(c, i) == log[sent[c][i]]

EndsOn(c, j) == \A k \in DOMAIN sent[c] : k > j => Publisher(c, k) # Publisher(c, j)

LastWord ==
  \A c \in Clients : Settled(c) => \A i, j \in DOMAIN sent[c] :
    (EndsOn(c, j) /\ Publisher(c, i) = Publisher(c, j)) => sent[c][i] <= sent[c][j]

(* Whatever is due is sent, or lost to a full history, as long as the      *)
(* connection stays.                                                       *)
DueIsSent ==
  \A c \in Clients, e \in Numbers : (e \in Due[c]) ~> (e \notin Due[c])

=============================================================================

------------------------- MODULE EventStreamProofs --------------------------
(***************************************************************************)
(* Proofs about EventStream, for any publishers and connections, any size  *)
(* of the history and any number of events: what a connection is shown,    *)
(* and that the bus implements Feed.                                       *)
(***************************************************************************)
EXTENDS EventStream, SequenceTheorems, TLAPS

-----------------------------------------------------------------------------
(* The history is the latest events, and more than half of a full one if   *)
(* any have gone.                                                          *)
History ==
  /\ history \in Seq(Nat) /\ Len(history) <= seq
  /\ \A i \in DOMAIN history : history[i] = seq - Len(history) + i
  /\ Len(history) = seq \/ Len(history) > Half

(* A publisher delivers its latest event. *)
Posting ==
  \A p \in Publishers :
    /\ to[p] = {} => posting[p] = 0
    /\ to[p] # {} => posting[p] \in 1..seq /\ log[posting[p]] = p
    /\ to[p] # {} => \A e \in 1..seq : log[e] = p => e <= posting[p]

Typed ==
  /\ log \in Seq(Publishers) /\ subs \subseteq Clients
  /\ posting \in [Publishers -> Nat] /\ to \in [Publishers -> SUBSET Clients]
  /\ stage \in [Clients -> {"away", "burst", "subscribed", "catchup", "live", "closed"}]
  /\ todo \in [Clients -> Seq(Nat)] /\ buffer \in [Clients -> Seq(Nat)]
  /\ sent \in [Clients -> Seq(Nat)] /\ last \in [Clients -> Nat]

(* What c will be shown of what it has been called with, in this order,    *)
(* and whether it will be shown e, of the deliveries in progress too.      *)
Queue(c) == (IF stage[c] = "live" THEN todo[c] ELSE <<>>) \o buffer[c]

Awaits(c, e) ==
  \/ \E i \in DOMAIN Queue(c) : Queue(c)[i] = e
  \/ \E p \in Publishers : c \in to[p] /\ posting[p] = e

Placed(c) ==
  /\ stage[c] \in {"subscribed", "catchup", "live"} => c \in subs
  /\ stage[c] \in {"away", "burst"} =>
       c \notin subs /\ buffer[c] = <<>> /\ \A p \in Publishers : c \notin to[p]
  /\ stage[c] \in {"away", "subscribed", "closed"} => todo[c] = <<>>
  /\ stage[c] = "away" => sent[c] = <<>>

Numbered(c) ==
  /\ last[c] <= seq
  /\ \A i \in DOMAIN todo[c] : todo[c][i] \in 1..seq
  /\ \A i \in DOMAIN sent[c] : sent[c][i] \in 1..seq
  /\ \A i \in DOMAIN Queue(c) : Queue(c)[i] \in 1..seq

(* The two replays are in order. *)
FirstPass(c) ==
  stage[c] \in {"burst", "subscribed", "catchup"} =>
    /\ \A i, j \in DOMAIN sent[c] : i < j => sent[c][i] < sent[c][j]
    /\ \A i, j \in DOMAIN todo[c] : i < j => todo[c][i] < todo[c][j]
    /\ \A i \in DOMAIN sent[c], j \in DOMAIN todo[c] : sent[c][i] < todo[c][j]
    /\ stage[c] # "catchup" =>
         /\ \A i \in DOMAIN sent[c] : sent[c][i] <= last[c]
         /\ \A i \in DOMAIN todo[c] : todo[c][i] <= last[c]

(* What c is called with is newer than its first replay. *)
Late(c) ==
  /\ \A i \in DOMAIN Queue(c) : Queue(c)[i] > last[c]
  /\ \A p \in Publishers : c \in to[p] => posting[p] > last[c]

(* A publisher's events come in order. *)
Ordered(c) ==
  /\ \A i, j \in DOMAIN Queue(c) :
       (i < j /\ log[Queue(c)[i]] = log[Queue(c)[j]]) => Queue(c)[i] < Queue(c)[j]
  /\ \A i \in DOMAIN Queue(c), p \in Publishers :
       (c \in to[p] /\ log[Queue(c)[i]] = p) => Queue(c)[i] < posting[p]

(* Before it follows, c awaits all that was published since a certain one. *)
Upward(c) ==
  stage[c] \in {"subscribed", "catchup"} =>
    \A h, e \in 1..seq : (Awaits(c, h) /\ h < e) => Awaits(c, e)

(* What is to come and older than what was shown is followed by it.        *)
Overtaken(c) ==
  stage[c] \in {"subscribed", "catchup", "live"} =>
    \A i \in DOMAIN sent[c], h \in 1..seq :
      (Awaits(c, h) /\ log[h] = log[sent[c][i]] /\ h < sent[c][i]) => Awaits(c, sent[c][i])

Repeated(c) ==
  stage[c] # "closed" => \A i, j \in DOMAIN sent[c] :
    (i < j /\ log[sent[c][i]] = log[sent[c][j]] /\ sent[c][j] < sent[c][i]) =>
      \/ Awaits(c, sent[c][i])
      \/ \E k \in DOMAIN sent[c] : k > j /\ sent[c][k] = sent[c][i]

(* What was shown twice is not to come. *)
Twice(c) ==
  \A i, j \in DOMAIN sent[c] : (i < j /\ sent[c][i] = sent[c][j]) =>
    /\ sent[c][i] > last[c] /\ ~Awaits(c, sent[c][i])
    /\ \A k \in DOMAIN sent[c] : k > j => sent[c][k] # sent[c][j]

Shown(c) ==
  /\ Placed(c) /\ Numbered(c) /\ FirstPass(c) /\ Late(c) /\ Ordered(c)
  /\ Upward(c) /\ Overtaken(c) /\ Repeated(c) /\ Twice(c)

IInv == Typed /\ History /\ Posting /\ \A c \in Clients : Shown(c)

-----------------------------------------------------------------------------
(* What is typed of one connection.                                        *)
LEMMA OneClient ==
  ASSUME Typed, NEW c \in Clients
  PROVE  /\ todo[c] \in Seq(Nat) /\ buffer[c] \in Seq(Nat) /\ sent[c] \in Seq(Nat)
         /\ last[c] \in Nat /\ Queue(c) \in Seq(Nat) /\ seq \in Nat
         /\ stage[c] \in {"away", "burst", "subscribed", "catchup", "live", "closed"}
<1>1. /\ todo[c] \in Seq(Nat) /\ buffer[c] \in Seq(Nat) /\ sent[c] \in Seq(Nat)
      /\ last[c] \in Nat /\ seq \in Nat
      /\ stage[c] \in {"away", "burst", "subscribed", "catchup", "live", "closed"}
  BY DEF Typed, seq
<1>2. Queue(c) \in Seq(Nat)
  BY <1>1 DEF Queue
<1> QED
  BY <1>1, <1>2

(* A connection of which nothing changes keeps what is shown of it.        *)
LEMMA Untouched ==
  ASSUME Typed, NEW c \in Clients, Shown(c), log' = log,
         stage'[c] = stage[c], todo'[c] = todo[c], buffer'[c] = buffer[c],
         sent'[c] = sent[c], last'[c] = last[c], c \in subs' <=> c \in subs,
         \A p \in Publishers : (c \in to'[p] <=> c \in to[p]) /\ (c \in to[p] => posting'[p] = posting[p])
  PROVE  Shown(c)'
<1>1. seq' = seq /\ Queue(c)' = Queue(c)
  BY DEF seq, Queue
<1>2. \A e : Awaits(c, e)' <=> Awaits(c, e)
  BY <1>1, Zenon DEF Awaits
<1>3. Placed(c)' /\ Numbered(c)' /\ FirstPass(c)'
  BY <1>1 DEF Shown, Placed, Numbered, FirstPass
<1>4. Late(c)' /\ Ordered(c)'
  BY <1>1 DEF Shown, Late, Ordered
<1>5. Upward(c)' /\ Overtaken(c)'
  BY <1>1, <1>2 DEF Shown, Upward, Overtaken
<1>6. Repeated(c)' /\ Twice(c)'
  BY <1>1, <1>2 DEF Shown, Repeated, Twice
<1> QED
  BY <1>3, <1>4, <1>5, <1>6 DEF Shown

-----------------------------------------------------------------------------
(* At the start nothing has been published and nobody is connected.        *)
LEMMA StreamInit == Init => IInv
<1> SUFFICES ASSUME Init PROVE IInv
  OBVIOUS
<1>1. Typed /\ History /\ Posting
  BY DEF Init, Typed, History, Posting, seq
<1>2. ASSUME NEW c \in Clients PROVE Shown(c)
  <2>1. /\ stage[c] = "away" /\ todo[c] = <<>> /\ buffer[c] = <<>> /\ sent[c] = <<>>
        /\ last[c] = 0 /\ c \notin subs /\ \A p \in Publishers : c \notin to[p]
    BY DEF Init
  <2>2. Queue(c) = <<>> /\ seq \in Nat
    BY <2>1 DEF Queue, seq, Init
  <2> QED
    BY <2>1, <2>2 DEF Shown, Placed, Numbered, FirstPass, Late, Ordered, Upward, Overtaken, Repeated, Twice
<1> QED
  BY <1>1, <1>2 DEF IInv

(* What is published is the latest, and is on its way to the subscribers.  *)
LEMMA Published ==
  ASSUME IInv, NEW p \in Publishers, Publish(p)
  PROVE  /\ seq \in Nat /\ seq' = seq + 1 /\ log' \in Seq(Publishers)
         /\ \A e \in 1..seq : log'[e] = log[e]
         /\ log'[seq + 1] = p /\ to[p] = {}
         /\ \A q \in Publishers : q # p => to'[q] = to[q] /\ posting'[q] = posting[q]
         /\ to'[p] = subs /\ posting'[p] = IF subs = {} THEN 0 ELSE seq + 1
         /\ UNCHANGED <<subs, stage, todo, last, buffer, sent>>
<1>1. log \in Seq(Publishers) /\ log' = Append(log, p) /\ seq \in Nat
  BY DEF IInv, Typed, Publish, seq
<1>2. seq' = seq + 1 /\ log' \in Seq(Publishers) /\ log'[seq + 1] = p /\ \A e \in 1..seq : log'[e] = log[e]
  BY <1>1 DEF seq
<1>3. to[p] = {}
  BY <1>1 DEF Publish, IInv, Posting
<1>4. posting \in [Publishers -> Nat] /\ to \in [Publishers -> SUBSET Clients]
  BY DEF IInv, Typed
<1> QED
  BY <1>1, <1>2, <1>3, <1>4 DEF Publish, client

(* What is left of the history when there is to be room for one more.     *)
LEMMA TrimmedIs ==
  ASSUME IInv
  PROVE  /\ Trimmed \in Seq(Nat) /\ Len(Trimmed) <= seq /\ Len(Trimmed) \in Nat
         /\ Len(Trimmed) <= Len(history)
         /\ \A i \in 1..Len(Trimmed) : Trimmed[i] = seq - Len(Trimmed) + i
         /\ Len(Trimmed) = seq \/ Len(Trimmed) >= Half
<1>1. history \in Seq(Nat) /\ seq \in Nat /\ MaxHistory \in Nat /\ MaxHistory > 0
  BY SizeAssumption DEF IInv, History, Typed, seq
<1>2. Half \in Nat /\ Half > 0 /\ Half <= MaxHistory
  BY <1>1 DEF Half
<1>3. /\ Len(history) <= seq /\ Len(history) \in Nat
      /\ \A i \in 1..Len(history) : history[i] = seq - Len(history) + i
      /\ Len(history) = seq \/ Len(history) > Half
  BY <1>1 DEF IInv, History
<1>4. CASE Len(history) < MaxHistory
  <2>1. Trimmed = history
    BY <1>4, <1>1, <1>3 DEF Trimmed
  <2> QED
    BY <2>1, <1>1, <1>3, <1>2
<1>5. CASE Len(history) >= MaxHistory
  <2> DEFINE m == Len(history) - Half + 1
  <2>1. Trimmed = SubSeq(history, m, Len(history)) /\ m \in 1..Len(history)
    BY <1>5, <1>1, <1>2, <1>3 DEF Trimmed
  <2>2. ASSUME NEW i \in m..Len(history) PROVE history[i] \in Nat
    <3>1. i \in 1..Len(history)
      BY <2>1, <1>3
    <3> QED
      BY <3>1, <1>1, ElementOfSeq
  <2>3. /\ Trimmed \in Seq(Nat) /\ Len(Trimmed) = Half
        /\ \A i \in 1..Half : Trimmed[i] = history[m + i - 1]
    BY <2>1, <2>2, <1>1, <1>2, <1>3
  <2>4. ASSUME NEW i \in 1..Half PROVE Trimmed[i] = seq - Half + i
    <3>1. m + i - 1 \in 1..Len(history)
      BY <2>1, <1>2, <1>3
    <3>2. history[m + i - 1] = seq - Len(history) + (m + i - 1)
      BY <3>1, <1>3
    <3>3. Trimmed[i] = history[m + i - 1]
      BY <2>3
    <3> QED
      BY <3>2, <3>3, <1>1, <1>2, <1>3
  <2> QED
    BY <2>3, <2>4, <1>5, <1>1, <1>2, <1>3
<1> QED
  BY <1>4, <1>5, <1>1, <1>3

(* The history stays the end of the log.                                   *)
LEMMA PublishKeepsHistory ==
  ASSUME IInv, NEW p \in Publishers, Publish(p)
  PROVE  History' /\ Len(history') <= Len(history) + 1
<1>1. history \in Seq(Nat) /\ seq \in Nat /\ MaxHistory \in Nat /\ MaxHistory > 0
  BY SizeAssumption DEF IInv, History, Typed, seq
<1>2. Half \in Nat /\ Half > 0 /\ Half <= MaxHistory
  BY <1>1 DEF Half
<1>3. seq' = seq + 1 /\ history' = Append(Trimmed, seq + 1)
  BY Published DEF Publish
<1>5. /\ Trimmed \in Seq(Nat) /\ Len(Trimmed) <= seq /\ Len(Trimmed) \in Nat
      /\ \A i \in 1..Len(Trimmed) : Trimmed[i] = seq - Len(Trimmed) + i
      /\ Len(Trimmed) = seq \/ Len(Trimmed) >= Half
  BY TrimmedIs
<1>6. /\ history' \in Seq(Nat) /\ Len(history') = Len(Trimmed) + 1
      /\ \A i \in 1..Len(Trimmed) : history'[i] = Trimmed[i]
      /\ history'[Len(Trimmed) + 1] = seq + 1
  BY <1>1, <1>3, <1>5
<1>7. DOMAIN history' = 1..(Len(Trimmed) + 1)
  BY <1>6
<1>8. ASSUME NEW i \in DOMAIN history' PROVE history'[i] = seq' - Len(history') + i
  <2>1. CASE i = Len(Trimmed) + 1
    BY <2>1, <1>1, <1>3, <1>5, <1>6
  <2>2. CASE i \in 1..Len(Trimmed)
    <3>1. history'[i] = Trimmed[i] /\ Trimmed[i] = seq - Len(Trimmed) + i
      BY <2>2, <1>5, <1>6
    <3> QED
      BY <3>1, <2>2, <1>1, <1>3, <1>5, <1>6
  <2> QED
    BY <2>1, <2>2, <1>5, <1>7
<1>9. Len(Trimmed) <= Len(history) /\ Len(history) \in Nat
  BY <1>1, TrimmedIs
<1> QED
  BY <1>1, <1>2, <1>3, <1>5, <1>6, <1>8, <1>9 DEF History, Half

(* So do the types, and each publisher delivers its latest event.          *)
LEMMA PublishKeepsTyped ==
  ASSUME IInv, NEW p \in Publishers, Publish(p)
  PROVE  Typed' /\ Posting'
<1>1. /\ seq \in Nat /\ seq' = seq + 1 /\ log' \in Seq(Publishers)
      /\ log'[seq + 1] = p /\ to'[p] = subs /\ posting'[p] = IF subs = {} THEN 0 ELSE seq + 1
      /\ UNCHANGED <<subs, stage, todo, last, buffer, sent>>
  BY Published
<1>2. \A e \in 1..seq : log'[e] = log[e]
  BY Published
<1>3. posting' \in [Publishers -> Nat] /\ to' \in [Publishers -> SUBSET Clients]
  BY <1>1 DEF Publish, IInv, Typed
<1>4. Typed'
  BY <1>1, <1>3 DEF IInv, Typed
<1>5. ASSUME NEW q \in Publishers
      PROVE  /\ to'[q] = {} => posting'[q] = 0
             /\ to'[q] # {} => posting'[q] \in 1..seq' /\ log'[posting'[q]] = q
             /\ to'[q] # {} => \A e \in 1..seq' : log'[e] = q => e <= posting'[q]
  <2>1. CASE q = p
    BY <2>1, <1>1
  <2>2. CASE q # p
    <3>1. to'[q] = to[q] /\ posting'[q] = posting[q]
      BY <2>2, Published
    <3>2. /\ to[q] = {} => posting[q] = 0
          /\ to[q] # {} => posting[q] \in 1..seq /\ log[posting[q]] = q
          /\ to[q] # {} => \A e \in 1..seq : log[e] = q => e <= posting[q]
      BY DEF IInv, Posting
    <3>3. to[q] # {} => log'[posting[q]] = q
      BY <3>2, <1>2
    <3>4. ASSUME to[q] # {}, NEW e \in 1..(seq + 1), log'[e] = q PROVE e <= posting[q]
      <4>1. e \in 1..seq
        BY <3>4, <1>1, <2>2
      <4> QED
        BY <4>1, <3>4, <3>2, <1>2
    <3> QED
      BY <3>1, <3>2, <3>3, <3>4, <1>1
  <2> QED
    BY <2>1, <2>2
<1> QED
  BY <1>4, <1>5 DEF Posting

(* A subscriber awaits what is published, and every other connection what  *)
(* it did before.                                                          *)
LEMMA PublishKeepsShown ==
  ASSUME IInv, NEW p \in Publishers, Publish(p), NEW c \in Clients
  PROVE  Shown(c)'
<1>1. /\ seq \in Nat /\ seq' = seq + 1 /\ to[p] = {}
      /\ log'[seq + 1] = p /\ to'[p] = subs /\ posting'[p] = IF subs = {} THEN 0 ELSE seq + 1
      /\ UNCHANGED <<subs, stage, todo, last, buffer, sent>>
  BY Published
<1>2. \A e \in 1..seq : log'[e] = log[e]
  BY Published
<1>3. \A q \in Publishers : q # p => to'[q] = to[q] /\ posting'[q] = posting[q]
  BY Published
<1>4. /\ Placed(c) /\ Numbered(c) /\ FirstPass(c) /\ Late(c) /\ Ordered(c)
      /\ Upward(c) /\ Overtaken(c) /\ Repeated(c) /\ Twice(c)
  BY DEF IInv, Shown
<1>5. todo[c] \in Seq(Nat) /\ sent[c] \in Seq(Nat) /\ last[c] \in Nat /\ Queue(c) \in Seq(Nat)
  BY OneClient DEF IInv
<1>6. Queue(c)' = Queue(c)
  BY <1>1 DEF Queue
<1>7. ASSUME NEW e PROVE Awaits(c, e)' <=> Awaits(c, e) \/ (c \in subs /\ e = seq + 1)
  <2>1. (\E q \in Publishers : c \in to'[q] /\ posting'[q] = e)
          <=> (\E q \in Publishers : c \in to[q] /\ posting[q] = e) \/ (c \in subs /\ e = seq + 1)
    BY <1>1, <1>3
  <2> QED
    BY <1>6, <2>1, Zenon DEF Awaits
<1>8. Placed(c)'
  BY <1>1, <1>3, <1>4 DEF Placed
<1>9. Numbered(c)'
  BY <1>1, <1>4, <1>5, <1>6 DEF Numbered
<1>10. FirstPass(c)'
  BY <1>1, <1>4 DEF FirstPass
<1>11. Late(c)'
  <2>1. \A i \in DOMAIN Queue(c) : Queue(c)[i] > last[c]
    BY <1>4 DEF Late
  <2>2. ASSUME NEW q \in Publishers, c \in to'[q] PROVE posting'[q] > last[c]
    <3>1. CASE q = p
      BY <3>1, <2>2, <1>1, <1>4, <1>5 DEF Numbered
    <3>2. CASE q # p
      BY <3>2, <2>2, <1>3, <1>4 DEF Late
    <3> QED
      BY <3>1, <3>2
  <2> QED
    BY <2>1, <2>2, <1>1, <1>6 DEF Late
<1>12. \A i \in DOMAIN Queue(c) : Queue(c)[i] \in 1..seq /\ log'[Queue(c)[i]] = log[Queue(c)[i]]
  BY <1>2, <1>4 DEF Numbered
<1>13. \A i \in DOMAIN sent[c] : sent[c][i] \in 1..seq /\ log'[sent[c][i]] = log[sent[c][i]]
  BY <1>2, <1>4 DEF Numbered
<1>14. Ordered(c)'
  <2>1. \A i, j \in DOMAIN Queue(c) :
          (i < j /\ log'[Queue(c)[i]] = log'[Queue(c)[j]]) => Queue(c)[i] < Queue(c)[j]
    BY <1>4, <1>12 DEF Ordered
  <2>2. ASSUME NEW i \in DOMAIN Queue(c), NEW q \in Publishers, c \in to'[q], log'[Queue(c)[i]] = q
        PROVE  Queue(c)[i] < posting'[q]
    <3>1. CASE q = p
      BY <3>1, <2>2, <1>1, <1>12
    <3>2. CASE q # p
      BY <3>2, <2>2, <1>3, <1>4, <1>12 DEF Ordered
    <3> QED
      BY <3>1, <3>2
  <2> QED
    BY <2>1, <2>2, <1>6 DEF Ordered
<1>15. Upward(c)'
  <2> SUFFICES ASSUME stage[c] \in {"subscribed", "catchup"}, NEW h \in 1..(seq + 1), NEW e \in 1..(seq + 1),
                      Awaits(c, h)', h < e
               PROVE  Awaits(c, e)'
    BY <1>1 DEF Upward
  <2>1. c \in subs
    BY <1>4 DEF Placed
  <2>2. CASE e = seq + 1
    BY <2>1, <2>2, <1>7
  <2>3. CASE e # seq + 1
    <3>1. h \in 1..seq /\ e \in 1..seq
      BY <2>3, <1>1
    <3>2. Awaits(c, h)
      BY <3>1, <1>1, <1>7
    <3>3. Awaits(c, e)
      BY <3>1, <3>2, <1>4 DEF Upward
    <3> QED
      BY <3>3, <1>7
  <2> QED
    BY <2>2, <2>3
<1>16. Overtaken(c)'
  <2> SUFFICES ASSUME stage[c] \in {"subscribed", "catchup", "live"}, NEW i \in DOMAIN sent[c],
                      NEW h \in 1..(seq + 1), Awaits(c, h)', log'[h] = log'[sent[c][i]], h < sent[c][i]
               PROVE  Awaits(c, sent[c][i])'
    BY <1>1 DEF Overtaken
  <2>1. h \in 1..seq /\ log'[h] = log[h] /\ log'[sent[c][i]] = log[sent[c][i]]
    BY <1>1, <1>2, <1>13
  <2>2. Awaits(c, h)
    BY <2>1, <1>1, <1>7
  <2>3. Awaits(c, sent[c][i])
    BY <2>1, <2>2, <1>4 DEF Overtaken
  <2> QED
    BY <2>3, <1>1, <1>7
<1>17. Repeated(c)'
  <2> SUFFICES ASSUME stage[c] # "closed", NEW i \in DOMAIN sent[c], NEW j \in DOMAIN sent[c],
                      i < j, log'[sent[c][i]] = log'[sent[c][j]], sent[c][j] < sent[c][i]
               PROVE  \/ Awaits(c, sent[c][i])'
                      \/ \E k \in DOMAIN sent[c] : k > j /\ sent[c][k] = sent[c][i]
    BY <1>1 DEF Repeated
  <2>1. \/ Awaits(c, sent[c][i])
        \/ \E k \in DOMAIN sent[c] : k > j /\ sent[c][k] = sent[c][i]
    BY <1>4, <1>13 DEF Repeated
  <2> QED
    BY <2>1, <1>1, <1>7
<1>18. Twice(c)'
  <2> SUFFICES ASSUME NEW i \in DOMAIN sent[c], NEW j \in DOMAIN sent[c], i < j, sent[c][i] = sent[c][j]
               PROVE  /\ sent[c][i] > last[c] /\ ~Awaits(c, sent[c][i])'
                      /\ \A k \in DOMAIN sent[c] : k > j => sent[c][k] # sent[c][j]
    BY <1>1 DEF Twice
  <2>1. /\ sent[c][i] > last[c] /\ ~Awaits(c, sent[c][i])
        /\ \A k \in DOMAIN sent[c] : k > j => sent[c][k] # sent[c][j]
    BY <1>4 DEF Twice
  <2>2. sent[c][i] # seq + 1
    BY <1>1, <1>13
  <2> QED
    BY <2>1, <2>2, <1>1, <1>7
<1> QED
  BY <1>8, <1>9, <1>10, <1>11, <1>14, <1>15, <1>16, <1>17, <1>18 DEF Shown

(* A publication keeps the invariant.                                      *)
LEMMA PublishKeeps == ASSUME IInv, NEW p \in Publishers, Publish(p) PROVE IInv'
BY PublishKeepsTyped, PublishKeepsHistory, PublishKeepsShown DEF IInv

-----------------------------------------------------------------------------
(* A subscriber is called: its queue grows by what it was to be called     *)
(* with.                                                                   *)
LEMMA Delivered ==
  ASSUME IInv, NEW p \in Publishers, NEW c \in to[p],
         buffer' = [buffer EXCEPT ![c] = Append(@, posting[p])],
         to' = [to EXCEPT ![p] = @ \ {c}],
         posting' = [posting EXCEPT ![p] = IF to[p] = {c} THEN 0 ELSE @],
         UNCHANGED <<log, history, subs, stage, todo, last, sent>>
  PROVE  /\ c \in Clients /\ seq' = seq /\ posting[p] \in 1..seq /\ log[posting[p]] = p
         /\ Queue(c) \in Seq(Nat) /\ Queue(c)' = Append(Queue(c), posting[p])
         /\ \A q \in Publishers : q # p => to'[q] = to[q] /\ posting'[q] = posting[q]
         /\ to'[p] = to[p] \ {c} /\ (to'[p] # {} => posting'[p] = posting[p])
         /\ to'[p] = {} => posting'[p] = 0
         /\ \A d \in Clients : d # c => buffer'[d] = buffer[d]
         /\ \A e : Awaits(c, e)' <=> Awaits(c, e)
<1>1. /\ posting \in [Publishers -> Nat] /\ to \in [Publishers -> SUBSET Clients]
      /\ buffer \in [Clients -> Seq(Nat)]
  BY DEF IInv, Typed
<1>2. c \in Clients /\ seq' = seq /\ posting[p] \in 1..seq /\ log[posting[p]] = p
  BY <1>1 DEF IInv, Posting, seq
<1>3. /\ \A q \in Publishers : q # p => to'[q] = to[q] /\ posting'[q] = posting[q]
      /\ to'[p] = to[p] \ {c} /\ (to'[p] # {} => posting'[p] = posting[p])
      /\ to'[p] = {} => posting'[p] = 0
      /\ \A d \in Clients : d # c => buffer'[d] = buffer[d]
  BY <1>1, <1>2
<1>4. Queue(c) \in Seq(Nat) /\ todo[c] \in Seq(Nat) /\ buffer[c] \in Seq(Nat) /\ posting[p] \in Nat
  BY <1>1, <1>2, OneClient DEF IInv
<1>5. Queue(c)' = Append(Queue(c), posting[p])
  <2> DEFINE a == IF stage[c] = "live" THEN todo[c] ELSE <<>>
             b == buffer[c]
             e == posting[p]
  <2>1. a \in Seq(Nat) /\ b \in Seq(Nat) /\ e \in Nat
    BY <1>4
  <2> HIDE DEF a, b, e
  <2>2. a \o Append(b, e) = Append(a \o b, e)
    BY <2>1
  <2>3. buffer'[c] = Append(b, e)
    BY <1>1, <1>2 DEF b, e
  <2>4. Queue(c)' = a \o Append(b, e) /\ Queue(c) = a \o b
    BY <2>3 DEF Queue, a, b
  <2> QED
    BY <2>2, <2>4 DEF e
<1>6. ASSUME NEW x PROVE Awaits(c, x)' <=> Awaits(c, x)
  <2>1. (\E i \in DOMAIN Queue(c)' : Queue(c)'[i] = x)
          <=> (\E i \in DOMAIN Queue(c) : Queue(c)[i] = x) \/ posting[p] = x
    <3>1. /\ DOMAIN Queue(c)' = 1..(Len(Queue(c)) + 1) /\ DOMAIN Queue(c) = 1..Len(Queue(c))
          /\ \A i \in 1..Len(Queue(c)) : Queue(c)'[i] = Queue(c)[i]
          /\ Queue(c)'[Len(Queue(c)) + 1] = posting[p] /\ Len(Queue(c)) \in Nat
      BY <1>4, <1>5
    <3> HIDE DEF Queue
    <3> QED
      BY <3>1
  <2>2. (\E q \in Publishers : c \in to[q] /\ posting[q] = x)
          <=> (\E q \in Publishers : c \in to'[q] /\ posting'[q] = x) \/ posting[p] = x
    BY <1>3
  <2> QED
    BY <2>1, <2>2, Zenon DEF Awaits
<1> QED
  BY <1>2, <1>3, <1>4, <1>5, <1>6

(* A delivery appends to the queue what was awaited already.               *)
LEMMA DeliverKeepsShown ==
  ASSUME IInv, NEW p \in Publishers, NEW c \in to[p],
         buffer' = [buffer EXCEPT ![c] = Append(@, posting[p])],
         to' = [to EXCEPT ![p] = @ \ {c}],
         posting' = [posting EXCEPT ![p] = IF to[p] = {c} THEN 0 ELSE @],
         UNCHANGED <<log, history, subs, stage, todo, last, sent>>
  PROVE  Shown(c)'
<1>1. /\ c \in Clients /\ seq' = seq /\ posting[p] \in 1..seq /\ log[posting[p]] = p
      /\ Queue(c) \in Seq(Nat) /\ Queue(c)' = Append(Queue(c), posting[p])
      /\ to'[p] = to[p] \ {c} /\ \A e : Awaits(c, e)' <=> Awaits(c, e)
  BY Delivered
<1>2. \A q \in Publishers : q # p => to'[q] = to[q] /\ posting'[q] = posting[q]
  BY Delivered
<1>3. /\ Placed(c) /\ Numbered(c) /\ FirstPass(c) /\ Late(c) /\ Ordered(c)
      /\ Upward(c) /\ Overtaken(c) /\ Repeated(c) /\ Twice(c)
  BY <1>1 DEF IInv, Shown
<1> DEFINE Q == Queue(c)
           n == Len(Queue(c)) + 1
<1>4. /\ DOMAIN Queue(c)' = 1..n /\ DOMAIN Q = 1..(n - 1) /\ n \in Nat /\ n > 0
      /\ \A i \in 1..(n - 1) : Queue(c)'[i] = Q[i]
      /\ Queue(c)'[n] = posting[p]
  BY <1>1
<1> HIDE DEF Q, n
<1>5. Placed(c)'
  <2>1. stage[c] \notin {"away", "burst"}
    BY <1>3 DEF Placed
  <2> QED
    BY <2>1, <1>3 DEF Placed
<1>6. Numbered(c)'
  <2>1. \A i \in 1..(n - 1) : Q[i] \in 1..seq
    BY <1>3, <1>4 DEF Numbered, Q
  <2>2. \A i \in 1..n : Queue(c)'[i] \in 1..seq
    BY <2>1, <1>1, <1>4
  <2> QED
    BY <2>2, <1>1, <1>3, <1>4 DEF Numbered
<1>7. FirstPass(c)'
  BY <1>3 DEF FirstPass
<1>8. Late(c)'
  <2>1. \A i \in 1..(n - 1) : Q[i] > last[c]
    BY <1>3, <1>4 DEF Late, Q
  <2>2. posting[p] > last[c]
    BY <1>3 DEF Late
  <2>3. \A i \in 1..n : Queue(c)'[i] > last[c]
    BY <2>1, <2>2, <1>4
  <2>4. \A q \in Publishers : c \in to'[q] => posting'[q] > last[c]
    BY <1>1, <1>2, <1>3 DEF Late
  <2> QED
    BY <2>3, <2>4, <1>4 DEF Late
<1>9. Ordered(c)'
  <2>1. \A i, j \in 1..(n - 1) : (i < j /\ log[Q[i]] = log[Q[j]]) => Q[i] < Q[j]
    BY <1>3, <1>4 DEF Ordered, Q
  <2>2. \A i \in 1..(n - 1), q \in Publishers : (c \in to[q] /\ log[Q[i]] = q) => Q[i] < posting[q]
    BY <1>3, <1>4 DEF Ordered, Q
  <2>3. ASSUME NEW i \in 1..n, NEW j \in 1..n, i < j, log[Queue(c)'[i]] = log[Queue(c)'[j]]
        PROVE  Queue(c)'[i] < Queue(c)'[j]
    <3>1. i \in 1..(n - 1) /\ Queue(c)'[i] = Q[i]
      BY <2>3, <1>4
    <3>2. CASE j = n
      BY <3>1, <3>2, <2>2, <2>3, <1>1, <1>4
    <3>3. CASE j # n
      <4>1. j \in 1..(n - 1) /\ Queue(c)'[j] = Q[j]
        BY <3>3, <1>4
      <4> QED
        BY <4>1, <3>1, <2>1, <2>3
    <3> QED
      BY <3>2, <3>3
  <2>4. ASSUME NEW i \in 1..n, NEW q \in Publishers, c \in to'[q], log[Queue(c)'[i]] = q
        PROVE  Queue(c)'[i] < posting'[q]
    <3>1. q # p
      BY <2>4, <1>1
    <3>2. i # n
      BY <3>1, <2>4, <1>1, <1>4
    <3>3. i \in 1..(n - 1) /\ Queue(c)'[i] = Q[i]
      BY <3>2, <1>4
    <3> QED
      BY <3>1, <3>3, <2>2, <2>4, <1>2
  <2> QED
    BY <2>3, <2>4, <1>4 DEF Ordered
<1>10. Upward(c)' /\ Overtaken(c)'
  BY <1>1, <1>3 DEF Upward, Overtaken
<1>11. Repeated(c)' /\ Twice(c)'
  BY <1>1, <1>3 DEF Repeated, Twice
<1> QED
  BY <1>5, <1>6, <1>7, <1>8, <1>9, <1>10, <1>11 DEF Shown

(* A delivery keeps the invariant.                                         *)
LEMMA DeliverKeeps == ASSUME IInv, NEW p \in Publishers, Deliver(p) PROVE IInv'
<1>1. PICK c \in to[p] :
        /\ buffer' = [buffer EXCEPT ![c] = Append(@, posting[p])]
        /\ to' = [to EXCEPT ![p] = @ \ {c}]
        /\ posting' = [posting EXCEPT ![p] = IF to[p] = {c} THEN 0 ELSE @]
  BY DEF Deliver
<1>2. UNCHANGED <<log, history, subs, stage, todo, last, sent>>
  BY DEF Deliver
<1>3. /\ c \in Clients /\ seq' = seq /\ posting[p] \in 1..seq
      /\ to'[p] = to[p] \ {c} /\ (to'[p] # {} => posting'[p] = posting[p])
      /\ to'[p] = {} => posting'[p] = 0
  BY <1>1, <1>2, Delivered
<1>4. \A q \in Publishers : q # p => to'[q] = to[q] /\ posting'[q] = posting[q]
  BY <1>1, <1>2, Delivered
<1>5. \A d \in Clients : d # c => buffer'[d] = buffer[d]
  BY <1>1, <1>2, Delivered
<1>6. Typed'
  <2>1. posting[p] \in Nat /\ buffer[c] \in Seq(Nat)
    BY <1>3 DEF IInv, Typed
  <2>2. buffer' \in [Clients -> Seq(Nat)]
    BY <2>1, <1>1 DEF IInv, Typed
  <2>3. to' \in [Publishers -> SUBSET Clients] /\ posting' \in [Publishers -> Nat]
    BY <1>1 DEF IInv, Typed
  <2> QED
    BY <2>2, <2>3, <1>2 DEF IInv, Typed
<1>7. History'
  BY <1>2, <1>3 DEF IInv, History
<1>8. Posting'
  <2> SUFFICES ASSUME NEW q \in Publishers
               PROVE  /\ to'[q] = {} => posting'[q] = 0
                      /\ to'[q] # {} => posting'[q] \in 1..seq /\ log[posting'[q]] = q
                      /\ to'[q] # {} => \A e \in 1..seq : log[e] = q => e <= posting'[q]
    BY <1>2, <1>3 DEF Posting
  <2>1. /\ to[q] = {} => posting[q] = 0
        /\ to[q] # {} => posting[q] \in 1..seq /\ log[posting[q]] = q
        /\ to[q] # {} => \A e \in 1..seq : log[e] = q => e <= posting[q]
    BY DEF IInv, Posting
  <2>2. CASE q = p
    BY <2>1, <2>2, <1>3
  <2>3. CASE q # p
    BY <2>1, <2>3, <1>4
  <2> QED
    BY <2>2, <2>3
<1>9. ASSUME NEW d \in Clients PROVE Shown(d)'
  <2>1. CASE d = c
    BY <2>1, <1>1, <1>2, DeliverKeepsShown
  <2>2. CASE d # c
    <3>1. \A q \in Publishers : (d \in to'[q] <=> d \in to[q]) /\ (d \in to[q] => posting'[q] = posting[q])
      BY <2>2, <1>3, <1>4
    <3>2. buffer'[d] = buffer[d]
      BY <2>2, <1>5
    <3> QED
      BY <3>1, <3>2, <1>2, Untouched DEF IInv
  <2> QED
    BY <2>1, <2>2
<1> QED
  BY <1>6, <1>7, <1>8, <1>9 DEF IInv

-----------------------------------------------------------------------------
(* A step of one connection leaves the others and the bus alone.           *)
LEMMA OnlyHere ==
  ASSUME IInv, NEW c \in Clients, UNCHANGED <<log, history, posting, to>>, Typed', Shown(c)',
         \A d \in Clients : d # c =>
           /\ stage'[d] = stage[d] /\ todo'[d] = todo[d] /\ buffer'[d] = buffer[d]
           /\ sent'[d] = sent[d] /\ last'[d] = last[d] /\ (d \in subs' <=> d \in subs)
  PROVE  IInv'
<1>1. History' /\ Posting'
  BY DEF IInv, History, Posting, seq
<1>2. ASSUME NEW d \in Clients PROVE Shown(d)'
  <2>1. CASE d = c
    BY <2>1
  <2>2. CASE d # c
    <3>1. \A q \in Publishers : (d \in to'[q] <=> d \in to[q]) /\ (d \in to[q] => posting'[q] = posting[q])
      OBVIOUS
    <3> QED
      BY <2>2, <3>1, Untouched DEF IInv
  <2> QED
    BY <2>1, <2>2
<1> QED
  BY <1>1, <1>2 DEF IInv

(* One whose queue and frames stay awaits what it did.                     *)
LEMMA SameQueue ==
  ASSUME Typed, NEW c \in Clients, Shown(c), UNCHANGED <<log, posting, to>>,
         sent'[c] = sent[c], last'[c] = last[c], Queue(c)' = Queue(c)
  PROVE  /\ seq' = seq /\ \A e : Awaits(c, e)' <=> Awaits(c, e)
         /\ Late(c)' /\ Ordered(c)' /\ Twice(c)'
<1>1. seq' = seq
  BY DEF seq
<1>2. \A e : Awaits(c, e)' <=> Awaits(c, e)
  BY Zenon DEF Awaits
<1>3. Late(c)' /\ Ordered(c)'
  BY DEF Shown, Late, Ordered
<1>4. Twice(c)'
  BY <1>2 DEF Shown, Twice
<1> QED
  BY <1>1, <1>2, <1>3, <1>4

(* The first replay is the whole history, which is in order.               *)
LEMMA ConnectKeeps == ASSUME IInv, NEW c \in Clients, Connect(c) PROVE IInv'
<1>1. /\ stage[c] = "away" /\ stage' = [stage EXCEPT ![c] = "burst"]
      /\ todo' = [todo EXCEPT ![c] = history]
      /\ last' = [last EXCEPT ![c] = IF history = <<>> THEN 0 ELSE seq]
      /\ UNCHANGED <<log, history, subs, posting, to, buffer, sent>>
  BY DEF Connect, At, bus
<1>2. history \in Seq(Nat) /\ seq \in Nat /\ seq' = seq
  BY <1>1 DEF IInv, History, Typed, seq
<1>3. Typed'
  BY <1>1, <1>2 DEF IInv, Typed
<1>4. /\ stage'[c] = "burst" /\ todo'[c] = history /\ sent'[c] = <<>> /\ buffer'[c] = <<>>
      /\ last'[c] = IF history = <<>> THEN 0 ELSE seq
      /\ c \notin subs' /\ \A q \in Publishers : c \notin to'[q]
  BY <1>1 DEF IInv, Typed, Shown, Placed
<1>5. Queue(c)' = <<>>
  BY <1>4 DEF Queue
<1>6. /\ DOMAIN history = 1..Len(history) /\ Len(history) \in Nat /\ Len(history) <= seq
      /\ \A i \in 1..Len(history) : history[i] = seq - Len(history) + i
  BY <1>2 DEF IInv, History
<1>7. \A i \in 1..Len(history) : history[i] \in 1..seq /\ history[i] <= last'[c]
  BY <1>2, <1>4, <1>6
<1>8. Placed(c)' /\ Numbered(c)'
  <2>1. last'[c] <= seq
    BY <1>2, <1>4
  <2> QED
    BY <2>1, <1>2, <1>4, <1>5, <1>6, <1>7 DEF Placed, Numbered
<1>9. FirstPass(c)'
  <2>1. \A i, j \in 1..Len(history) : i < j => history[i] < history[j]
    BY <1>2, <1>6
  <2> QED
    BY <2>1, <1>4, <1>6, <1>7 DEF FirstPass
<1>10. Late(c)' /\ Ordered(c)' /\ Upward(c)' /\ Overtaken(c)' /\ Repeated(c)' /\ Twice(c)'
  BY <1>4, <1>5 DEF Late, Ordered, Upward, Overtaken, Repeated, Twice
<1>11. \A d \in Clients : d # c =>
         /\ stage'[d] = stage[d] /\ todo'[d] = todo[d] /\ buffer'[d] = buffer[d]
         /\ sent'[d] = sent[d] /\ last'[d] = last[d] /\ (d \in subs' <=> d \in subs)
  BY <1>1 DEF IInv, Typed
<1> QED
  BY <1>1, <1>3, <1>8, <1>9, <1>10, <1>11, OnlyHere DEF Shown

(* Who has just subscribed awaits nothing yet.                             *)
LEMMA SubscribeKeeps == ASSUME IInv, NEW c \in Clients, Subscribe(c) PROVE IInv'
<1>1. /\ stage[c] = "burst" /\ stage' = [stage EXCEPT ![c] = "subscribed"] /\ todo[c] = <<>>
      /\ subs' = subs \cup {c} /\ UNCHANGED <<log, history, posting, to, todo, last, buffer, sent>>
  BY DEF Subscribe, At
<1>2. Typed' /\ stage'[c] = "subscribed" /\ c \in subs'
  BY <1>1 DEF IInv, Typed
<1>3. Shown(c) /\ Typed
  BY DEF IInv
<1>4. buffer[c] = <<>> /\ \A q \in Publishers : c \notin to[q]
  BY <1>1, <1>3 DEF Shown, Placed
<1>5. Queue(c) = <<>> /\ Queue(c)' = <<>>
  BY <1>1, <1>2, <1>4 DEF Queue
<1>6. /\ seq' = seq /\ \A e : Awaits(c, e)' <=> Awaits(c, e)
      /\ Late(c)' /\ Ordered(c)' /\ Twice(c)'
  BY <1>1, <1>3, <1>5, SameQueue
<1>7. \A e : ~Awaits(c, e)
  BY <1>4, <1>5 DEF Awaits
<1>8. Placed(c)' /\ Numbered(c)' /\ FirstPass(c)'
  BY <1>1, <1>2, <1>3, <1>5, <1>6 DEF Shown, Placed, Numbered, FirstPass
<1>9. Upward(c)' /\ Overtaken(c)'
  BY <1>6, <1>7 DEF Upward, Overtaken
<1>10. Repeated(c)'
  BY <1>1, <1>3, <1>6, <1>7 DEF Shown, Repeated
<1>11. \A d \in Clients : d # c =>
         /\ stage'[d] = stage[d] /\ todo'[d] = todo[d] /\ buffer'[d] = buffer[d]
         /\ sent'[d] = sent[d] /\ last'[d] = last[d] /\ (d \in subs' <=> d \in subs)
  BY <1>1 DEF IInv, Typed
<1> QED
  BY <1>1, <1>2, <1>6, <1>8, <1>9, <1>10, <1>11, OnlyHere DEF Shown

(* What of the history comes after its first k events.                     *)
LEMMA HistoryEnd ==
  ASSUME IInv, NEW k \in 0..Len(history)
  PROVE  LET later == SubSeq(history, k + 1, Len(history))
             n == Len(history) - k
         IN  /\ k \in Nat /\ n \in Nat /\ Len(history) \in Nat /\ k <= Len(history)
             /\ later \in Seq(Nat) /\ Len(later) = n /\ DOMAIN later = 1..n
             /\ \A i \in 1..n : later[i] = history[k + i]
<1> DEFINE later == SubSeq(history, k + 1, Len(history))
           n == Len(history) - k
           a == k + 1
           b == Len(history)
<1>1. history \in Seq(Nat) /\ b \in Nat
  BY DEF IInv, History
<1>2. n \in Nat /\ k \in Nat /\ k <= b
  <2> HIDE DEF later
  <2> QED
    BY <1>1
<1>3. \A i \in a..b : history[i] \in Nat
  <2> TAKE i \in a..b
  <2>1. i \in 1..Len(history)
    BY <1>1, <1>2
  <2> QED
    BY <2>1, <1>1, ElementOfSeq
<1>4. a \in Int /\ later = SubSeq(history, a, b)
  BY <1>2
<1> HIDE DEF a, b, later, n
<1>5. /\ later \in Seq(Nat) /\ Len(later) = IF a <= b THEN b - a + 1 ELSE 0
      /\ \A i \in 1..(b - a + 1) : later[i] = history[a + i - 1]
  BY <1>1, <1>3, <1>4, SubSeqProperties
<1>6. /\ n = b - a + 1 /\ Len(later) = n
      /\ \A i \in 1..n : a + i - 1 = k + i
  BY <1>1, <1>2, <1>5 DEF a, b, n
<1>7. \A i \in 1..n : later[i] = history[k + i]
  BY <1>5, <1>6
<1>8. DOMAIN later = 1..n
  BY <1>5, <1>6
<1> QED
  BY <1>1, <1>2, <1>5, <1>6, <1>7, <1>8 DEF b, later, n

(* The second replay goes on after the first.                              *)
LEMMA CatchUpKeeps == ASSUME IInv, NEW c \in Clients, CatchUp(c) PROVE IInv'
<1>1. /\ stage[c] = "subscribed" /\ stage' = [stage EXCEPT ![c] = "catchup"]
      /\ UNCHANGED <<log, history, subs, posting, to, last, buffer, sent>>
  BY DEF CatchUp, At, bus
<1>2. PICK k \in 0..Len(history) :
        /\ \A i \in DOMAIN history : history[i] > last[c] <=> i > k
        /\ todo' = [todo EXCEPT ![c] = SubSeq(history, k + 1, Len(history))]
  BY DEF CatchUp
<1>3. history \in Seq(Nat) /\ seq \in Nat /\ seq' = seq /\ last[c] \in Nat
  BY <1>1, OneClient DEF IInv, History, seq
<1>4. /\ DOMAIN history = 1..Len(history) /\ Len(history) \in Nat /\ Len(history) <= seq
      /\ \A i \in 1..Len(history) : history[i] = seq - Len(history) + i
  BY <1>3 DEF IInv, History
<1> DEFINE later == SubSeq(history, k + 1, Len(history))
           n == Len(history) - k
<1>6. n \in Nat /\ k \in Nat /\ Len(history) \in Nat /\ k <= Len(history)
  BY HistoryEnd
<1>7. /\ later \in Seq(Nat) /\ Len(later) = n /\ DOMAIN later = 1..n
      /\ \A i \in 1..n : later[i] = history[k + i]
  BY HistoryEnd
<1>8. ASSUME NEW i \in 1..n
      PROVE  later[i] = seq - n + i /\ later[i] \in 1..seq /\ later[i] > last[c]
  <2>1. k + i \in 1..Len(history) /\ k + i > k
    BY <1>4
  <2>2. later[i] = history[k + i]
    BY <1>7
  <2>3. history[k + i] = seq - Len(history) + (k + i) /\ history[k + i] > last[c]
    BY <2>1, <1>2, <1>4
  <2> QED
    BY <2>2, <2>3, <1>3, <1>4
<1> HIDE DEF later, n
<1>9. Typed' /\ stage'[c] = "catchup" /\ todo'[c] = later
  BY <1>1, <1>2, <1>7 DEF IInv, Typed, later
<1>10. Shown(c) /\ Typed
  BY DEF IInv
<1>11. Queue(c)' = Queue(c)
  BY <1>1, <1>9 DEF Queue
<1>12. /\ \A e : Awaits(c, e)' <=> Awaits(c, e)
       /\ Late(c)' /\ Ordered(c)' /\ Twice(c)'
  BY <1>1, <1>10, <1>11, SameQueue
<1>13. Placed(c)'
  BY <1>1, <1>9, <1>10 DEF Shown, Placed
<1>14. Numbered(c)'
  <2>1. /\ last[c] <= seq /\ \A i \in DOMAIN sent[c] : sent[c][i] \in 1..seq
        /\ \A i \in DOMAIN Queue(c) : Queue(c)[i] \in 1..seq
    BY <1>10 DEF Shown, Numbered
  <2>2. \A i \in DOMAIN todo'[c] : todo'[c][i] \in 1..seq
    BY <1>7, <1>8, <1>9
  <2> QED
    BY <2>1, <2>2, <1>1, <1>3, <1>11 DEF Numbered
<1>15. FirstPass(c)'
  <2>1. sent[c] \in Seq(Nat)
    BY OneClient DEF IInv
  <2>2. /\ \A i, j \in DOMAIN sent[c] : i < j => sent[c][i] < sent[c][j]
        /\ \A i \in DOMAIN sent[c] : sent[c][i] <= last[c] /\ sent[c][i] \in Nat
    BY <2>1, <1>1, <1>10 DEF Shown, FirstPass
  <2>3. ASSUME NEW i \in 1..n, NEW j \in 1..n, i < j PROVE later[i] < later[j]
    <3>1. later[i] = seq - n + i /\ later[j] = seq - n + j
      BY <1>8
    <3> QED
      BY <3>1, <2>3, <1>3, <1>6
  <2>4. \A i \in DOMAIN sent[c], j \in 1..n : sent[c][i] < later[j]
    BY <2>2, <1>3, <1>8
  <2> QED
    BY <2>2, <2>3, <2>4, <1>1, <1>7, <1>9 DEF FirstPass
<1>16. Upward(c)' /\ Overtaken(c)'
  BY <1>1, <1>3, <1>10, <1>12 DEF Shown, Upward, Overtaken
<1>17. Repeated(c)'
  BY <1>1, <1>10, <1>12 DEF Shown, Repeated
<1>18. \A d \in Clients : d # c =>
         /\ stage'[d] = stage[d] /\ todo'[d] = todo[d] /\ buffer'[d] = buffer[d]
         /\ sent'[d] = sent[d] /\ last'[d] = last[d] /\ (d \in subs' <=> d \in subs)
  BY <1>1, <1>2 DEF IInv, Typed
<1> QED
  BY <1>1, <1>9, <1>12, <1>13, <1>14, <1>15, <1>16, <1>17, <1>18, OnlyHere DEF Shown

(* Both replays are shown, and the queue is not yet touched.               *)
LEMMA FollowKeeps == ASSUME IInv, NEW c \in Clients, Follow(c) PROVE IInv'
<1>1. /\ stage[c] = "catchup" /\ stage' = [stage EXCEPT ![c] = "live"] /\ todo[c] = <<>>
      /\ UNCHANGED <<log, history, subs, posting, to, todo, last, buffer, sent>>
  BY DEF Follow, At, bus
<1>2. Typed' /\ stage'[c] = "live"
  BY <1>1 DEF IInv, Typed
<1>3. Shown(c) /\ Typed
  BY DEF IInv
<1>4. Queue(c)' = Queue(c)
  BY <1>1, <1>2 DEF Queue
<1>5. /\ seq' = seq /\ \A e : Awaits(c, e)' <=> Awaits(c, e)
      /\ Late(c)' /\ Ordered(c)' /\ Twice(c)'
  BY <1>1, <1>3, <1>4, SameQueue
<1>6. Placed(c)' /\ Numbered(c)' /\ FirstPass(c)'
  BY <1>1, <1>2, <1>3, <1>4, <1>5 DEF Shown, Placed, Numbered, FirstPass
<1>7. Upward(c)' /\ Overtaken(c)'
  BY <1>1, <1>2, <1>3, <1>5 DEF Shown, Upward, Overtaken
<1>8. Repeated(c)'
  BY <1>1, <1>3, <1>5 DEF Shown, Repeated
<1>9. \A d \in Clients : d # c =>
        /\ stage'[d] = stage[d] /\ todo'[d] = todo[d] /\ buffer'[d] = buffer[d]
        /\ sent'[d] = sent[d] /\ last'[d] = last[d] /\ (d \in subs' <=> d \in subs)
  BY <1>1 DEF IInv, Typed
<1> QED
  BY <1>1, <1>2, <1>5, <1>6, <1>7, <1>8, <1>9, OnlyHere DEF Shown

(* What is in the buffer stays in the queue.                               *)
LEMMA PopAllKeeps == ASSUME IInv, NEW c \in Clients, PopAll(c) PROVE IInv'
<1>1. /\ stage[c] = "live" /\ todo[c] = <<>>
      /\ todo' = [todo EXCEPT ![c] = buffer[c]] /\ buffer' = [buffer EXCEPT ![c] = <<>>]
      /\ UNCHANGED <<log, history, subs, posting, to, stage, last, sent>>
  BY DEF PopAll, bus
<1>2. buffer[c] \in Seq(Nat) /\ Shown(c) /\ Typed
  BY OneClient DEF IInv
<1>3. Typed' /\ todo'[c] = buffer[c] /\ buffer'[c] = <<>>
  BY <1>1, <1>2 DEF IInv, Typed
<1>4. Queue(c) = buffer[c] /\ Queue(c)' = buffer[c]
  <2>1. Queue(c) = <<>> \o buffer[c] /\ Queue(c)' = buffer[c] \o <<>>
    BY <1>1, <1>3 DEF Queue
  <2> QED
    BY <2>1, <1>2, ConcatEmptySeq
<1>5. /\ seq' = seq /\ \A e : Awaits(c, e)' <=> Awaits(c, e)
      /\ Late(c)' /\ Ordered(c)' /\ Twice(c)'
  BY <1>1, <1>2, <1>4, SameQueue
<1>6. Placed(c)' /\ Numbered(c)' /\ FirstPass(c)'
  BY <1>1, <1>2, <1>3, <1>4, <1>5 DEF Shown, Placed, Numbered, FirstPass
<1>7. Upward(c)' /\ Overtaken(c)'
  BY <1>1, <1>2, <1>5 DEF Shown, Upward, Overtaken
<1>8. Repeated(c)'
  BY <1>1, <1>2, <1>5 DEF Shown, Repeated
<1>9. \A d \in Clients : d # c =>
        /\ stage'[d] = stage[d] /\ todo'[d] = todo[d] /\ buffer'[d] = buffer[d]
        /\ sent'[d] = sent[d] /\ last'[d] = last[d] /\ (d \in subs' <=> d \in subs)
  BY <1>1 DEF IInv, Typed
<1> QED
  BY <1>1, <1>3, <1>5, <1>6, <1>7, <1>8, <1>9, OnlyHere DEF Shown

(* A connection that is gone is shown nothing more of its queue.           *)
LEMMA DisconnectKeeps == ASSUME IInv, NEW c \in Clients, Disconnect(c) PROVE IInv'
<1>1. /\ stage[c] \in {"burst", "catchup", "live"} /\ stage' = [stage EXCEPT ![c] = "closed"]
      /\ todo' = [todo EXCEPT ![c] = <<>>]
      /\ UNCHANGED <<log, history, posting, to, last, buffer, sent>>
      /\ subs' \in {subs, subs \ {c}}
  BY DEF Disconnect
<1>2. Shown(c) /\ Typed
  BY DEF IInv
<1>3. Typed' /\ stage'[c] = "closed" /\ todo'[c] = <<>>
  BY <1>1 DEF IInv, Typed
<1> DEFINE a == IF stage[c] = "live" THEN todo[c] ELSE <<>>
           b == buffer[c]
<1>4. a \in Seq(Nat) /\ b \in Seq(Nat) /\ Queue(c) = a \o b /\ Queue(c)' = <<>> \o b
  <2>1. todo[c] \in Seq(Nat) /\ buffer[c] \in Seq(Nat)
    BY <1>2, OneClient
  <2>2. Queue(c) = a \o b /\ a \in Seq(Nat) /\ b \in Seq(Nat)
    BY <2>1 DEF Queue
  <2>3. Queue(c)' = <<>> \o b
    BY <1>1, <1>3 DEF Queue
  <2> QED
    BY <2>2, <2>3
<1> HIDE DEF a, b
<1>5. /\ Len(a) \in Nat /\ DOMAIN Queue(c)' = 1..Len(b) /\ Len(b) \in Nat
      /\ DOMAIN Queue(c) = 1..(Len(a) + Len(b))
      /\ \A i \in 1..Len(b) : Queue(c)'[i] = Queue(c)[Len(a) + i]
  BY <1>4
<1>6. \A i \in DOMAIN Queue(c)' : Len(a) + i \in DOMAIN Queue(c) /\ Queue(c)'[i] = Queue(c)[Len(a) + i]
  BY <1>5
<1>7. ASSUME NEW e, Awaits(c, e)' PROVE Awaits(c, e)
  <2>1. CASE \E i \in DOMAIN Queue(c)' : Queue(c)'[i] = e
    BY <2>1, <1>6 DEF Awaits
  <2>2. CASE \E q \in Publishers : c \in to'[q] /\ posting'[q] = e
    BY <2>2, <1>1 DEF Awaits
  <2> QED
    BY <2>1, <2>2, <1>7, Zenon DEF Awaits
<1>8. seq' = seq
  BY <1>1 DEF seq
<1>9. Placed(c)' /\ FirstPass(c)' /\ Upward(c)' /\ Overtaken(c)' /\ Repeated(c)'
  BY <1>3 DEF Placed, FirstPass, Upward, Overtaken, Repeated
<1>10. Numbered(c)'
  BY <1>1, <1>2, <1>3, <1>6, <1>8 DEF Shown, Numbered
<1>11. Late(c)'
  BY <1>1, <1>2, <1>6 DEF Shown, Late
<1>12. Ordered(c)'
  <2>1. ASSUME NEW i \in DOMAIN Queue(c)', NEW j \in DOMAIN Queue(c)', i < j,
               log[Queue(c)'[i]] = log[Queue(c)'[j]]
        PROVE  Queue(c)'[i] < Queue(c)'[j]
    <3>1. Len(a) + i < Len(a) + j
      BY <2>1, <1>5
    <3> QED
      BY <3>1, <2>1, <1>2, <1>6 DEF Shown, Ordered
  <2>2. ASSUME NEW i \in DOMAIN Queue(c)', NEW q \in Publishers, c \in to[q], log[Queue(c)'[i]] = q
        PROVE  Queue(c)'[i] < posting[q]
    BY <2>2, <1>2, <1>6 DEF Shown, Ordered
  <2> QED
    BY <2>1, <2>2, <1>1 DEF Ordered
<1>13. Twice(c)'
  BY <1>1, <1>2, <1>7 DEF Shown, Twice
<1>14. \A d \in Clients : d # c =>
         /\ stage'[d] = stage[d] /\ todo'[d] = todo[d] /\ buffer'[d] = buffer[d]
         /\ sent'[d] = sent[d] /\ last'[d] = last[d] /\ (d \in subs' <=> d \in subs)
  BY <1>1 DEF IInv, Typed
<1> QED
  BY <1>1, <1>3, <1>9, <1>10, <1>11, <1>12, <1>13, <1>14, OnlyHere DEF Shown

-----------------------------------------------------------------------------
(* A sequence of numbers with one more at its end.                         *)
LEMMA OneMore ==
  ASSUME NEW s \in Seq(Nat), NEW x \in Nat
  PROVE  /\ Append(s, x) \in Seq(Nat) /\ Len(s) \in Nat /\ DOMAIN s = 1..Len(s)
         /\ DOMAIN Append(s, x) = 1..(Len(s) + 1) /\ Append(s, x)[Len(s) + 1] = x
         /\ \A i \in 1..Len(s) : Append(s, x)[i] = s[i] /\ s[i] \in Nat
<1>1. \A i \in 1..Len(s) : s[i] \in Nat
  BY ElementOfSeq
<1> QED
  BY <1>1

(* The same without its first.                                             *)
LEMMA OneLess ==
  ASSUME NEW s \in Seq(Nat), s # <<>>
  PROVE  /\ Head(s) = s[1] /\ Head(s) \in Nat /\ Tail(s) \in Seq(Nat)
         /\ Len(s) \in Nat /\ Len(s) > 0 /\ DOMAIN s = 1..Len(s)
         /\ DOMAIN Tail(s) = 1..(Len(s) - 1)
         /\ \A i \in 1..(Len(s) - 1) : Tail(s)[i] = s[i + 1]
<1>1. Head(s) = s[1] /\ Len(s) \in Nat /\ Len(s) > 0 /\ DOMAIN s = 1..Len(s)
  OBVIOUS
<1>2. /\ Head(s) \in Nat /\ Tail(s) \in Seq(Nat) /\ Len(Tail(s)) = Len(s) - 1
      /\ \A i \in 1..Len(Tail(s)) : Tail(s)[i] = s[i + 1]
  BY HeadTailProperties
<1>3. DOMAIN Tail(s) = 1..Len(Tail(s))
  BY <1>2
<1> QED
  BY <1>1, <1>2, <1>3

(* A frame is shown: the first of those to be shown.                       *)
LEMMA Yielded ==
  ASSUME IInv, NEW c \in Clients, Yield(c)
  PROVE  /\ Typed' /\ UNCHANGED <<log, history, subs, posting, to, stage, last, buffer>> /\ seq' = seq
         /\ Len(sent[c]) \in Nat /\ Len(todo[c]) \in Nat /\ Len(todo[c]) > 0
         /\ DOMAIN sent[c] = 1..Len(sent[c]) /\ DOMAIN sent'[c] = 1..(Len(sent[c]) + 1)
         /\ \A i \in 1..Len(sent[c]) : sent'[c][i] = sent[c][i] /\ sent[c][i] \in Nat
         /\ sent'[c][Len(sent[c]) + 1] = todo[c][1] /\ todo[c][1] \in 1..seq
         /\ DOMAIN todo[c] = 1..Len(todo[c]) /\ DOMAIN todo'[c] = 1..(Len(todo[c]) - 1)
         /\ \A i \in 1..(Len(todo[c]) - 1) : todo'[c][i] = todo[c][i + 1]
         /\ todo'[c] = Tail(todo[c]) /\ stage[c] \in {"burst", "catchup", "live"}
         /\ \A d \in Clients : d # c => sent'[d] = sent[d] /\ todo'[d] = todo[d]
<1>1. /\ todo[c] # <<>> /\ sent' = [sent EXCEPT ![c] = Append(@, Head(todo[c]))]
      /\ todo' = [todo EXCEPT ![c] = Tail(@)]
      /\ UNCHANGED <<log, history, subs, posting, to, stage, last, buffer>>
  BY DEF Yield, bus
<1>2. todo[c] \in Seq(Nat) /\ sent[c] \in Seq(Nat) /\ Shown(c) /\ Typed
  BY OneClient DEF IInv
<1> DEFINE x == todo[c][1]
<1>3. Head(todo[c]) = x /\ x \in Nat /\ Tail(todo[c]) \in Seq(Nat) /\ Len(todo[c]) > 0
  BY <1>1, <1>2, OneLess
<1>4. Typed' /\ sent'[c] = Append(sent[c], x) /\ todo'[c] = Tail(todo[c])
  <2>1. Append(sent[c], x) \in Seq(Nat)
    BY <1>2, <1>3
  <2>2. sent' \in [Clients -> Seq(Nat)] /\ todo' \in [Clients -> Seq(Nat)]
    BY <2>1, <1>1, <1>2, <1>3 DEF Typed
  <2> QED
    BY <2>2, <1>1, <1>2, <1>3 DEF Typed
<1>5. x \in 1..seq /\ stage[c] \in {"burst", "catchup", "live"}
  BY <1>1, <1>2, <1>3 DEF Shown, Numbered, Placed, Typed
<1>6. /\ Len(sent[c]) \in Nat /\ DOMAIN sent[c] = 1..Len(sent[c]) /\ DOMAIN sent'[c] = 1..(Len(sent[c]) + 1)
      /\ \A i \in 1..Len(sent[c]) : sent'[c][i] = sent[c][i] /\ sent[c][i] \in Nat
      /\ sent'[c][Len(sent[c]) + 1] = x
  BY <1>2, <1>3, <1>4, OneMore
<1>7. /\ Len(todo[c]) \in Nat /\ DOMAIN todo[c] = 1..Len(todo[c]) /\ DOMAIN todo'[c] = 1..(Len(todo[c]) - 1)
      /\ \A i \in 1..(Len(todo[c]) - 1) : todo'[c][i] = todo[c][i + 1]
  BY <1>1, <1>2, <1>4, OneLess
<1>8. \A d \in Clients : d # c => sent'[d] = sent[d] /\ todo'[d] = todo[d]
  BY <1>1, <1>2 DEF Typed
<1>9. seq' = seq
  BY <1>1 DEF seq
<1> QED
  BY <1>1, <1>3, <1>4, <1>5, <1>6, <1>7, <1>8, <1>9

(* In the two replays a frame is newer than all that were shown before.    *)
LEMMA YieldFirstKeeps ==
  ASSUME IInv, NEW c \in Clients, Yield(c), stage[c] # "live"
  PROVE  Shown(c)'
<1> DEFINE n == Len(sent[c])
           m == Len(todo[c])
           x == todo[c][1]
<1>1. /\ UNCHANGED <<log, history, subs, posting, to, stage, last, buffer>> /\ seq' = seq
      /\ n \in Nat /\ m \in Nat /\ m > 0 /\ DOMAIN sent[c] = 1..n /\ DOMAIN sent'[c] = 1..(n + 1)
      /\ sent'[c][n + 1] = x /\ x \in 1..seq
      /\ DOMAIN todo[c] = 1..m /\ DOMAIN todo'[c] = 1..(m - 1)
      /\ stage[c] \in {"burst", "catchup"}
  BY Yielded
<1>2. \A i \in 1..n : sent'[c][i] = sent[c][i] /\ sent[c][i] \in Nat
  BY Yielded
<1>3. \A i \in 1..(m - 1) : todo'[c][i] = todo[c][i + 1]
  BY Yielded
<1> HIDE DEF n, m, x
<1>4. Queue(c)' = Queue(c)
  BY <1>1 DEF Queue
<1>5. \A e : Awaits(c, e)' <=> Awaits(c, e)
  BY <1>1, <1>4, Zenon DEF Awaits
<1>6. /\ Placed(c) /\ Numbered(c) /\ FirstPass(c) /\ Late(c) /\ Ordered(c)
      /\ Upward(c) /\ Overtaken(c) /\ Repeated(c) /\ Twice(c)
  BY DEF IInv, Shown
<1>7. seq \in Nat /\ last[c] \in Nat
  BY OneClient DEF IInv
<1>8. /\ \A i, j \in 1..n : i < j => sent[c][i] < sent[c][j]
      /\ \A i, j \in 1..m : i < j => todo[c][i] < todo[c][j]
      /\ \A i \in 1..n, j \in 1..m : sent[c][i] < todo[c][j]
      /\ stage[c] # "catchup" => /\ \A i \in 1..n : sent[c][i] <= last[c]
                                 /\ \A i \in 1..m : todo[c][i] <= last[c]
  BY <1>1, <1>6 DEF FirstPass
<1>9. 1 \in 1..m /\ x = todo[c][1] /\ \A i \in 1..(m - 1) : i + 1 \in 1..m /\ 1 < i + 1
  BY <1>1 DEF x
<1>10. /\ \A i \in 1..n : sent[c][i] < x
       /\ \A i \in 1..(m - 1) : x < todo'[c][i] /\ todo'[c][i] \in 1..seq
  BY <1>1, <1>3, <1>6, <1>8, <1>9 DEF Numbered
<1>11. Placed(c)'
  BY <1>1, <1>6 DEF Placed
<1>12. Numbered(c)'
  <2>1. /\ last[c] <= seq /\ \A i \in 1..n : sent[c][i] \in 1..seq
        /\ \A i \in DOMAIN Queue(c) : Queue(c)[i] \in 1..seq
    BY <1>1, <1>6 DEF Numbered
  <2>2. \A i \in 1..(n + 1) : sent'[c][i] \in 1..seq
    <3> TAKE i \in 1..(n + 1)
    <3>1. CASE i = n + 1
      BY <3>1, <1>1
    <3>2. CASE i \in 1..n
      BY <3>2, <2>1, <1>2
    <3> QED
      BY <3>1, <3>2, <1>1
  <2> QED
    BY <2>1, <2>2, <1>1, <1>4, <1>10 DEF Numbered
<1>13. \A i, j \in 1..(n + 1) : i < j => sent'[c][i] < sent'[c][j]
  <2> SUFFICES ASSUME NEW i \in 1..(n + 1), NEW j \in 1..(n + 1), i < j
               PROVE  sent'[c][i] < sent'[c][j]
    OBVIOUS
  <2>1. i \in 1..n
    BY <1>1
  <2>2. CASE j = n + 1
    BY <2>1, <2>2, <1>1, <1>2, <1>10
  <2>3. CASE j \in 1..n
    BY <2>1, <2>3, <1>2, <1>8
  <2> QED
    BY <2>2, <2>3, <1>1
<1>14. FirstPass(c)'
  <2>1. \A i, j \in 1..(m - 1) : i < j => todo'[c][i] < todo'[c][j]
    <3> SUFFICES ASSUME NEW i \in 1..(m - 1), NEW j \in 1..(m - 1), i < j
                 PROVE  todo'[c][i] < todo'[c][j]
      OBVIOUS
    <3>1. i + 1 < j + 1 /\ i + 1 \in 1..m /\ j + 1 \in 1..m
      BY <1>1
    <3> QED
      BY <3>1, <1>3, <1>8
  <2>2. ASSUME NEW i \in 1..(n + 1), NEW j \in 1..(m - 1) PROVE sent'[c][i] < todo'[c][j]
    <3>1. CASE i = n + 1
      BY <3>1, <1>1, <1>10
    <3>2. CASE i \in 1..n
      BY <3>2, <1>2, <1>3, <1>8, <1>9
    <3> QED
      BY <3>1, <3>2, <1>1
  <2>3. ASSUME stage[c] # "catchup"
        PROVE  /\ \A i \in 1..(n + 1) : sent'[c][i] <= last[c]
               /\ \A i \in 1..(m - 1) : todo'[c][i] <= last[c]
    <3>1. x <= last[c]
      BY <2>3, <1>8, <1>9
    <3>2. ASSUME NEW i \in 1..(n + 1) PROVE sent'[c][i] <= last[c]
      <4>1. CASE i = n + 1
        BY <3>1, <4>1, <1>1
      <4>2. CASE i \in 1..n
        BY <4>2, <2>3, <1>2, <1>8
      <4> QED
        BY <4>1, <4>2, <1>1
    <3>3. \A i \in 1..(m - 1) : todo'[c][i] <= last[c]
      BY <2>3, <1>3, <1>8, <1>9
    <3> QED
      BY <3>2, <3>3
  <2> QED
    BY <2>1, <2>2, <2>3, <1>1, <1>13 DEF FirstPass
<1>15. Late(c)' /\ Ordered(c)'
  BY <1>1, <1>4, <1>6 DEF Late, Ordered
<1>16. Upward(c)'
  BY <1>1, <1>5, <1>6 DEF Upward
<1>17. Overtaken(c)'
  <2> SUFFICES ASSUME stage[c] \in {"subscribed", "catchup", "live"}, NEW i \in 1..(n + 1), NEW h \in 1..seq,
                      Awaits(c, h), log[h] = log[sent'[c][i]], h < sent'[c][i]
               PROVE  Awaits(c, sent'[c][i])
    BY <1>1, <1>5 DEF Overtaken
  <2>1. CASE i = n + 1
    BY <2>1, <1>1, <1>6 DEF Upward
  <2>2. CASE i \in 1..n
    BY <2>2, <1>1, <1>2, <1>6 DEF Overtaken
  <2> QED
    BY <2>1, <2>2, <1>1
<1>18. \A i \in 1..(n + 1) : sent'[c][i] \in Nat
  BY <1>1, <1>2
<1>19. \A i, j \in DOMAIN sent'[c] : i < j => sent'[c][i] # sent'[c][j] /\ ~(sent'[c][j] < sent'[c][i])
  BY <1>1, <1>13, <1>18
<1>20. Repeated(c)'
  BY <1>19 DEF Repeated
<1>21. Twice(c)'
  BY <1>19 DEF Twice
<1> QED
  BY <1>11, <1>12, <1>14, <1>15, <1>16, <1>17, <1>20, <1>21 DEF Shown

(* The first of two sequences together is the first of the first.          *)
LEMMA TailConcat ==
  ASSUME NEW t \in Seq(Nat), NEW b \in Seq(Nat), t # <<>>
  PROVE  /\ t \o b \in Seq(Nat) /\ t \o b # <<>>
         /\ (t \o b)[1] = t[1] /\ Tail(t \o b) = Tail(t) \o b
<1>1. t \o b \in Seq(Nat) /\ t \o b # <<>> /\ (t \o b)[1] = t[1]
  OBVIOUS
<1>2. Tail(t \o b) = Tail(t) \o b
  <2>1. PICK x \in Nat, u \in Seq(Nat) : x = Head(t) /\ u = Tail(t)
    BY HeadTailProperties
  <2>2. t = <<x>> \o u
    BY <2>1
  <2>3. t \o b = <<x>> \o (u \o b)
    BY <2>1, <2>2, ConcatAssociative
  <2>4. u \o b \in Seq(Nat)
    OBVIOUS
  <2>5. Tail(<<x>> \o (u \o b)) = u \o b
    <3> DEFINE v == u \o b
    <3>1. v \in Seq(Nat)
      BY <2>4
    <3> HIDE DEF v
    <3>2. Tail(<<x>> \o v) = v
      BY <3>1
    <3> QED
      BY <3>2 DEF v
  <2> QED
    BY <2>1, <2>3, <2>5
<1> QED
  BY <1>1, <1>2

(* While c follows, the frame is the first of its queue.                   *)
LEMMA QueueShrinks ==
  ASSUME IInv, NEW c \in Clients, Yield(c), stage[c] = "live"
  PROVE  /\ Len(Queue(c)) \in Nat /\ Len(Queue(c)) > 0 /\ Queue(c)[1] = todo[c][1]
         /\ DOMAIN Queue(c) = 1..Len(Queue(c)) /\ DOMAIN Queue(c)' = 1..(Len(Queue(c)) - 1)
         /\ \A i \in 1..(Len(Queue(c)) - 1) : Queue(c)'[i] = Queue(c)[i + 1]
<1>1. todo[c] \in Seq(Nat) /\ buffer[c] \in Seq(Nat) /\ todo[c] # <<>>
  BY OneClient DEF IInv, Yield
<1>2. Queue(c) = todo[c] \o buffer[c] /\ Queue(c)' = Tail(todo[c]) \o buffer[c]
  BY Yielded DEF Queue
<1>3. /\ Queue(c) \in Seq(Nat) /\ Queue(c) # <<>>
      /\ Queue(c)[1] = todo[c][1] /\ Queue(c)' = Tail(Queue(c))
  <2>1. PICK t \in Seq(Nat), b \in Seq(Nat) : t = todo[c] /\ b = buffer[c]
    BY <1>1
  <2>2. /\ t \o b \in Seq(Nat) /\ t \o b # <<>>
        /\ (t \o b)[1] = t[1] /\ Tail(t \o b) = Tail(t) \o b
    BY <2>1, <1>1, TailConcat
  <2> QED
    BY <2>1, <2>2, <1>2
<1> QED
  BY <1>3, OneLess

(* So it was awaited, and of its publisher only newer ones still are.      *)
LEMMA YieldLiveAwaits ==
  ASSUME IInv, NEW c \in Clients, Yield(c), stage[c] = "live", NEW x, x = todo[c][1]
  PROVE  /\ Awaits(c, x) /\ x > last[c]
         /\ \A e : Awaits(c, e)' <=> Awaits(c, e) /\ e # x
         /\ \A h : (Awaits(c, h) /\ h # x /\ log[h] = log[x]) => x < h
<1> DEFINE n == Len(Queue(c))
           Q == Queue(c)
<1>1. /\ n \in Nat /\ n > 0 /\ Q[1] = x /\ DOMAIN Q = 1..n /\ DOMAIN Queue(c)' = 1..(n - 1)
      /\ \A i \in 1..(n - 1) : Queue(c)'[i] = Q[i + 1]
  BY QueueShrinks
<1>2. UNCHANGED <<log, to, posting, last>> /\ x \in Nat
  BY Yielded
<1>3. Late(c) /\ Ordered(c)
  BY DEF IInv, Shown
<1> HIDE DEF n, Q
<1>4. /\ \A i, j \in 1..n : (i < j /\ log[Q[i]] = log[Q[j]]) => Q[i] < Q[j]
      /\ \A i \in 1..n, p \in Publishers : (c \in to[p] /\ log[Q[i]] = p) => Q[i] < posting[p]
      /\ \A i \in 1..n : Q[i] > last[c]
  BY <1>1, <1>3 DEF Ordered, Late, Q
<1>5. 1 \in 1..n /\ \A i \in 1..(n - 1) : i + 1 \in 1..n /\ 1 < i + 1
  BY <1>1
<1>6. \A p \in Publishers : c \in to[p] => log[posting[p]] = p
  BY DEF IInv, Posting
<1>7. ASSUME NEW h, Awaits(c, h)', log[h] = log[x] PROVE x < h
  <2>1. CASE \E i \in DOMAIN Queue(c)' : Queue(c)'[i] = h
    <3>1. PICK i \in 1..(n - 1) : Q[i + 1] = h
      BY <2>1, <1>1
    <3> QED
      BY <3>1, <1>1, <1>4, <1>5, <1>7
  <2>2. CASE \E p \in Publishers : c \in to'[p] /\ posting'[p] = h
    <3>1. PICK p \in Publishers : c \in to[p] /\ posting[p] = h
      BY <2>2, <1>2
    <3> QED
      BY <3>1, <1>1, <1>4, <1>5, <1>6, <1>7
  <2> QED
    BY <2>1, <2>2, <1>7, Zenon DEF Awaits
<1>8. x > last[c]
  BY <1>1, <1>4, <1>5
<1>9. ~Awaits(c, x)'
  <2> SUFFICES ASSUME Awaits(c, x)' PROVE x < x
    BY <1>2
  <2> QED
    BY <1>7
<1>10. ASSUME NEW e PROVE Awaits(c, e) <=> Awaits(c, e)' \/ e = x
  <2>1. (\E i \in 1..n : Q[i] = e) <=> (\E i \in 1..(n - 1) : Q[i + 1] = e) \/ e = x
    <3>1. ASSUME NEW i \in 1..n, Q[i] = e, e # x PROVE \E j \in 1..(n - 1) : Q[j + 1] = e
      <4>1. i # 1
        BY <3>1, <1>1
      <4>2. i - 1 \in 1..(n - 1) /\ (i - 1) + 1 = i
        BY <4>1, <1>1
      <4> QED
        BY <4>2, <3>1
    <3> QED
      BY <3>1, <1>1, <1>5
  <2>2. (\E i \in DOMAIN Queue(c) : Queue(c)[i] = e)
          <=> (\E i \in DOMAIN Queue(c)' : Queue(c)'[i] = e) \/ e = x
    BY <2>1, <1>1 DEF Q
  <2>3. (\E p \in Publishers : c \in to[p] /\ posting[p] = e)
          <=> (\E p \in Publishers : c \in to'[p] /\ posting'[p] = e)
    BY <1>2
  <2> QED
    BY <2>2, <2>3, Zenon DEF Awaits
<1>11. Awaits(c, x)
  BY <1>10
<1>12. \A e : Awaits(c, e)' <=> Awaits(c, e) /\ e # x
  BY <1>9, <1>10
<1> QED
  BY <1>7, <1>8, <1>11, <1>12

(* A frame of the live loop leaves the queue and is shown.                 *)
LEMMA YieldLiveKeeps ==
  ASSUME IInv, NEW c \in Clients, Yield(c), stage[c] = "live"
  PROVE  Shown(c)'
<1> DEFINE n == Len(sent[c])
           m == Len(todo[c])
           q == Len(Queue(c))
           Q == Queue(c)
<1>0. PICK x : x = todo[c][1]
  OBVIOUS
<1>1. /\ UNCHANGED <<log, history, subs, posting, to, stage, last, buffer>> /\ seq' = seq
      /\ n \in Nat /\ m \in Nat /\ m > 0 /\ DOMAIN sent[c] = 1..n /\ DOMAIN sent'[c] = 1..(n + 1)
      /\ sent'[c][n + 1] = x /\ x \in 1..seq
      /\ DOMAIN todo[c] = 1..m /\ DOMAIN todo'[c] = 1..(m - 1)
  BY <1>0, Yielded
<1>2. \A i \in 1..n : sent'[c][i] = sent[c][i] /\ sent[c][i] \in Nat
  BY Yielded
<1>3. \A i \in 1..(m - 1) : todo'[c][i] = todo[c][i + 1]
  BY Yielded
<1>4. /\ q \in Nat /\ q > 0 /\ DOMAIN Q = 1..q /\ DOMAIN Queue(c)' = 1..(q - 1)
      /\ \A i \in 1..(q - 1) : Queue(c)'[i] = Q[i + 1]
  BY QueueShrinks
<1>5. /\ Awaits(c, x) /\ x > last[c]
      /\ \A e : Awaits(c, e)' <=> Awaits(c, e) /\ e # x
      /\ \A h : (Awaits(c, h) /\ h # x /\ log[h] = log[x]) => x < h
  BY <1>0, YieldLiveAwaits
<1> HIDE DEF n, m, q, Q
<1>6. /\ Placed(c) /\ Numbered(c) /\ Late(c) /\ Ordered(c)
      /\ Overtaken(c) /\ Repeated(c) /\ Twice(c)
  BY DEF IInv, Shown
<1>7. seq \in Nat /\ last[c] \in Nat
  BY OneClient DEF IInv
<1>8. Placed(c)' /\ FirstPass(c)' /\ Upward(c)'
  BY <1>1, <1>6 DEF Placed, FirstPass, Upward
<1>9. Numbered(c)'
  <2>1. /\ last[c] <= seq /\ \A i \in 1..n : sent[c][i] \in 1..seq
        /\ \A i \in 1..m : todo[c][i] \in 1..seq /\ \A j \in 1..q : Q[j] \in 1..seq
    BY <1>1, <1>4, <1>6 DEF Numbered, Q
  <2>2. \A i \in 1..(n + 1) : sent'[c][i] \in 1..seq
    <3> TAKE i \in 1..(n + 1)
    <3>1. CASE i = n + 1
      BY <3>1, <1>1
    <3>2. CASE i \in 1..n
      BY <3>2, <2>1, <1>2
    <3> QED
      BY <3>1, <3>2, <1>1
  <2>3. \A i \in 1..(m - 1) : i + 1 \in 1..m /\ \A j \in 1..(q - 1) : j + 1 \in 1..q
    BY <1>1, <1>4
  <2>4. /\ \A i \in 1..(m - 1) : todo'[c][i] \in 1..seq
    BY <2>1, <2>3, <1>3
  <2>5. \A j \in 1..(q - 1) : Queue(c)'[j] \in 1..seq
    <3> TAKE j \in 1..(q - 1)
    <3>1. j + 1 \in 1..q
      BY <1>4
    <3>2. Q[j + 1] \in 1..seq
      BY <3>1, <1>4, <1>6 DEF Numbered, Q
    <3> QED
      BY <3>2, <1>4
  <2> QED
    BY <2>1, <2>2, <2>4, <2>5, <1>1, <1>4 DEF Numbered
<1>10. Late(c)' /\ Ordered(c)'
  <2>1. \A i \in 1..(q - 1) : i + 1 \in 1..q
    BY <1>4
  <2>2. \A i \in 1..(q - 1) : Queue(c)'[i] > last[c]
    BY <2>1, <1>4, <1>6 DEF Late, Q
  <2>3. ASSUME NEW i \in 1..(q - 1), NEW j \in 1..(q - 1), i < j, log[Queue(c)'[i]] = log[Queue(c)'[j]]
        PROVE  Queue(c)'[i] < Queue(c)'[j]
    <3>1. i + 1 < j + 1
      BY <2>3, <1>4
    <3> QED
      BY <3>1, <2>1, <2>3, <1>4, <1>6 DEF Ordered, Q
  <2>4. ASSUME NEW i \in 1..(q - 1), NEW p \in Publishers, c \in to[p], log[Queue(c)'[i]] = p
        PROVE  Queue(c)'[i] < posting[p]
    BY <2>1, <2>4, <1>4, <1>6 DEF Ordered, Q
  <2>5. \A p \in Publishers : c \in to[p] => posting[p] > last[c]
    BY <1>6 DEF Late
  <2> QED
    BY <2>2, <2>3, <2>4, <2>5, <1>1, <1>4 DEF Late, Ordered
<1>11. Overtaken(c)'
  <2> SUFFICES ASSUME NEW i \in 1..(n + 1), NEW h \in 1..seq,
                      Awaits(c, h), h # x, log[h] = log[sent'[c][i]], h < sent'[c][i]
               PROVE  Awaits(c, sent'[c][i]) /\ sent'[c][i] # x
    BY <1>1, <1>5 DEF Overtaken
  <2>1. i # n + 1
    BY <1>1, <1>5
  <2>2. i \in 1..n /\ sent'[c][i] = sent[c][i]
    BY <2>1, <1>1, <1>2
  <2>3. Awaits(c, sent[c][i])
    BY <2>2, <1>1, <1>5, <1>6 DEF Overtaken
  <2>4. sent[c][i] # x
    BY <2>2, <1>1, <1>5
  <2> QED
    BY <2>2, <2>3, <2>4, <1>5
<1>12. Repeated(c)'
  <2> SUFFICES ASSUME NEW i \in 1..(n + 1), NEW j \in 1..(n + 1), i < j,
                      log[sent'[c][i]] = log[sent'[c][j]], sent'[c][j] < sent'[c][i]
               PROVE  \/ Awaits(c, sent'[c][i]) /\ sent'[c][i] # x
                      \/ \E k \in 1..(n + 1) : k > j /\ sent'[c][k] = sent'[c][i]
    BY <1>1, <1>5 DEF Repeated
  <2>1. i \in 1..n /\ sent'[c][i] = sent[c][i]
    BY <1>1, <1>2
  <2>2. CASE j = n + 1
    <3>1. Awaits(c, sent[c][i])
      BY <2>1, <2>2, <1>1, <1>5, <1>6 DEF Overtaken
    <3>2. sent[c][i] # x
      BY <2>1, <2>2, <1>1
    <3> QED
      BY <3>1, <3>2, <2>1, <1>5
  <2>3. CASE j \in 1..n
    <3>1. sent'[c][j] = sent[c][j]
      BY <2>3, <1>2
    <3>2. \/ Awaits(c, sent[c][i])
          \/ \E k \in 1..n : k > j /\ sent[c][k] = sent[c][i]
      BY <3>1, <2>1, <2>3, <1>1, <1>6 DEF Repeated
    <3>3. CASE Awaits(c, sent[c][i])
      <4>1. CASE sent[c][i] = x
        <5>1. n + 1 \in 1..(n + 1) /\ n + 1 > j
          BY <2>3, <1>1
        <5> QED
          BY <5>1, <4>1, <2>1, <1>1
      <4>2. CASE sent[c][i] # x
        BY <4>2, <3>3, <2>1, <1>5
      <4> QED
        BY <4>1, <4>2
    <3>4. CASE \E k \in 1..n : k > j /\ sent[c][k] = sent[c][i]
      <4>1. PICK k \in 1..n : k > j /\ sent[c][k] = sent[c][i]
        BY <3>4
      <4>2. k \in 1..(n + 1) /\ sent'[c][k] = sent[c][k]
        <5>1. sent'[c][k] = sent[c][k]
          BY <1>2
        <5> QED
          BY <5>1, <1>1
      <4> QED
        BY <4>1, <4>2, <2>1
    <3> QED
      BY <3>2, <3>3, <3>4
  <2> QED
    BY <2>2, <2>3, <1>1
<1>13. Twice(c)'
  <2> SUFFICES ASSUME NEW i \in 1..(n + 1), NEW j \in 1..(n + 1), i < j, sent'[c][i] = sent'[c][j]
               PROVE  /\ sent'[c][i] > last[c] /\ (Awaits(c, sent'[c][i]) => sent'[c][i] = x)
                      /\ \A k \in 1..(n + 1) : k > j => sent'[c][k] # sent'[c][j]
    BY <1>1, <1>5 DEF Twice
  <2>1. i \in 1..n /\ sent'[c][i] = sent[c][i]
    BY <1>1, <1>2
  <2>2. CASE j = n + 1
    <3>1. sent[c][i] = x
      BY <2>1, <2>2, <1>1
    <3> QED
      BY <3>1, <2>1, <2>2, <1>1, <1>5
  <2>3. CASE j \in 1..n
    <3>1. sent'[c][j] = sent[c][j]
      BY <2>3, <1>2
    <3>2. /\ sent[c][i] > last[c] /\ ~Awaits(c, sent[c][i])
          /\ \A k \in 1..n : k > j => sent[c][k] # sent[c][j]
      BY <3>1, <2>1, <2>3, <1>1, <1>6 DEF Twice
    <3>3. sent[c][i] # x
      BY <3>2, <1>5
    <3>4. ASSUME NEW k \in 1..(n + 1), k > j PROVE sent'[c][k] # sent'[c][j]
      <4>1. CASE k = n + 1
        BY <4>1, <3>1, <3>3, <2>1, <1>1
      <4>2. CASE k \in 1..n
        BY <4>2, <3>1, <3>2, <3>4, <1>2
      <4> QED
        BY <4>1, <4>2, <1>1
    <3> QED
      BY <3>2, <3>3, <3>4, <2>1
  <2> QED
    BY <2>2, <2>3, <1>1
<1> QED
  BY <1>8, <1>9, <1>10, <1>11, <1>12, <1>13 DEF Shown

(* A frame keeps the invariant, wherever it is from.                       *)
LEMMA YieldKeeps == ASSUME IInv, NEW c \in Clients, Yield(c) PROVE IInv'
<1>1. /\ Typed' /\ UNCHANGED <<log, history, subs, posting, to, stage, last, buffer>>
      /\ \A d \in Clients : d # c => sent'[d] = sent[d] /\ todo'[d] = todo[d]
  BY Yielded
<1>2. Shown(c)'
  BY YieldFirstKeeps, YieldLiveKeeps
<1>3. \A d \in Clients : d # c =>
        /\ stage'[d] = stage[d] /\ todo'[d] = todo[d] /\ buffer'[d] = buffer[d]
        /\ sent'[d] = sent[d] /\ last'[d] = last[d] /\ (d \in subs' <=> d \in subs)
  BY <1>1
<1> QED
  BY <1>1, <1>2, <1>3, OnlyHere

-----------------------------------------------------------------------------
(* The invariant is inductive.                                             *)
LEMMA StreamStep == IInv /\ [Next]_vars => IInv'
<1> SUFFICES ASSUME IInv, [Next]_vars PROVE IInv'
  OBVIOUS
<1>1. CASE UNCHANGED vars
  <2>1. Typed' /\ History' /\ Posting'
    BY <1>1 DEF IInv, Typed, History, Posting, seq, vars, bus, client
  <2>2. ASSUME NEW c \in Clients PROVE Shown(c)'
    BY <1>1, Untouched DEF IInv, vars, bus, client
  <2> QED
    BY <2>1, <2>2 DEF IInv
<1>2. ASSUME NEW p \in Publishers, Publish(p) PROVE IInv'
  BY <1>2, PublishKeeps
<1>3. ASSUME NEW p \in Publishers, Deliver(p) PROVE IInv'
  BY <1>3, DeliverKeeps
<1>4. ASSUME NEW c \in Clients, Connect(c) PROVE IInv'
  BY <1>4, ConnectKeeps
<1>5. ASSUME NEW c \in Clients, ClientStep(c) PROVE IInv'
  BY <1>5, YieldKeeps, SubscribeKeeps, CatchUpKeeps, FollowKeeps, PopAllKeeps DEF ClientStep
<1>6. ASSUME NEW c \in Clients, Disconnect(c) PROVE IInv'
  BY <1>6, DisconnectKeeps
<1> QED
  BY <1>1, <1>2, <1>3, <1>4, <1>5, <1>6 DEF Next

(* The invariant always holds.                                             *)
LEMMA StreamInvariant == Spec => []IInv
<1> QED
  BY StreamInit, StreamStep, PTL DEF Spec

(* No event is yielded more than twice, and one of the first burst once:   *)
(* whatever the publishers, the connections and the size of the history.   *)
THEOREM NoEventThrice == Spec => []AtMostTwice
<1>1. IInv => AtMostTwice
  BY DEF IInv, Shown, Twice, AtMostTwice
<1> QED
  BY <1>1, StreamInvariant, PTL

(* A client to whom nothing is due ends on each publisher's latest event.  *)
THEOREM NewestIsLast == Spec => []LastWord
<1>1. ASSUME IInv, NEW c \in Clients, Settled(c), NEW i \in DOMAIN sent[c], NEW j \in DOMAIN sent[c],
             EndsOn(c, j), Publisher(c, i) = Publisher(c, j)
      PROVE  sent[c][i] <= sent[c][j]
  <2>1. todo[c] \in Seq(Nat) /\ buffer[c] \in Seq(Nat) /\ sent[c] \in Seq(Nat) /\ Shown(c)
    BY <1>1, OneClient DEF IInv
  <2>2. stage[c] = "live" /\ todo[c] = <<>> /\ buffer[c] = <<>> /\ \A p \in Publishers : c \notin to[p]
    <3>1. /\ \A k \in DOMAIN todo[c] : todo[c][k] \in Pending(c)
          /\ \A k \in DOMAIN buffer[c] : buffer[c][k] \in Pending(c)
          /\ \A p \in Publishers : c \in to[p] => posting[p] \in Pending(c)
      BY DEF Pending, ToSet
    <3>2. Pending(c) = {} /\ stage[c] = "live"
      BY <1>1 DEF Settled
    <3>3. \A p \in Publishers : c \notin to[p]
      BY <3>1, <3>2
    <3>4. DOMAIN todo[c] = {} /\ DOMAIN buffer[c] = {}
      BY <3>1, <3>2
    <3>5. todo[c] = <<>> /\ buffer[c] = <<>>
      <4>1. \A t \in Seq(Nat) : t # <<>> => 1 \in DOMAIN t
        BY OneLess
      <4> QED
        BY <4>1, <3>4, <2>1
    <3> QED
      BY <3>2, <3>3, <3>5
  <2>3. ~Awaits(c, sent[c][i])
    <3>1. Queue(c) = <<>>
      BY <2>2 DEF Queue
    <3> QED
      BY <3>1, <2>2 DEF Awaits
  <2>4. i \in 1..Len(sent[c]) /\ j \in 1..Len(sent[c]) /\ sent[c][i] \in Nat /\ sent[c][j] \in Nat
    BY <2>1, ElementOfSeq
  <2>5. CASE i > j
    BY <2>5, <1>1 DEF EndsOn
  <2>6. CASE i = j
    BY <2>4, <2>6
  <2>7. CASE i < j
    <3> SUFFICES ASSUME sent[c][j] < sent[c][i] PROVE FALSE
      BY <2>4
    <3>1. log[sent[c][i]] = log[sent[c][j]]
      BY <1>1 DEF Publisher
    <3>2. PICK k \in DOMAIN sent[c] : k > j /\ sent[c][k] = sent[c][i]
      BY <3>1, <2>1, <2>2, <2>3, <2>7 DEF Shown, Repeated
    <3> QED
      BY <3>1, <3>2, <1>1 DEF EndsOn, Publisher
  <2> QED
    BY <2>4, <2>5, <2>6, <2>7
<1>2. IInv => LastWord
  BY <1>1 DEF LastWord
<1> QED
  BY <1>2, StreamInvariant, PTL

-----------------------------------------------------------------------------
(* The refinement of Feed.  What is on its way to c, what it has been      *)
(* shown, and what is due to it.                                           *)
Has(c, e) ==
  \/ \E i \in DOMAIN todo[c] : todo[c][i] = e
  \/ \E i \in DOMAIN buffer[c] : buffer[c][i] = e
  \/ \E p \in Publishers : c \in to[p] /\ posting[p] = e
  \/ /\ stage[c] \in {"burst", "subscribed"} /\ e > last[c]
     /\ \E i \in DOMAIN history : history[i] = e

Was(c, e) == \E i \in DOMAIN sent[c] : sent[c][i] = e

IsDue(c, e) == Connected(c) /\ Has(c, e) /\ ~Was(c, e)

(* These are the elements of the sets of EventStream.                      *)
LEMMA PendingHas ==
  ASSUME NEW c, NEW e
  PROVE  (e \in Pending(c) <=> Has(c, e)) /\ ((e \in Pending(c))' <=> Has(c, e)')
<1>1. e \in Pending(c) <=> Has(c, e)
  BY DEF Pending, Has, ToSet
<1>2. (e \in Pending(c))' <=> Has(c, e)'
  BY DEF Pending, Has, ToSet
<1> QED
  BY <1>1, <1>2

(* So what is due is what is due in EventStream.                           *)
LEMMA DueIs ==
  ASSUME NEW c \in Clients, NEW e
  PROVE  (e \in Due[c] <=> IsDue(c, e)) /\ ((e \in Due[c])' <=> IsDue(c, e)')
<1>1. e \in Due[c] <=> IsDue(c, e)
  BY PendingHas DEF Due, IsDue, Was, ToSet
<1>2. (e \in Due[c])' <=> IsDue(c, e)'
  BY PendingHas DEF Due, IsDue, Was, ToSet
<1> QED
  BY <1>1, <1>2

(* A history is an interval.                                               *)
LEMMA Interval ==
  ASSUME NEW h \in Seq(Nat), NEW n \in Nat, NEW e,
         \A i \in DOMAIN h : h[i] = n - Len(h) + i
  PROVE  (\E i \in DOMAIN h : h[i] = e) <=> e \in (n - Len(h) + 1)..n
<1>1. DOMAIN h = 1..Len(h) /\ Len(h) \in Nat
  OBVIOUS
<1>2. ASSUME e \in (n - Len(h) + 1)..n PROVE \E i \in DOMAIN h : h[i] = e
  <2> DEFINE i == e - (n - Len(h))
  <2>1. i \in 1..Len(h) /\ n - Len(h) + i = e
    BY <1>1, <1>2
  <2> QED
    BY <2>1, <1>1
<1>3. ASSUME NEW i \in DOMAIN h, h[i] = e PROVE e \in (n - Len(h) + 1)..n
  BY <1>1, <1>3
<1> QED
  BY <1>2, <1>3

(* The history is one.                                                     *)
LEMMA HistoryIs ==
  ASSUME IInv, NEW e
  PROVE  (\E i \in DOMAIN history : history[i] = e) <=> e \in (seq - Len(history) + 1)..seq
<1>1. history \in Seq(Nat) /\ seq \in Nat /\ \A i \in DOMAIN history : history[i] = seq - Len(history) + i
  BY DEF IInv, History, Typed, seq
<1> QED
  BY <1>1, Interval

(* Only what has been published is due.                                    *)
LEMMA DueInRange ==
  ASSUME IInv, NEW c \in Clients, NEW e, Has(c, e)
  PROVE  e \in 1..seq
<1>1. Shown(c) /\ Typed /\ History /\ Posting
  BY DEF IInv
<1>2. CASE \E i \in DOMAIN todo[c] : todo[c][i] = e
  BY <1>1, <1>2 DEF Shown, Numbered
<1>3. CASE \E i \in DOMAIN buffer[c] : buffer[c][i] = e
  <2> DEFINE a == IF stage[c] = "live" THEN todo[c] ELSE <<>>
  <2>1. a \in Seq(Nat) /\ buffer[c] \in Seq(Nat) /\ Queue(c) = a \o buffer[c]
    BY <1>1, OneClient DEF Queue
  <2> HIDE DEF a
  <2>2. PICK i \in 1..Len(buffer[c]) : buffer[c][i] = e
    BY <1>3, <2>1
  <2>3. Len(a) + i \in DOMAIN Queue(c) /\ Queue(c)[Len(a) + i] = e
    BY <2>1, <2>2
  <2> QED
    BY <2>3, <1>1 DEF Shown, Numbered
<1>4. CASE \E p \in Publishers : c \in to[p] /\ posting[p] = e
  BY <1>1, <1>4 DEF Posting
<1>5. CASE \E i \in DOMAIN history : history[i] = e
  <2>1. e \in (seq - Len(history) + 1)..seq
    BY <1>5, HistoryIs
  <2>2. seq \in Nat /\ Len(history) \in Nat /\ Len(history) <= seq
    BY <1>1 DEF History, Typed, seq
  <2> QED
    BY <2>1, <2>2
<1> QED
  BY <1>2, <1>3, <1>4, <1>5 DEF Has

(* The mapped initial state.                                               *)
LEMMA FeedInit == Init => F!Init
<1> SUFFICES ASSUME Init PROVE F!Init
  OBVIOUS
<1>1. \A c \in Clients : ~Connected(c)
  BY DEF Init, Connected
<1>2. Due = [c \in Clients |-> {}]
  BY <1>1 DEF Due
<1>3. seq = 0
  BY DEF Init, seq
<1> QED
  BY <1>1, <1>2, <1>3 DEF F!Init

(* A step that leaves what is due to everybody is a stutter of Feed, and   *)
(* so is one that leaves what c, the only one it concerns, has to get.     *)
LEMMA SameFeed ==
  ASSUME seq' = seq, \A c \in Clients : Connected(c)' <=> Connected(c),
         \A c \in Clients : \A e : IsDue(c, e)' <=> IsDue(c, e)
  PROVE  UNCHANGED F!fvars
<1>1. ASSUME NEW c \in Clients PROVE Due'[c] = Due[c]
  <2>1. \A e : e \in Due'[c] <=> e \in Due[c]
    BY DueIs
  <2> QED
    BY <2>1
<1>2. Due' = Due
  BY <1>1 DEF Due
<1>3. {c \in Clients : Connected(c)}' = {c \in Clients : Connected(c)}
  OBVIOUS
<1> QED
  BY <1>2, <1>3 DEF F!fvars

(* What a connection has to get depends on its own state and the bus.      *)
LEMMA OthersDue ==
  ASSUME NEW c, stage'[c] = stage[c], todo'[c] = todo[c], buffer'[c] = buffer[c], sent'[c] = sent[c],
         last'[c] = last[c], history' = history,
         \A p \in Publishers : (c \in to'[p] <=> c \in to[p]) /\ (c \in to[p] => posting'[p] = posting[p])
  PROVE  (Connected(c)' <=> Connected(c)) /\ \A e : IsDue(c, e)' <=> IsDue(c, e)
<1>1. Connected(c)' <=> Connected(c)
  BY DEF Connected
<1>2. ASSUME NEW e PROVE Has(c, e)' <=> Has(c, e)
  <2>1. (\E p \in Publishers : c \in to'[p] /\ posting'[p] = e) <=> (\E p \in Publishers : c \in to[p] /\ posting[p] = e)
    OBVIOUS
  <2> QED
    BY <2>1, Zenon DEF Has
<1>3. \A e : Was(c, e)' <=> Was(c, e)
  BY DEF Was
<1> QED
  BY <1>1, <1>2, <1>3 DEF IsDue

(* A delivery moves an event from the publisher to the buffer.             *)
LEMMA DeliverStutters == ASSUME IInv, NEW p \in Publishers, Deliver(p) PROVE UNCHANGED F!fvars
<1>1. PICK c \in to[p] :
        /\ buffer' = [buffer EXCEPT ![c] = Append(@, posting[p])]
        /\ to' = [to EXCEPT ![p] = @ \ {c}]
        /\ posting' = [posting EXCEPT ![p] = IF to[p] = {c} THEN 0 ELSE @]
  BY DEF Deliver
<1>2. UNCHANGED <<log, history, subs, stage, todo, last, sent>>
  BY DEF Deliver
<1>3. /\ c \in Clients /\ seq' = seq /\ posting[p] \in 1..seq
      /\ to'[p] = to[p] \ {c} /\ (to'[p] # {} => posting'[p] = posting[p])
  BY <1>1, <1>2, Delivered
<1>4. \A q \in Publishers : q # p => to'[q] = to[q] /\ posting'[q] = posting[q]
  BY <1>1, <1>2, Delivered
<1>5. \A d \in Clients : d # c => buffer'[d] = buffer[d]
  BY <1>1, <1>2, Delivered
<1>6. \A d \in Clients : Connected(d)' <=> Connected(d)
  BY <1>2 DEF Connected
<1>7. ASSUME NEW e PROVE IsDue(c, e)' <=> IsDue(c, e)
  <2>1. buffer[c] \in Seq(Nat) /\ buffer'[c] = Append(buffer[c], posting[p]) /\ posting[p] \in Nat
    BY <1>1, <1>3 DEF IInv, Typed
  <2>2. (\E i \in DOMAIN buffer'[c] : buffer'[c][i] = e)
          <=> (\E i \in DOMAIN buffer[c] : buffer[c][i] = e) \/ posting[p] = e
    <3> DEFINE b == buffer[c]
    <3>1. /\ DOMAIN b = 1..Len(b) /\ DOMAIN buffer'[c] = 1..(Len(b) + 1) /\ Len(b) \in Nat
          /\ \A i \in 1..Len(b) : buffer'[c][i] = b[i]
          /\ buffer'[c][Len(b) + 1] = posting[p]
      BY <2>1, OneMore
    <3> HIDE DEF b
    <3>2. (\E i \in DOMAIN buffer'[c] : buffer'[c][i] = e) <=> (\E i \in DOMAIN b : b[i] = e) \/ posting[p] = e
      BY <3>1
    <3> QED
      BY <3>2 DEF b
  <2>3. (\E q \in Publishers : c \in to[q] /\ posting[q] = e)
          <=> (\E q \in Publishers : c \in to'[q] /\ posting'[q] = e) \/ posting[p] = e
    BY <1>3, <1>4
  <2>4. Has(c, e)' <=> Has(c, e)
    BY <2>2, <2>3, <1>2, Zenon DEF Has
  <2>5. Was(c, e)' <=> Was(c, e)
    BY <1>2 DEF Was
  <2> QED
    BY <2>4, <2>5, <1>3, <1>6 DEF IsDue
<1>8. ASSUME NEW d \in Clients, d # c PROVE \A e : IsDue(d, e)' <=> IsDue(d, e)
  <2>1. \A q \in Publishers : (d \in to'[q] <=> d \in to[q]) /\ (d \in to[q] => posting'[q] = posting[q])
    BY <1>3, <1>4, <1>8
  <2> QED
    BY <2>1, <1>2, <1>5, <1>8, OthersDue
<1>9. \A d \in Clients : \A e : IsDue(d, e)' <=> IsDue(d, e)
  BY <1>7, <1>8
<1> QED
  BY <1>3, <1>6, <1>9, SameFeed

(* The steps of a connection between two frames.                           *)
LEMMA ClientStutters ==
  ASSUME IInv, IInv', NEW c \in Clients, Subscribe(c) \/ CatchUp(c) \/ Follow(c) \/ PopAll(c)
  PROVE  UNCHANGED F!fvars
<1>1. UNCHANGED <<log, history, posting, to, last, sent>> /\ seq' = seq
  BY DEF Subscribe, CatchUp, Follow, PopAll, bus, seq
<1>2. \A d \in Clients : d # c => stage'[d] = stage[d] /\ todo'[d] = todo[d] /\ buffer'[d] = buffer[d]
  BY DEF Subscribe, CatchUp, Follow, PopAll, At, IInv, Typed
<1>3. Connected(c)' /\ Connected(c)
  BY DEF Subscribe, CatchUp, Follow, PopAll, At, Connected, IInv, Typed
<1>4. ASSUME NEW e PROVE Has(c, e)' <=> Has(c, e)
  <2>1. CASE Subscribe(c)
    BY <2>1, <1>1, Zenon DEF Subscribe, At, Has, IInv, Typed
  <2>2. CASE Follow(c)
    BY <2>2, <1>1 DEF Follow, At, Has, IInv, Typed
  <2>3. CASE PopAll(c)
    BY <2>3, <1>1 DEF PopAll, At, Has, IInv, Typed
  <2>4. CASE CatchUp(c)
    <3>1. /\ stage[c] = "subscribed" /\ stage' = [stage EXCEPT ![c] = "catchup"] /\ buffer' = buffer
      BY <2>4 DEF CatchUp, At
    <3>2. PICK k \in 0..Len(history) :
            /\ \A i \in DOMAIN history : history[i] > last[c] <=> i > k
            /\ todo' = [todo EXCEPT ![c] = SubSeq(history, k + 1, Len(history))]
      BY <2>4 DEF CatchUp
    <3> DEFINE later == SubSeq(history, k + 1, Len(history))
    <3>3. todo[c] = <<>> /\ todo'[c] = later /\ stage'[c] = "catchup"
      BY <3>1, <3>2 DEF IInv, Typed, Shown, Placed
    <3>4. /\ k \in Nat /\ Len(history) \in Nat /\ DOMAIN later = 1..(Len(history) - k)
          /\ \A i \in 1..(Len(history) - k) : later[i] = history[k + i]
      BY HistoryEnd
    <3> HIDE DEF later
    <3>5. DOMAIN history = 1..Len(history)
      BY DEF IInv, History
    <3>6. ASSUME NEW i \in DOMAIN history, history[i] = e, e > last[c]
          PROVE  \E j \in DOMAIN later : later[j] = e
      <4>1. i > k /\ i \in 1..Len(history)
        BY <3>2, <3>5, <3>6
      <4>2. i - k \in 1..(Len(history) - k) /\ k + (i - k) = i
        BY <4>1, <3>4
      <4> QED
        BY <4>2, <3>4, <3>6
    <3>7. ASSUME NEW j \in DOMAIN later, later[j] = e
          PROVE  e > last[c] /\ \E i \in DOMAIN history : history[i] = e
      <4>1. k + j \in 1..Len(history) /\ k + j > k
        BY <3>4
      <4>2. history[k + j] = e
        BY <3>4, <3>7
      <4> QED
        BY <4>1, <4>2, <3>2, <3>5
    <3>8. (\E j \in DOMAIN later : later[j] = e)
            <=> e > last[c] /\ \E i \in DOMAIN history : history[i] = e
      BY <3>6, <3>7
    <3>9. ~\E i \in DOMAIN todo[c] : todo[c][i] = e
      BY <3>3
    <3> QED
      BY <3>1, <3>3, <3>8, <3>9, <1>1, Zenon DEF Has
  <2> QED
    BY <2>1, <2>2, <2>3, <2>4
<1>5. \A e : IsDue(c, e)' <=> IsDue(c, e)
  BY <1>1, <1>3, <1>4 DEF IsDue, Was
<1>6. ASSUME NEW d \in Clients, d # c
      PROVE  (Connected(d)' <=> Connected(d)) /\ \A e : IsDue(d, e)' <=> IsDue(d, e)
  BY <1>1, <1>2, <1>6, OthersDue
<1> QED
  BY <1>1, <1>3, <1>5, <1>6, SameFeed

(* A publication is due to everybody who follows, and nothing else is new; *)
(* what is no longer due left the history, which kept its newer half.      *)
LEMMA PublishMaps == ASSUME IInv, IInv', NEW p \in Publishers, Publish(p) PROVE F!Publish
<1>1. /\ seq \in Nat /\ seq' = seq + 1 /\ to[p] = {}
      /\ to'[p] = subs /\ posting'[p] = IF subs = {} THEN 0 ELSE seq + 1
      /\ UNCHANGED <<subs, stage, todo, last, buffer, sent>>
  BY Published
<1>2. \A q \in Publishers : q # p => to'[q] = to[q] /\ posting'[q] = posting[q]
  BY Published
<1>3. Half \in Nat
  BY SizeAssumption DEF Half
<1>4. PICK old \in Nat, new \in Nat :
        /\ old = seq - Len(history) /\ new = seq + 1 - Len(history') /\ new >= old /\ new <= seq
        /\ new = 0 \/ new + Half < seq + 1
  <2>1. /\ Len(history) \in Nat /\ Len(history) <= seq
        /\ Len(history') \in Nat /\ Len(history') <= seq + 1
        /\ Len(history') = seq + 1 \/ Len(history') > Half
    BY <1>1 DEF IInv, History
  <2>2. Len(history') <= Len(history) + 1
    BY PublishKeepsHistory
  <2>3. Len(history') >= 1
    BY <2>1, <1>1, <1>3
  <2>4. seq - Len(history) \in Nat /\ seq + 1 - Len(history') \in Nat
    BY <2>1, <1>1
  <2>5. /\ seq + 1 - Len(history') >= seq - Len(history) /\ seq + 1 - Len(history') <= seq
        /\ seq + 1 - Len(history') = 0 \/ seq + 1 - Len(history') + Half < seq + 1
    BY <2>1, <2>2, <2>3, <1>1, <1>3
  <2> QED
    BY <2>4, <2>5
<1>5. \A e : (\E i \in DOMAIN history : history[i] = e) <=> e \in (old + 1)..seq
  BY <1>4, HistoryIs
<1>6. \A e : (\E i \in DOMAIN history' : history'[i] = e) <=> e \in (new + 1)..(seq + 1)
  <2>1. /\ history' \in Seq(Nat) /\ seq + 1 \in Nat
        /\ \A i \in DOMAIN history' : history'[i] = (seq + 1) - Len(history') + i
    BY <1>1 DEF IInv, History
  <2>2. PICK h, n : h = history' /\ n = seq + 1
    OBVIOUS
  <2>3. h \in Seq(Nat) /\ n \in Nat /\ \A i \in DOMAIN h : h[i] = n - Len(h) + i
    BY <2>1, <2>2
  <2>4. \A e : (\E i \in DOMAIN h : h[i] = e) <=> e \in (n - Len(h) + 1)..n
    BY <2>3, Interval
  <2>5. n - Len(h) + 1 = new + 1
    <3>1. Len(h) \in Nat
      BY <2>3
    <3> QED
      BY <3>1, <2>2, <1>1, <1>4
  <2> QED
    BY <2>2, <2>4, <2>5
<1>7. \A c : Connected(c)' <=> Connected(c)
  BY <1>1 DEF Connected
<1>8. ASSUME NEW c \in Clients, NEW e, IsDue(c, e)'
      PROVE  IsDue(c, e) \/ (Connected(c) /\ e = seq + 1)
  <2>1. Connected(c) /\ Has(c, e)' /\ ~Was(c, e)
    BY <1>1, <1>7, <1>8 DEF IsDue, Was
  <2>2. CASE \E i \in DOMAIN todo'[c] : todo'[c][i] = e
    BY <2>1, <2>2, <1>1 DEF IsDue, Has
  <2>3. CASE \E i \in DOMAIN buffer'[c] : buffer'[c][i] = e
    BY <2>1, <2>3, <1>1 DEF IsDue, Has
  <2>4. CASE \E q \in Publishers : c \in to'[q] /\ posting'[q] = e
    BY <2>1, <2>4, <1>1, <1>2 DEF IsDue, Has
  <2>5. CASE /\ stage'[c] \in {"burst", "subscribed"} /\ e > last'[c]
             /\ \E i \in DOMAIN history' : history'[i] = e
    <3>1. e \in (new + 1)..(seq + 1)
      BY <2>5, <1>6
    <3>2. e = seq + 1 \/ e \in (old + 1)..seq
      BY <3>1, <1>1, <1>4
    <3> QED
      BY <3>2, <2>1, <2>5, <1>1, <1>5 DEF IsDue, Has
  <2> QED
    BY <2>1, <2>2, <2>3, <2>4, <2>5 DEF Has
<1>9. ASSUME NEW c \in Clients, Connected(c), NEW e, e = seq + 1 PROVE IsDue(c, e)'
  <2>1. Shown(c) /\ last[c] \in Nat
    BY OneClient DEF IInv
  <2>2. ~Was(c, e)'
    <3>1. \A i \in DOMAIN sent[c] : sent[c][i] \in 1..seq
      BY <2>1 DEF Shown, Numbered
    <3> QED
      BY <3>1, <1>1, <1>9 DEF Was
  <2>3. CASE stage[c] \in {"burst", "subscribed"}
    <3>1. last[c] <= seq
      BY <2>1 DEF Shown, Numbered
    <3>2. e \in (new + 1)..(seq + 1) /\ e > last[c]
      <4>1. new \in Nat /\ new <= seq /\ seq \in Nat /\ last[c] \in Nat
        BY <2>1, <1>1, <1>4
      <4> QED
        BY <4>1, <3>1, <1>9
    <3>3. \E i \in DOMAIN history' : history'[i] = e
      BY <3>2, <1>6
    <3>4. Has(c, e)'
      BY <3>2, <3>3, <2>3, <1>1 DEF Has
    <3> QED
      BY <3>4, <2>2, <1>7, <1>9 DEF IsDue
  <2>4. CASE stage[c] \notin {"burst", "subscribed"}
    <3>1. c \in subs
      BY <2>1, <2>4, <1>9 DEF Shown, Placed, Connected, IInv, Typed
    <3>2. c \in to'[p] /\ posting'[p] = e
      BY <3>1, <1>1, <1>9
    <3>3. Has(c, e)'
      BY <3>2, <1>1 DEF Has
    <3> QED
      BY <3>3, <2>2, <1>7, <1>9 DEF IsDue
  <2> QED
    BY <2>3, <2>4
<1>10. ASSUME NEW c \in Clients, NEW e, IsDue(c, e), ~IsDue(c, e)'
       PROVE  e \in Nat /\ e + Half <= seq + 1
  <2>1. Connected(c) /\ Has(c, e) /\ ~Was(c, e) /\ ~Has(c, e)'
    BY <1>1, <1>7, <1>10 DEF IsDue, Was
  <2>2. ~\E i \in DOMAIN todo[c] : todo[c][i] = e
    BY <2>1, <1>1 DEF Has
  <2>3. ~\E i \in DOMAIN buffer[c] : buffer[c][i] = e
    BY <2>1, <1>1 DEF Has
  <2>4. ~\E q \in Publishers : c \in to[q] /\ posting[q] = e
    BY <2>1, <1>1, <1>2 DEF Has
  <2>5. /\ stage[c] \in {"burst", "subscribed"} /\ e > last[c]
        /\ \E i \in DOMAIN history : history[i] = e
    BY <2>1, <2>2, <2>3, <2>4 DEF Has
  <2>6. ~\E i \in DOMAIN history' : history'[i] = e
    BY <2>1, <2>5, <1>1 DEF Has
  <2>7. e \in (old + 1)..seq /\ e \notin (new + 1)..(seq + 1)
    BY <2>5, <2>6, <1>5, <1>6
  <2> QED
    BY <2>7, <1>1, <1>3, <1>4
<1>11. ASSUME NEW c \in Clients
       PROVE  /\ Due'[c] \subseteq 1..(seq + 1)
              /\ Due'[c] \subseteq (IF Connected(c) THEN Due[c] \cup {seq + 1} ELSE Due[c])
              /\ \A e : (e \in (IF Connected(c) THEN Due[c] \cup {seq + 1} ELSE Due[c]) /\ e \notin Due'[c])
                    => e \in Nat /\ e + Half <= seq + 1
  <2>1. \A e : e \in Due[c] <=> IsDue(c, e)
    BY DueIs
  <2>2. \A e : e \in Due'[c] <=> IsDue(c, e)'
    BY DueIs
  <2>3. \A e : IsDue(c, e) => e \in 1..seq /\ Connected(c)
    BY DueInRange DEF IsDue
  <2>4. \A e : IsDue(c, e)' => e \in 1..(seq + 1)
    BY <2>3, <1>8, <1>1
  <2>5. Due'[c] \subseteq 1..(seq + 1)
    BY <2>2, <2>4
  <2>6. Due'[c] \subseteq (IF Connected(c) THEN Due[c] \cup {seq + 1} ELSE Due[c])
    BY <2>1, <2>2, <1>8
  <2>7. ASSUME NEW e, e \in (IF Connected(c) THEN Due[c] \cup {seq + 1} ELSE Due[c]), e \notin Due'[c]
        PROVE  e \in Nat /\ e + Half <= seq + 1
    <3>1. ~IsDue(c, e)'
      BY <2>2, <2>7
    <3>2. ~(Connected(c) /\ e = seq + 1)
      BY <3>1, <1>9
    <3>3. IsDue(c, e)
      BY <3>2, <2>1, <2>7
    <3> QED
      BY <3>1, <3>3, <1>10
  <2> QED
    BY <2>5, <2>6, <2>7
<1>12. Due' = [c \in Clients |-> Due'[c]]
  BY DEF Due
<1>13. {c \in Clients : Connected(c)}' = {c \in Clients : Connected(c)}
  BY <1>7
<1>14. Due' \in [Clients -> SUBSET (1..seq')]
  BY <1>1, <1>11, <1>12
<1> QED
  BY <1>1, <1>11, <1>13, <1>14, Zenon DEF F!Publish, F!Old

(* Only c's own part of what is due changes with a step of c.              *)
LEMMA OwnDue ==
  ASSUME NEW c \in Clients, NEW own,
         \A d \in Clients : d # c => \A e : IsDue(d, e)' <=> IsDue(d, e),
         \A e : IsDue(c, e)' <=> e \in own
  PROVE  Due' = [Due EXCEPT ![c] = own]
<1>1. \A d \in Clients : \A e : (e \in Due[d] <=> IsDue(d, e)) /\ (e \in Due'[d] <=> IsDue(d, e)')
  BY DueIs
<1>2. Due'[c] = own
  BY <1>1
<1>3. ASSUME NEW d \in Clients, d # c PROVE Due'[d] = Due[d]
  <2>1. \A e : e \in Due'[d] <=> e \in Due[d]
    BY <1>1, <1>3
  <2> QED
    BY <2>1
<1>4. Due = [d \in Clients |-> Due[d]] /\ Due' = [d \in Clients |-> Due'[d]]
  BY DEF Due
<1> QED
  BY <1>2, <1>3, <1>4

(* A connection joins with the history due to it: the newest half at least *)
(* of what a full one holds.                                               *)
LEMMA ConnectMaps == ASSUME IInv, NEW c \in Clients, Connect(c) PROVE F!Join(c)
<1>1. /\ stage[c] = "away" /\ stage' = [stage EXCEPT ![c] = "burst"]
      /\ todo' = [todo EXCEPT ![c] = history]
      /\ last' = [last EXCEPT ![c] = IF history = <<>> THEN 0 ELSE seq]
      /\ UNCHANGED <<log, history, subs, posting, to, buffer, sent>> /\ seq' = seq
  BY DEF Connect, At, bus, seq
<1>2. /\ stage'[c] = "burst" /\ todo'[c] = history /\ sent'[c] = <<>> /\ buffer'[c] = <<>>
      /\ \A q \in Publishers : c \notin to'[q]
  BY <1>1 DEF IInv, Typed, Shown, Placed
<1>3. \A d \in Clients : d # c => stage'[d] = stage[d] /\ todo'[d] = todo[d] /\ last'[d] = last[d]
  BY <1>1 DEF IInv, Typed
<1>4. ASSUME NEW d \in Clients, d # c
      PROVE  (Connected(d)' <=> Connected(d)) /\ \A e : IsDue(d, e)' <=> IsDue(d, e)
  BY <1>1, <1>3, <1>4, OthersDue
<1>5. ~Connected(c) /\ Connected(c)'
  BY <1>1, <1>2 DEF Connected
<1> DEFINE kept == {e \in 1..seq : \E i \in DOMAIN history : history[i] = e}
<1>6. /\ Len(history) \in Nat /\ seq \in Nat /\ Len(history) <= seq /\ Half \in Nat
      /\ Len(history) = seq \/ Len(history) > Half
  BY SizeAssumption DEF IInv, History, Typed, seq, Half
<1>7. \A e : (\E i \in DOMAIN history : history[i] = e) <=> e \in kept
  <2> TAKE e
  <2>1. (\E i \in DOMAIN history : history[i] = e) <=> e \in (seq - Len(history) + 1)..seq
    BY HistoryIs
  <2>2. e \in (seq - Len(history) + 1)..seq => e \in 1..seq
    BY <1>6
  <2> QED
    BY <2>1, <2>2
<1>8. ASSUME NEW e \in 1..seq, e \notin kept PROVE e \in Nat /\ e + Half <= seq
  <2>1. e \notin (seq - Len(history) + 1)..seq
    BY <1>7, <1>8, HistoryIs
  <2> QED
    BY <2>1, <1>6
<1>9. \A e : IsDue(c, e)' <=> e \in kept
  <2> TAKE e
  <2>1. ~Was(c, e)'
    BY <1>2 DEF Was
  <2>2. ~\E i \in DOMAIN buffer'[c] : buffer'[c][i] = e
    BY <1>2
  <2>3. Has(c, e)' <=> \E i \in DOMAIN history : history[i] = e
    BY <2>2, <1>1, <1>2, Zenon DEF Has
  <2> QED
    BY <2>1, <2>3, <1>5, <1>7 DEF IsDue
<1> HIDE DEF kept
<1>10. Due' = [Due EXCEPT ![c] = kept]
  BY <1>4, <1>9, OwnDue
<1>11. {d \in Clients : Connected(d)}' = {d \in Clients : Connected(d)} \cup {c}
  BY <1>4, <1>5
<1>12. kept \in SUBSET (1..seq)
  BY DEF kept
<1>13. (1..seq) \ kept \subseteq {e \in Nat : e + Half <= seq'}
  BY <1>1, <1>8
<1> QED
  BY <1>1, <1>5, <1>10, <1>11, <1>12, <1>13, Zenon DEF F!Join, F!Old

(* A frame is one of those due, or repeats one that was sent.              *)
LEMMA YieldMaps == ASSUME IInv, NEW c \in Clients, Yield(c) PROVE F!Send(c) \/ UNCHANGED F!fvars
<1>1. UNCHANGED <<log, history, subs, posting, to, stage, last, buffer>> /\ seq' = seq
  BY Yielded
<1>2. PICK t, s, x :
        /\ t \in Nat /\ t > 0 /\ s \in Nat /\ x = todo[c][1]
        /\ DOMAIN sent[c] = 1..s /\ DOMAIN sent'[c] = 1..(s + 1)
        /\ \A i \in 1..s : sent'[c][i] = sent[c][i]
        /\ sent'[c][s + 1] = x
        /\ DOMAIN todo[c] = 1..t /\ DOMAIN todo'[c] = 1..(t - 1)
        /\ \A i \in 1..(t - 1) : todo'[c][i] = todo[c][i + 1]
  <2>1. PICK t, s, x : t = Len(todo[c]) /\ s = Len(sent[c]) /\ x = todo[c][1]
    OBVIOUS
  <2>2. /\ t \in Nat /\ t > 0 /\ s \in Nat
        /\ DOMAIN sent[c] = 1..s /\ DOMAIN sent'[c] = 1..(s + 1)
        /\ \A i \in 1..s : sent'[c][i] = sent[c][i]
        /\ sent'[c][s + 1] = x
    BY <2>1, Yielded
  <2>3. /\ DOMAIN todo[c] = 1..t /\ DOMAIN todo'[c] = 1..(t - 1)
        /\ \A i \in 1..(t - 1) : todo'[c][i] = todo[c][i + 1]
    BY <2>1, Yielded
  <2> QED
    BY <2>1, <2>2, <2>3, Zenon
<1>3. \A d \in Clients : d # c => sent'[d] = sent[d] /\ todo'[d] = todo[d]
  BY Yielded
<1>4. ASSUME NEW d \in Clients, d # c PROVE \A e : IsDue(d, e)' <=> IsDue(d, e)
  BY <1>1, <1>3, <1>4, OthersDue
<1>5. \A d \in Clients : Connected(d)' <=> Connected(d)
  BY <1>1 DEF Connected
<1>6. ASSUME NEW e PROVE IsDue(c, e)' <=> IsDue(c, e) /\ e # x
  <2>1. (\E i \in DOMAIN todo[c] : todo[c][i] = e) <=> e = x \/ \E i \in DOMAIN todo'[c] : todo'[c][i] = e
    <3>1. ASSUME NEW i \in 1..t, todo[c][i] = e, e # x PROVE \E j \in DOMAIN todo'[c] : todo'[c][j] = e
      <4>1. i - 1 \in 1..(t - 1) /\ (i - 1) + 1 = i
        BY <1>2, <3>1
      <4> QED
        BY <4>1, <1>2, <3>1
    <3>2. ASSUME NEW j \in 1..(t - 1), todo'[c][j] = e PROVE \E i \in DOMAIN todo[c] : todo[c][i] = e
      <4>1. j + 1 \in 1..t
        BY <1>2
      <4> QED
        BY <4>1, <1>2, <3>2
    <3>3. 1 \in DOMAIN todo[c]
      BY <1>2
    <3> QED
      BY <3>1, <3>2, <3>3, <1>2
  <2>2. Has(c, e) <=> Has(c, e)' \/ e = x
    BY <2>1, <1>1, Zenon DEF Has
  <2>3. (\E i \in 1..(s + 1) : sent'[c][i] = e) <=> e = x \/ \E i \in 1..s : sent[c][i] = e
    <3>1. \A i \in 1..(s + 1) : i = s + 1 \/ i \in 1..s
      BY <1>2
    <3>2. s + 1 \in 1..(s + 1) /\ \A i \in 1..s : i \in 1..(s + 1)
      BY <1>2
    <3>3. sent'[c][s + 1] = x /\ \A i \in 1..s : sent'[c][i] = sent[c][i]
      BY <1>2
    <3> QED
      BY <3>1, <3>2, <3>3, Zenon
  <2>4. Was(c, e)' <=> Was(c, e) \/ e = x
    BY <2>3, <1>2 DEF Was
  <2> QED
    BY <2>2, <2>4, <1>5 DEF IsDue
<1>7. CASE x \in Due[c]
  <2> DEFINE own == Due[c] \ {x}
  <2>1. \A e : IsDue(c, e)' <=> e \in own
    BY <1>6, DueIs
  <2> HIDE DEF own
  <2>2. Due' = [Due EXCEPT ![c] = own]
    BY <2>1, <1>4, OwnDue
  <2>3. Due' = [Due EXCEPT ![c] = Due[c] \ {x}]
    BY <2>2 DEF own
  <2>4. {d \in Clients : Connected(d)}' = {d \in Clients : Connected(d)}
    BY <1>5
  <2> QED
    BY <2>3, <2>4, <1>1, <1>7 DEF F!Send
<1>8. CASE x \notin Due[c]
  <2>1. \A e : IsDue(c, e)' <=> IsDue(c, e)
    BY <1>6, <1>8, DueIs
  <2>2. \A d \in Clients : \A e : IsDue(d, e)' <=> IsDue(d, e)
    BY <2>1, <1>4
  <2> QED
    BY <2>2, <1>1, <1>5, SameFeed
<1> QED
  BY <1>7, <1>8

(* Nothing is due to a connection that is gone.                            *)
LEMMA DisconnectMaps == ASSUME IInv, NEW c \in Clients, Disconnect(c) PROVE F!Leave(c)
<1>1. /\ stage[c] \in {"burst", "catchup", "live"} /\ stage' = [stage EXCEPT ![c] = "closed"]
      /\ todo' = [todo EXCEPT ![c] = <<>>]
      /\ UNCHANGED <<log, history, posting, to, last, buffer, sent>> /\ seq' = seq
  BY DEF Disconnect, seq
<1>2. stage'[c] = "closed" /\ \A d \in Clients : d # c => stage'[d] = stage[d] /\ todo'[d] = todo[d]
  BY <1>1 DEF IInv, Typed
<1>3. Connected(c) /\ ~Connected(c)'
  BY <1>1, <1>2 DEF Connected
<1>4. ASSUME NEW d \in Clients, d # c
      PROVE  (Connected(d)' <=> Connected(d)) /\ \A e : IsDue(d, e)' <=> IsDue(d, e)
  BY <1>1, <1>2, <1>4, OthersDue
<1>5. Due' = [Due EXCEPT ![c] = {}]
  <2>1. \A e : IsDue(c, e)' <=> e \in {}
    BY <1>3 DEF IsDue
  <2> QED
    BY <2>1, <1>4, OwnDue
<1>6. {d \in Clients : Connected(d)}' = {d \in Clients : Connected(d)} \ {c}
  BY <1>3, <1>4
<1> QED
  BY <1>1, <1>3, <1>5, <1>6 DEF F!Leave

(* Each step of the bus and its connections is a step of the feed, or      *)
(* changes nothing the feed speaks of.                                     *)
LEMMA StepImplements == IInv /\ IInv' /\ [Next]_vars => [F!Next]_F!fvars
<1> SUFFICES ASSUME IInv, IInv', [Next]_vars PROVE [F!Next]_F!fvars
  OBVIOUS
<1>1. ASSUME NEW p \in Publishers, Publish(p) PROVE F!Next
  BY <1>1, PublishMaps DEF F!Next
<1>2. ASSUME NEW p \in Publishers, Deliver(p) PROVE UNCHANGED F!fvars
  BY <1>2, DeliverStutters
<1>3. ASSUME NEW c \in Clients, Connect(c) PROVE F!Next
  BY <1>3, ConnectMaps DEF F!Next
<1>4. ASSUME NEW c \in Clients, Yield(c) PROVE F!Next \/ UNCHANGED F!fvars
  BY <1>4, YieldMaps DEF F!Next
<1>5. ASSUME NEW c \in Clients, Subscribe(c) \/ CatchUp(c) \/ Follow(c) \/ PopAll(c)
      PROVE  UNCHANGED F!fvars
  BY <1>5, ClientStutters
<1>6. ASSUME NEW c \in Clients, Disconnect(c) PROVE F!Next
  BY <1>6, DisconnectMaps DEF F!Next
<1>7. CASE UNCHANGED vars
  <2>1. UNCHANGED <<log, history, stage, todo, buffer, sent, last, to, posting>> /\ seq' = seq
    BY <1>7 DEF vars, bus, client, seq
  <2>2. \A c \in Clients : (Connected(c)' <=> Connected(c)) /\ \A e : IsDue(c, e)' <=> IsDue(c, e)
    BY <2>1, OthersDue
  <2> QED
    BY <2>1, <2>2, SameFeed
<1> QED
  BY <1>1, <1>2, <1>3, <1>4, <1>5, <1>6, <1>7 DEF Next, ClientStep

(* Whatever connections and publishers do, a client that follows misses an *)
(* event only after half a history of newer ones was published.            *)
THEOREM StreamImplementsFeed == Spec => ImplementsFeed
<1> QED
  BY FeedInit, StreamInvariant, StepImplements, PTL DEF Spec, ImplementsFeed, F!Spec

=============================================================================

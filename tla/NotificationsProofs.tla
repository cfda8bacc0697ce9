------------------------ MODULE NotificationsProofs -------------------------
(***************************************************************************)
(* Proofs about Notifications, for any number of users, streams,           *)
(* publishers and notifications.                                           *)
(*                                                                         *)
(* BusInv: Publish never sends on a channel that unsubscribe has closed.   *)
(* A closed channel is in no list; the lists do not change while a         *)
(* publisher holds the read lock; so what a publisher has left to do is    *)
(* still in the list it was read from.                                     *)
(*                                                                         *)
(* PushInv, on top of BusInv: what is pushed is stored.  Every publisher   *)
(* has a notification of its own, stored by the time it is published.      *)
(*                                                                         *)
(* OnceInv, on top of both: a stream gets each notification once.  The     *)
(* list Publish reads names each served stream of the user once, and what  *)
(* is on the way to a stream has not been given to it.                     *)
(***************************************************************************)
EXTENDS Notifications, SequenceTheorems, TLAPS

\* No channel is twice in a list.
Distinct(list) == \A i, j \in DOMAIN list : list[i] = list[j] => i = j

\* A stream that has subscribed and not yet unsubscribed.
Subscribed == {"loop", "write", "cancel"}

\* What is in the list of a user is an open channel of a stream of that user.
ListedIsOpen ==
    \A u \in Recipients, s \in Streams : In(subscribers[u], s) =>
        /\ stream[s].pc \in Subscribed
        /\ stream[s].user = u
        /\ ~chan[s].closed

ListsAreDistinct == \A u \in Recipients : Distinct(subscribers[u])

\* A channel is closed only by the handler that has returned.
ClosedIsDone == \A s \in Streams : chan[s].closed => stream[s].pc = "done"

\* Under the read lock: what is left to send to is still in the list.
LeftIsListed ==
    \A p \in Publishers : pub[p].pc = "send" =>
        \A s \in Streams : In(pub[p].left, s) => In(subscribers[pub[p].user], s)

\* What is being written or published is a notification; what is being stored
\* has an owner.
NotesAtHand ==
    /\ \A s \in Streams : stream[s].pc = "write" => stream[s].hand \in Notes
    /\ \A p \in Publishers : /\ pub[p].pc # "idle" => pub[p].note \in Notes
                             /\ pub[p].pc = "insert" => pub[p].user \in Users

Bus == ListedIsOpen /\ ListsAreDistinct /\ ClosedIsDone /\ LeftIsListed

\* The inductive invariant.
BusInv == NotificationsTypeOK /\ NotesAtHand /\ Bus

-----------------------------------------------------------------------------
\* Lemmas on lists.

LEMMA InAppend ==
    ASSUME NEW S, NEW list \in Seq(S), NEW s \in S
    PROVE  /\ Append(list, s) \in Seq(S)
           /\ \A t : In(Append(list, s), t) <=> In(list, t) \/ t = s
           /\ Distinct(list) /\ ~In(list, s) => Distinct(Append(list, s))
<1> DEFINE l == Append(list, s)
<1>1. /\ l \in Seq(S) /\ DOMAIN l = 1 .. Len(list) + 1 /\ DOMAIN list = 1 .. Len(list)
      /\ Len(list) \in Nat
      /\ l[Len(list) + 1] = s /\ \A i \in 1 .. Len(list) : l[i] = list[i]
  OBVIOUS
<1> HIDE DEF l
<1>2. ASSUME NEW t
      PROVE  In(l, t) <=> In(list, t) \/ t = s
  BY <1>1 DEF In
<1>3. ASSUME Distinct(list), ~In(list, s)
      PROVE  Distinct(l)
  BY <1>1, <1>3 DEF Distinct, In
<1> QED
  BY <1>1, <1>2, <1>3 DEF l

LEMMA InTail ==
    ASSUME NEW S, NEW list \in Seq(S), list # <<>>
    PROVE  /\ Head(list) \in S /\ In(list, Head(list))
           /\ Tail(list) \in Seq(S)
           /\ \A t : In(Tail(list), t) => In(list, t)
<1>1. /\ Len(list) \in Nat /\ Len(list) > 0 /\ DOMAIN list = 1 .. Len(list)
      /\ Head(list) = list[1] /\ Tail(list) \in Seq(S)
      /\ DOMAIN Tail(list) = 1 .. Len(list) - 1
      /\ \A i \in 1 .. Len(list) - 1 : Tail(list)[i] = list[i + 1]
  OBVIOUS
<1>2. Head(list) \in S /\ In(list, Head(list))
  BY <1>1 DEF In
<1>3. ASSUME NEW t, In(Tail(list), t)
      PROVE  In(list, t)
  <2>1. PICK i \in 1 .. Len(list) - 1 : Tail(list)[i] = t
    BY <1>1, <1>3 DEF In
  <2>2. i + 1 \in DOMAIN list /\ list[i + 1] = t
    BY <1>1, <2>1
  <2> QED
    BY <2>2 DEF In
<1> QED
  BY <1>1, <1>2, <1>3

\* append(subs[:i], subs[i+1:]...) takes the channel, and nothing else, out.
LEMMA InWithout ==
    ASSUME NEW S, NEW list \in Seq(S), NEW s, In(list, s), Distinct(list)
    PROVE  /\ Without(list, s) \in Seq(S)
           /\ \A t : In(Without(list, s), t) <=> In(list, t) /\ t # s
           /\ Distinct(Without(list, s))
<1> DEFINE i == IndexOf(list, s)
           n == Len(list)
           w == Without(list, s)
<1>1. n \in Nat /\ DOMAIN list = 1 .. n
  OBVIOUS
<1>2. i \in 1 .. n /\ list[i] = s
  BY <1>1 DEF In, IndexOf
<1>3. w = SubSeq(list, 1, i - 1) \o SubSeq(list, i + 1, n)
  BY DEF Without
<1> HIDE DEF i, w
<1> DEFINE a == SubSeq(list, 1, i - 1)
           b == SubSeq(list, i + 1, n)
<1>4. /\ a \in Seq(S) /\ Len(a) = i - 1
      /\ \A k \in 1 .. i - 1 : a[k] = list[k]
  <2>1. \A k \in 1 .. i - 1 : list[k] \in S
    BY <1>1, <1>2
  <2>2. /\ a \in Seq(S)
        /\ Len(a) = IF 1 <= i - 1 THEN (i - 1) - 1 + 1 ELSE 0
        /\ \A k \in 1 .. (i - 1) - 1 + 1 : a[k] = list[1 + k - 1]
    BY <1>1, <1>2, <2>1, SubSeqProperties
  <2> QED
    BY <1>1, <1>2, <2>2
<1>5. /\ b \in Seq(S) /\ Len(b) = n - i
      /\ \A k \in 1 .. n - i : b[k] = list[k + i]
  <2>1. \A k \in i + 1 .. n : list[k] \in S
    BY <1>1, <1>2
  <2>2. /\ b \in Seq(S)
        /\ Len(b) = IF i + 1 <= n THEN n - (i + 1) + 1 ELSE 0
        /\ \A k \in 1 .. n - (i + 1) + 1 : b[k] = list[(i + 1) + k - 1]
    BY <1>1, <1>2, <2>1, SubSeqProperties
  <2> HIDE DEF b
  <2>3. n - (i + 1) + 1 = n - i /\ \A k \in Int : (i + 1) + k - 1 = k + i
    BY <1>1, <1>2
  <2>4. Len(b) = n - i
    <3>1. CASE i + 1 <= n
      BY <1>1, <1>2, <2>2, <2>3, <3>1
    <3>2. CASE i = n
      BY <1>1, <1>2, <2>2, <3>2
    <3>3. i \in Nat /\ i <= n /\ n \in Nat
      BY <1>1, <1>2
    <3>4. i = n \/ i + 1 <= n
      <4> HIDE DEF n
      <4> QED
        BY <3>3
    <3> QED
      BY <3>1, <3>2, <3>4
  <2>5. ASSUME NEW k \in 1 .. n - i
        PROVE  b[k] = list[k + i]
    <3>1. k \in 1 .. n - (i + 1) + 1
      BY <2>3
    <3>2. b[k] = list[(i + 1) + k - 1]
      BY <2>2, <3>1
    <3>3. (i + 1) + k - 1 = k + i
      BY <1>2
    <3> QED
      BY <3>2, <3>3
  <2> QED
    BY <2>2, <2>4, <2>5
<1> HIDE DEF a, b
<1>6. /\ w \in Seq(S) /\ Len(w) = n - 1 /\ DOMAIN w = 1 .. n - 1
      /\ \A k \in 1 .. n - 1 : w[k] = IF k <= i - 1 THEN a[k] ELSE b[k - (i - 1)]
  <2>1. /\ w \in Seq(S) /\ Len(w) = (i - 1) + (n - i)
        /\ \A k \in 1 .. (i - 1) + (n - i) :
              w[k] = IF k <= i - 1 THEN a[k] ELSE b[k - (i - 1)]
    <3>1. w = a \o b
      BY <1>3 DEF a, b
    <3>2. /\ a \o b \in Seq(S)
          /\ Len(a \o b) = Len(a) + Len(b)
          /\ \A k \in 1 .. Len(a) + Len(b) :
                (a \o b)[k] = IF k <= Len(a) THEN a[k] ELSE b[k - Len(a)]
      BY <1>4, <1>5, ConcatProperties
    <3> QED
      BY <1>4, <1>5, <3>1, <3>2
  <2>2. (i - 1) + (n - i) = n - 1
    BY <1>1, <1>2
  <2> QED
    BY <2>1, <2>2
<1>7. ASSUME NEW k \in 1 .. n - 1
      PROVE  w[k] = IF k < i THEN list[k] ELSE list[k + 1]
  <2>1. CASE k < i
    BY <1>1, <1>2, <1>4, <1>6, <2>1
  <2>2. CASE ~(k < i)
    <3>1. k - (i - 1) \in 1 .. n - i /\ (k - (i - 1)) + i = k + 1 /\ ~(k <= i - 1)
      BY <1>1, <1>2, <2>2
    <3> QED
      BY <1>5, <1>6, <2>2, <3>1
  <2> QED
    BY <2>1, <2>2
<1>8. ASSUME NEW t
      PROVE  In(w, t) <=> In(list, t) /\ t # s
  <2>1. ASSUME In(w, t) PROVE In(list, t) /\ t # s
    <3>1. PICK k \in 1 .. n - 1 : w[k] = t
      BY <1>6, <2>1 DEF In
    <3>2. PICK m \in 1 .. n : m # i /\ list[m] = t
      BY <1>1, <1>2, <1>7, <3>1
    <3> QED
      BY <1>1, <1>2, <3>2 DEF In, Distinct
  <2>2. ASSUME In(list, t), t # s PROVE In(w, t)
    <3>1. PICK m \in 1 .. n : list[m] = t
      BY <1>1, <2>2 DEF In
    <3>2. m # i
      BY <1>2, <2>2, <3>1
    <3>3. CASE m < i
      <4>1. m \in 1 .. n - 1 /\ w[m] = t
        BY <1>1, <1>2, <1>7, <3>1, <3>3
      <4> QED
        BY <1>6, <4>1 DEF In
    <3>4. CASE m > i
      <4>1. m - 1 \in 1 .. n - 1 /\ ~(m - 1 < i) /\ (m - 1) + 1 = m
        BY <1>1, <1>2, <3>4
      <4>2. w[m - 1] = t
        BY <1>7, <3>1, <4>1
      <4> QED
        BY <1>6, <4>1, <4>2 DEF In
    <3> QED
      BY <1>1, <1>2, <3>2, <3>3, <3>4
  <2> QED
    BY <2>1, <2>2
<1>9. Distinct(w)
  <2> SUFFICES ASSUME NEW k \in 1 .. n - 1, NEW m \in 1 .. n - 1, w[k] = w[m]
               PROVE  k = m
    BY <1>6 DEF Distinct
  <2> DEFINE at(x) == IF x < i THEN x ELSE x + 1
  <2>1. w[k] = list[at(k)] /\ w[m] = list[at(m)]
    BY <1>7
  <2>2. at(k) \in 1 .. n /\ at(m) \in 1 .. n
    BY <1>1, <1>2
  <2>3. at(k) = at(m)
    BY <1>1, <2>1, <2>2 DEF Distinct
  <2> QED
    BY <1>1, <1>2, <2>3
<1> QED
  BY <1>6, <1>8, <1>9 DEF w

-----------------------------------------------------------------------------
\* A step that leaves the lists alone, closes nothing, keeps subscribed streams
\* subscribed and lets publishers only shorten what they have left, keeps Bus.
LEMMA BusKept ==
    ASSUME Bus,
           subscribers' = subscribers,
           \A s \in Streams : /\ chan'[s].closed = chan[s].closed
                              /\ stream[s].pc \in Subscribed =>
                                    /\ stream'[s].pc \in Subscribed
                                    /\ stream'[s].user = stream[s].user
                              /\ stream[s].pc = "done" => stream'[s].pc = "done",
           \A p \in Publishers : pub'[p].pc = "send" =>
               /\ pub[p].pc = "send" /\ pub'[p].user = pub[p].user
               /\ \A s \in Streams : In(pub'[p].left, s) => In(pub[p].left, s)
    PROVE  Bus'
<1>1. ListedIsOpen'
  BY DEF Bus, ListedIsOpen
<1>2. ListsAreDistinct'
  BY DEF Bus, ListsAreDistinct
<1>3. ClosedIsDone'
  BY DEF Bus, ClosedIsDone
<1>4. LeftIsListed'
  BY DEF Bus, LeftIsListed
<1> QED
  BY <1>1, <1>2, <1>3, <1>4 DEF Bus

\* The types of the records, for the steps below.
LEMMA RecordTypes ==
    ASSUME NotificationsTypeOK
    PROVE  /\ \A s \in Streams :
                 /\ stream[s] \in Stream /\ chan[s] \in [buf : Seq(Notes), closed : BOOLEAN]
                 /\ stream[s].user \in Recipients /\ stream[s].here \in BOOLEAN
                 /\ stream[s].got \in Seq(Notes) /\ stream[s].hand \in Notes \cup {0}
                 /\ chan[s].buf \in Seq(Notes) /\ chan[s].closed \in BOOLEAN
           /\ \A p \in Publishers :
                 /\ pub[p] \in Publisher
                 /\ pub[p].user \in Recipients /\ pub[p].note \in Notes \cup {0}
                 /\ pub[p].left \in Seq(Streams)
           /\ \A u \in Recipients : subscribers[u] \in Seq(Streams)
BY DEF NotificationsTypeOK, Stream, Publisher

LEMMA InitBusInv == NotificationsInit => BusInv
<1> SUFFICES ASSUME NotificationsInit
             PROVE  BusInv
  OBVIOUS
<1>1. NotificationsTypeOK
  <2>1. NoStream \in Stream
    BY DEF NoStream, Stream, Recipients
  <2>2. NoPublisher \in Publisher
    BY DEF NoPublisher, Publisher, Recipients
  <2>3. NewChannel \in [buf : Seq(Notes), closed : BOOLEAN]
    BY DEF NewChannel
  <2>4. MaxNotes \in Nat /\ MaxErrors \in Nat
    BY NotificationsAssumption
  <2> QED
    BY <2>1, <2>2, <2>3, <2>4 DEF NotificationsInit, NotificationsTypeOK
<1>2. NotesAtHand
  BY DEF NotificationsInit, NotesAtHand, NoStream, NoPublisher
<1>3. \A u \in Recipients : subscribers[u] = <<>>
  BY DEF NotificationsInit
<1>4. ListedIsOpen /\ ListsAreDistinct
  BY <1>3 DEF ListedIsOpen, ListsAreDistinct, In, Distinct
<1>5. ClosedIsDone /\ LeftIsListed
  BY DEF NotificationsInit, ClosedIsDone, LeftIsListed, NewChannel, NoPublisher
<1> QED
  BY <1>1, <1>2, <1>4, <1>5 DEF BusInv, Bus

\* Under the write lock nobody is sending.
LEMMA NobodySends ==
    ASSUME NoReaders, pub' = pub
    PROVE  LeftIsListed'
BY DEF NoReaders, LeftIsListed

LEMMA SubscribeStep ==
    ASSUME BusInv, NEW s \in Streams, NEW u \in Users, Subscribe(s, u)
    PROVE  BusInv'
<1>0. NotificationsTypeOK /\ NotesAtHand /\ Bus
  BY DEF BusInv
<1>1. /\ stream[s].pc = "idle"
      /\ table' = table /\ chan' = chan /\ pub' = pub /\ notes' = notes
      /\ missed' = missed /\ owed' = owed /\ unstored' = unstored /\ errors' = errors
  BY DEF Subscribe
<1>2. u \in Recipients
  BY DEF Recipients
<1>3. CASE "flush" \in StreamWriter
  <2> DEFINE new == [NoStream EXCEPT !.pc = "loop", !.user = u, !.here = TRUE]
  <2>1. /\ NoReaders
        /\ subscribers' = [subscribers EXCEPT ![u] = Append(subscribers[u], s)]
        /\ stream' = [stream EXCEPT ![s] = new]
    BY <1>3 DEF Subscribe
  <2>2. new \in Stream /\ new.pc = "loop" /\ new.user = u
    <3>1. NoStream \in Stream
      BY DEF NoStream, Stream, Recipients
    <3> QED
      BY <1>2, <3>1 DEF Stream
  <2> HIDE DEF new
  <2>3. /\ stream'[s] = new /\ \A t \in Streams : t # s => stream'[t] = stream[t]
        /\ subscribers'[u] = Append(subscribers[u], s)
        /\ \A v \in Recipients : v # u => subscribers'[v] = subscribers[v]
    BY <1>0, <1>2, <2>1 DEF NotificationsTypeOK
  <2>4. subscribers[u] \in Seq(Streams)
    BY <1>0, <1>2, RecordTypes
  <2>5. NotificationsTypeOK'
    <3>1. Append(subscribers[u], s) \in Seq(Streams)
      BY <2>4, InAppend
    <3>2. subscribers' \in [Recipients -> Seq(Streams)]
      BY <1>0, <1>2, <2>1, <3>1 DEF NotificationsTypeOK
    <3>3. stream' \in [Streams -> Stream]
      BY <1>0, <2>1, <2>2 DEF NotificationsTypeOK
    <3> QED
      BY <1>0, <1>1, <3>2, <3>3 DEF NotificationsTypeOK
  <2>6. NotesAtHand'
    BY <1>0, <1>1, <2>2, <2>3 DEF NotesAtHand
  <2>7. \A v \in Recipients : ~In(subscribers[v], s)
    BY <1>0, <1>1 DEF Bus, ListedIsOpen, Subscribed
  <2>8. \A t \in Streams : In(subscribers'[u], t) <=> In(subscribers[u], t) \/ t = s
    BY <2>3, <2>4, InAppend
  <2>9. ~chan[s].closed
    BY <1>0, <1>1 DEF Bus, ClosedIsDone
  <2>10. ListedIsOpen'
    <3> SUFFICES ASSUME NEW v \in Recipients, NEW t \in Streams, In(subscribers'[v], t)
                 PROVE  /\ stream'[t].pc \in Subscribed
                        /\ stream'[t].user = v
                        /\ ~chan[t].closed
      BY <1>1 DEF ListedIsOpen
    <3>1. CASE t = s
      <4>1. v = u
        BY <2>3, <2>7, <3>1
      <4> QED
        BY <2>2, <2>3, <2>9, <3>1, <4>1 DEF Subscribed
    <3>2. CASE t # s
      <4>1. In(subscribers[v], t)
        BY <2>3, <2>8, <3>2
      <4> QED
        BY <1>0, <2>3, <3>2, <4>1 DEF Bus, ListedIsOpen
    <3> QED
      BY <3>1, <3>2
  <2>11. ListsAreDistinct'
    <3>1. Distinct(subscribers'[u])
      BY <1>0, <1>2, <2>3, <2>4, <2>7, InAppend DEF Bus, ListsAreDistinct
    <3> QED
      BY <1>0, <2>3, <3>1 DEF Bus, ListsAreDistinct
  <2>12. ClosedIsDone'
    BY <1>0, <1>1, <2>3, <2>9 DEF Bus, ClosedIsDone
  <2>13. LeftIsListed'
    BY <1>1, <2>1, NobodySends
  <2> QED
    BY <2>5, <2>6, <2>10, <2>11, <2>12, <2>13 DEF BusInv, Bus
<1>4. CASE "flush" \notin StreamWriter
  <2>1. stream' = [stream EXCEPT ![s].pc = "refused"] /\ subscribers' = subscribers
    BY <1>4 DEF Subscribe
  <2>2. [stream[s] EXCEPT !.pc = "refused"] \in Stream
    BY <1>0, RecordTypes DEF Stream
  <2>3. /\ stream'[s] = [stream[s] EXCEPT !.pc = "refused"]
        /\ \A t \in Streams : t # s => stream'[t] = stream[t]
    BY <1>0, <2>1 DEF NotificationsTypeOK
  <2>4. stream'[s].pc = "refused"
    BY <1>0, <2>3, RecordTypes DEF Stream
  <2>5. NotificationsTypeOK'
    BY <1>0, <1>1, <2>1, <2>2 DEF NotificationsTypeOK
  <2>6. NotesAtHand'
    BY <1>0, <1>1, <2>3, <2>4 DEF NotesAtHand
  <2>7. Bus'
    <3>1. \A t \in Streams : /\ stream[t].pc \in Subscribed \/ stream[t].pc = "done"
                                    => stream'[t] = stream[t]
      BY <1>1, <2>3 DEF Subscribed
    <3> QED
      BY <1>0, <1>1, <2>1, <3>1, BusKept
  <2> QED
    BY <2>5, <2>6, <2>7 DEF BusInv
<1> QED
  BY <1>3, <1>4

LEMMA UnsubscribeStep ==
    ASSUME BusInv, NEW s \in Streams, Unsubscribe(s)
    PROVE  BusInv'
<1>0. NotificationsTypeOK /\ NotesAtHand /\ Bus
  BY DEF BusInv
<1>1. /\ stream[s].pc = "cancel" /\ NoReaders
      /\ stream' = [stream EXCEPT ![s].pc = "done"]
      /\ table' = table /\ pub' = pub /\ notes' = notes
      /\ missed' = missed /\ owed' = owed /\ unstored' = unstored /\ errors' = errors
  BY DEF Unsubscribe
<1>2. /\ stream'[s] = [stream[s] EXCEPT !.pc = "done"]
      /\ \A t \in Streams : t # s => stream'[t] = stream[t]
  BY <1>0, <1>1 DEF NotificationsTypeOK
<1>3. stream'[s] \in Stream /\ stream'[s].pc = "done"
  BY <1>0, <1>2, RecordTypes DEF Stream
<1>4. stream' \in [Streams -> Stream]
  BY <1>0, <1>1, <1>2, <1>3 DEF NotificationsTypeOK
<1>5. NotesAtHand'
  BY <1>0, <1>1, <1>2, <1>3 DEF NotesAtHand
<1>6. LeftIsListed'
  BY <1>1, NobodySends
<1>7. PICK u \in Recipients : u = stream[s].user
  BY <1>0, RecordTypes
<1>8. subscribers[u] \in Seq(Streams) /\ Distinct(subscribers[u])
  BY <1>0, RecordTypes DEF Bus, ListsAreDistinct
<1>9. \A v \in Recipients : v # u => ~In(subscribers[v], s)
  BY <1>0, <1>7 DEF Bus, ListedIsOpen
<1>10. CASE In(subscribers[u], s)
  <2> DEFINE closed == [buf |-> <<>>, closed |-> TRUE]
  <2>1. /\ subscribers' = [subscribers EXCEPT ![u] = Without(subscribers[u], s)]
        /\ chan' = [chan EXCEPT ![s] = closed]
    BY <1>7, <1>10 DEF Unsubscribe, RemoveAndClose
  <2>2. /\ Without(subscribers[u], s) \in Seq(Streams)
        /\ \A t : In(Without(subscribers[u], s), t) <=> In(subscribers[u], t) /\ t # s
        /\ Distinct(Without(subscribers[u], s))
    BY <1>8, <1>10, InWithout
  <2>3. /\ subscribers'[u] = Without(subscribers[u], s)
        /\ \A v \in Recipients : v # u => subscribers'[v] = subscribers[v]
        /\ \A t \in Streams : t # s => chan'[t] = chan[t]
    BY <1>0, <2>1 DEF NotificationsTypeOK
  <2>4. NotificationsTypeOK'
    <3>1. subscribers' \in [Recipients -> Seq(Streams)]
      BY <1>0, <2>1, <2>2 DEF NotificationsTypeOK
    <3>2. closed \in [buf : Seq(Notes), closed : BOOLEAN]
      OBVIOUS
    <3> HIDE DEF closed
    <3>3. chan' \in [Streams -> [buf : Seq(Notes), closed : BOOLEAN]]
      BY <1>0, <2>1, <3>2 DEF NotificationsTypeOK
    <3> QED
      BY <1>0, <1>1, <1>4, <3>1, <3>3 DEF NotificationsTypeOK
  <2>5. ASSUME NEW v \in Recipients, NEW t \in Streams, In(subscribers'[v], t)
        PROVE  t # s /\ In(subscribers[v], t)
    BY <1>9, <2>2, <2>3, <2>5
  <2>6. ListedIsOpen'
    BY <1>0, <1>2, <2>3, <2>5 DEF Bus, ListedIsOpen
  <2>7. ListsAreDistinct'
    BY <1>0, <2>2, <2>3 DEF Bus, ListsAreDistinct
  <2>8. ClosedIsDone'
    BY <1>0, <1>2, <1>3, <2>3 DEF Bus, ClosedIsDone
  <2> QED
    BY <1>5, <1>6, <2>4, <2>6, <2>7, <2>8 DEF BusInv, Bus
<1>11. CASE ~In(subscribers[u], s)
  <2>1. subscribers' = subscribers /\ chan' = chan
    BY <1>7, <1>11 DEF Unsubscribe
  <2>2. NotificationsTypeOK'
    BY <1>0, <1>1, <1>4, <2>1 DEF NotificationsTypeOK
  <2>3. ListedIsOpen'
    BY <1>0, <1>2, <1>9, <1>11, <2>1 DEF Bus, ListedIsOpen
  <2>4. ListsAreDistinct' /\ ClosedIsDone'
    BY <1>0, <1>2, <1>3, <2>1 DEF Bus, ListsAreDistinct, ClosedIsDone
  <2> QED
    BY <1>5, <1>6, <2>2, <2>3, <2>4 DEF BusInv, Bus
<1> QED
  BY <1>10, <1>11

\* The other steps of a stream: the lists and the publishers are left alone.
LEMMA StreamStep ==
    ASSUME BusInv, NEW s \in Streams,
           Receive(s) \/ Leave(s) \/ Flush(s) \/ StreamClientGone(s)
    PROVE  BusInv'
<1>0. NotificationsTypeOK /\ NotesAtHand /\ Bus
  BY DEF BusInv
<1>1. /\ table' = table /\ subscribers' = subscribers /\ pub' = pub
      /\ notes' = notes /\ unstored' = unstored /\ errors' = errors
  BY DEF Receive, Leave, Flush, StreamClientGone
<1>2. missed' \in [Streams -> SUBSET Notes] /\ owed' \in [Streams -> SUBSET Notes]
  BY <1>0 DEF Receive, Leave, Flush, StreamClientGone, NotificationsTypeOK
<1>3. /\ stream[s] \in Stream /\ chan[s] \in [buf : Seq(Notes), closed : BOOLEAN]
      /\ stream[s].got \in Seq(Notes) /\ chan[s].buf \in Seq(Notes)
  BY <1>0, RecordTypes
<1> DEFINE Fits(new) == /\ new \in Stream
                        /\ new.user = stream[s].user
                        /\ stream[s].pc \in Subscribed => new.pc \in Subscribed
                        /\ stream[s].pc = "done" => new.pc = "done"
                        /\ new.pc = "write" => new.hand \in Notes
<1>4. /\ Fits(stream'[s])
      /\ stream' \in [Streams -> Stream]
      /\ \A t \in Streams : t # s => stream'[t] = stream[t]
  <2>1. CASE Receive(s)
    <3>1. /\ stream[s].pc = "loop" /\ chan[s].buf # <<>>
          /\ stream' = [stream EXCEPT ![s] =
                          [stream[s] EXCEPT !.pc = "write", !.hand = Head(chan[s].buf)]]
      BY <2>1 DEF Receive
    <3>2. Head(chan[s].buf) \in Notes
      BY <1>3, <3>1, InTail
    <3>3. Fits([stream[s] EXCEPT !.pc = "write", !.hand = Head(chan[s].buf)])
      BY <1>3, <3>1, <3>2 DEF Stream, Subscribed
    <3> QED
      BY <1>0, <3>1, <3>3 DEF NotificationsTypeOK
  <2>2. CASE Leave(s)
    <3>1. stream[s].pc = "loop" /\ stream' = [stream EXCEPT ![s].pc = "cancel"]
      BY <2>2 DEF Leave
    <3>2. Fits([stream[s] EXCEPT !.pc = "cancel"])
      BY <1>3, <3>1 DEF Stream, Subscribed
    <3> QED
      BY <1>0, <3>1, <3>2 DEF NotificationsTypeOK
  <2>3. CASE Flush(s)
    <3> DEFINE more == Written(stream[s])
    <3>1. /\ stream[s].pc = "write"
          /\ stream' = [stream EXCEPT ![s] = [stream[s] EXCEPT !.pc = "loop", !.hand = 0,
                                                               !.got = more]]
      BY <2>3 DEF Flush
    <3>2. stream[s].hand \in Notes
      BY <1>0, <3>1 DEF NotesAtHand
    <3>3. more \in Seq(Notes)
      BY <1>3, <3>2, InAppend DEF Written
    <3> HIDE DEF more
    <3>4. Fits([stream[s] EXCEPT !.pc = "loop", !.hand = 0, !.got = more])
      BY <1>3, <3>1, <3>3 DEF Stream, Subscribed
    <3> QED
      BY <1>0, <3>1, <3>4 DEF NotificationsTypeOK
  <2>4. CASE StreamClientGone(s)
    <3>1. stream' = [stream EXCEPT ![s] = [stream[s] EXCEPT !.here = FALSE, !.got = <<>>]]
      BY <2>4 DEF StreamClientGone
    <3>2. stream[s].pc = "write" => stream[s].hand \in Notes
      BY <1>0 DEF NotesAtHand
    <3> DEFINE new == [stream[s] EXCEPT !.here = FALSE, !.got = <<>>]
    <3>3. Fits(new)
      <4>1. <<>> \in Seq(Notes)
        OBVIOUS
      <4>2. new \in Stream
        BY <1>3, <4>1 DEF Stream
      <4>3. new.user = stream[s].user /\ new.pc = stream[s].pc /\ new.hand = stream[s].hand
        BY <1>3 DEF Stream
      <4> HIDE DEF new
      <4> QED
        BY <3>2, <4>2, <4>3
    <3> QED
      BY <1>0, <3>1, <3>3 DEF NotificationsTypeOK
  <2> QED
    BY <2>1, <2>2, <2>3, <2>4
<1>5. /\ chan' \in [Streams -> [buf : Seq(Notes), closed : BOOLEAN]]
      /\ \A t \in Streams : chan'[t].closed = chan[t].closed
  <2>1. CASE Receive(s)
    <3>1. chan[s].buf # <<>> /\ chan' = [chan EXCEPT ![s].buf = Tail(chan[s].buf)]
      BY <2>1 DEF Receive
    <3>2. Tail(chan[s].buf) \in Seq(Notes)
      BY <1>3, <3>1, InTail
    <3> QED
      BY <1>0, <1>3, <3>1, <3>2 DEF NotificationsTypeOK
  <2>2. CASE Leave(s) \/ Flush(s) \/ StreamClientGone(s)
    <3>1. chan' = chan
      BY <2>2 DEF Leave, Flush, StreamClientGone
    <3> QED
      BY <1>0, <3>1 DEF NotificationsTypeOK
  <2> QED
    BY <2>1, <2>2
<1>6. NotificationsTypeOK'
  BY <1>0, <1>1, <1>2, <1>4, <1>5 DEF NotificationsTypeOK
<1>7. NotesAtHand'
  BY <1>0, <1>1, <1>4 DEF NotesAtHand
<1>8. Bus'
  BY <1>0, <1>1, <1>4, <1>5, BusKept
<1> QED
  BY <1>6, <1>7, <1>8 DEF BusInv

-----------------------------------------------------------------------------
\* The steps of a publisher.  What a step makes of pub[p], beside the types: the
\* lists, the streams and the table of a user are those of before.
LEMMA PublisherKept ==
    ASSUME BusInv, NEW p \in Publishers, NEW new \in Publisher,
           pub' = [pub EXCEPT ![p] = new],
           new.pc # "idle" => new.note \in Notes,
           new.pc = "insert" => new.user \in Users,
           subscribers' = subscribers, stream' = stream,
           \A s \in Streams : chan'[s].closed = chan[s].closed,
           new.pc = "send" =>
               /\ pub[p].pc = "send" /\ new.user = pub[p].user
               /\ \A s \in Streams : In(new.left, s) => In(pub[p].left, s)
    PROVE  NotesAtHand' /\ Bus' /\ pub' \in [Publishers -> Publisher]
<1>0. NotificationsTypeOK /\ NotesAtHand /\ Bus
  BY DEF BusInv
<1>1. pub'[p] = new /\ \A q \in Publishers : q # p => pub'[q] = pub[q]
  BY <1>0 DEF NotificationsTypeOK
<1>2. NotesAtHand'
  BY <1>0, <1>1 DEF NotesAtHand
<1>3. Bus'
  <2>1. \A q \in Publishers : pub'[q].pc = "send" =>
               /\ pub[q].pc = "send" /\ pub'[q].user = pub[q].user
               /\ \A s \in Streams : In(pub'[q].left, s) => In(pub[q].left, s)
    BY <1>1
  <2> QED
    BY <1>0, <2>1, BusKept
<1>4. pub' \in [Publishers -> Publisher]
  BY <1>0 DEF NotificationsTypeOK
<1> QED
  BY <1>2, <1>3, <1>4

LEMMA BeginStep ==
    ASSUME BusInv, NEW p \in Publishers,
           (\E u \in Users : Notify(p, u)) \/ NotifyAutoStop(p)
    PROVE  BusInv'
<1>0. NotificationsTypeOK
  BY DEF BusInv
<1>1. PICK u \in Recipients, pc \in {"insert", "publish"} :
          Begin(p, pc, u) /\ (pc = "insert" => u \in Users)
  BY DEF Notify, NotifyAutoStop, Recipients
<1> DEFINE new == [NoPublisher EXCEPT !.pc = pc, !.user = u, !.note = notes + 1]
<1>2. notes < MaxNotes /\ notes' = notes + 1 /\ pub' = [pub EXCEPT ![p] = new]
  BY <1>1 DEF Begin
<1>3. notes + 1 \in Notes /\ notes + 1 \in 0 .. MaxNotes
  BY <1>0, <1>2, NotificationsAssumption DEF NotificationsTypeOK, Notes
<1>4. /\ table' = table /\ subscribers' = subscribers /\ chan' = chan
      /\ stream' = stream /\ missed' = missed /\ owed' = owed /\ errors' = errors
  BY DEF Notify, NotifyAutoStop
<1>5. unstored' \subseteq Notes
  BY <1>0, <1>3 DEF Notify, NotifyAutoStop, NotificationsTypeOK
<1>6. /\ new \in Publisher /\ new.pc = pc /\ new.user = u /\ new.note = notes + 1
  <2>1. NoPublisher \in Publisher
    BY DEF NoPublisher, Publisher, Recipients
  <2> QED
    BY <1>3, <2>1 DEF Publisher
<1> HIDE DEF new
<1>7. NotesAtHand' /\ Bus' /\ pub' \in [Publishers -> Publisher]
  BY <1>1, <1>2, <1>3, <1>4, <1>6, PublisherKept
<1>8. NotificationsTypeOK'
  BY <1>0, <1>2, <1>3, <1>4, <1>5, <1>7 DEF NotificationsTypeOK
<1> QED
  BY <1>7, <1>8 DEF BusInv

LEMMA InsertStep ==
    ASSUME BusInv, NEW p \in Publishers, Insert(p) \/ InsertFails(p)
    PROVE  BusInv'
<1>0. NotificationsTypeOK /\ NotesAtHand
  BY DEF BusInv
<1> DEFINE new == [pub[p] EXCEPT !.pc = "publish"]
<1>1. /\ pub[p].pc = "insert" /\ pub' = [pub EXCEPT ![p] = new]
      /\ subscribers' = subscribers /\ chan' = chan /\ stream' = stream
      /\ notes' = notes /\ missed' = missed /\ owed' = owed
  BY DEF Insert, InsertFails, PubGoto
<1>2. pub[p] \in Publisher /\ pub[p].note \in Notes /\ pub[p].user \in Users
  BY <1>0, <1>1, RecordTypes DEF NotesAtHand
<1>3. new \in Publisher /\ new.pc = "publish" /\ new.note = pub[p].note
  BY <1>2 DEF Publisher
<1> HIDE DEF new
<1>4. NotesAtHand' /\ Bus' /\ pub' \in [Publishers -> Publisher]
  BY <1>1, <1>2, <1>3, PublisherKept
<1>5. table' \subseteq [note : Notes, user : Users, read : BOOLEAN]
  <2>1. CASE Insert(p)
    <3> DEFINE r == [note |-> pub[p].note, user |-> pub[p].user, read |-> FALSE]
    <3>1. r \in [note : Notes, user : Users, read : BOOLEAN]
      BY <1>2
    <3>2. table' = table \cup {r}
      BY <2>1 DEF Insert
    <3> HIDE DEF r
    <3> QED
      BY <1>0, <3>1, <3>2 DEF NotificationsTypeOK
  <2>2. CASE InsertFails(p)
    BY <1>0, <2>2 DEF InsertFails, NotificationsTypeOK
  <2> QED
    BY <2>1, <2>2
<1>6. unstored' \subseteq Notes /\ errors' \in 0 .. MaxErrors
  <2>1. CASE Insert(p)
    BY <1>0, <2>1 DEF Insert, NotificationsTypeOK
  <2>2. CASE InsertFails(p)
    BY <1>0, <1>2, <2>2, NotificationsAssumption DEF InsertFails, NotificationsTypeOK
  <2> QED
    BY <2>1, <2>2
<1>7. NotificationsTypeOK'
  BY <1>0, <1>1, <1>4, <1>5, <1>6 DEF NotificationsTypeOK
<1> QED
  BY <1>4, <1>7 DEF BusInv

LEMMA PublishStep ==
    ASSUME BusInv, NEW p \in Publishers, Publish(p)
    PROVE  BusInv'
<1>0. NotificationsTypeOK /\ NotesAtHand /\ Bus
  BY DEF BusInv
<1>1. PICK u \in Recipients : u = pub[p].user
  BY <1>0, RecordTypes
<1> DEFINE new == [pub[p] EXCEPT !.pc = "send", !.left = subscribers[u]]
<1>2. /\ pub[p].pc = "publish" /\ pub' = [pub EXCEPT ![p] = new]
      /\ table' = table /\ subscribers' = subscribers /\ chan' = chan
      /\ stream' = stream /\ notes' = notes /\ missed' = missed
      /\ unstored' = unstored /\ errors' = errors
  BY <1>1 DEF Publish
<1>3. pub[p] \in Publisher /\ pub[p].note \in Notes /\ subscribers[u] \in Seq(Streams)
  BY <1>0, <1>2, RecordTypes DEF NotesAtHand
<1>4. /\ new \in Publisher /\ new.pc = "send" /\ new.note = pub[p].note
      /\ new.user = u /\ new.left = subscribers[u]
  BY <1>1, <1>3 DEF Publisher
<1> HIDE DEF new
<1>5. /\ pub'[p] = new /\ \A q \in Publishers : q # p => pub'[q] = pub[q]
      /\ pub' \in [Publishers -> Publisher]
  BY <1>0, <1>2, <1>4 DEF NotificationsTypeOK
<1>6. owed' \in [Streams -> SUBSET Notes]
  <2>1. owed' = [s \in Streams |-> IF Listening(s, pub[p].user)
                                   THEN owed[s] \cup {pub[p].note} ELSE owed[s]]
    BY DEF Publish
  <2> QED
    BY <1>0, <1>3, <2>1 DEF NotificationsTypeOK
<1>7. NotificationsTypeOK'
  BY <1>0, <1>2, <1>5, <1>6 DEF NotificationsTypeOK
<1>8. NotesAtHand'
  BY <1>0, <1>2, <1>3, <1>4, <1>5 DEF NotesAtHand
<1>9. ListedIsOpen' /\ ListsAreDistinct' /\ ClosedIsDone'
  BY <1>0, <1>2 DEF Bus, ListedIsOpen, ListsAreDistinct, ClosedIsDone
<1>10. LeftIsListed'
  BY <1>0, <1>2, <1>4, <1>5 DEF Bus, LeftIsListed
<1> QED
  BY <1>7, <1>8, <1>9, <1>10 DEF BusInv, Bus

LEMMA SendStep ==
    ASSUME BusInv, NEW p \in Publishers, Send(p)
    PROVE  BusInv'
<1>0. NotificationsTypeOK /\ NotesAtHand
  BY DEF BusInv
<1> DEFINE new == [pub[p] EXCEPT !.left = Tail(pub[p].left)]
<1>1. /\ pub[p].pc = "send" /\ pub[p].left # <<>> /\ pub' = [pub EXCEPT ![p] = new]
      /\ table' = table /\ subscribers' = subscribers /\ stream' = stream
      /\ notes' = notes /\ owed' = owed /\ unstored' = unstored /\ errors' = errors
  BY DEF Send
<1>2. pub[p] \in Publisher /\ pub[p].note \in Notes /\ pub[p].left \in Seq(Streams)
  BY <1>0, <1>1, RecordTypes DEF NotesAtHand
<1>3. PICK s \in Streams : s = Head(pub[p].left)
  BY <1>1, <1>2, InTail
<1>4. /\ Tail(pub[p].left) \in Seq(Streams)
      /\ \A t : In(Tail(pub[p].left), t) => In(pub[p].left, t)
  BY <1>1, <1>2, InTail
<1>5. /\ new \in Publisher /\ new.pc = "send" /\ new.note = pub[p].note
      /\ new.user = pub[p].user /\ new.left = Tail(pub[p].left)
  BY <1>1, <1>2, <1>4 DEF Publisher
<1> HIDE DEF new
<1>6. /\ chan' \in [Streams -> [buf : Seq(Notes), closed : BOOLEAN]]
      /\ \A t \in Streams : chan'[t].closed = chan[t].closed
      /\ missed' \in [Streams -> SUBSET Notes]
  <2>1. CASE Len(chan[s].buf) < Capacity
    <3>1. /\ chan' = [chan EXCEPT ![s].buf = Append(chan[s].buf, pub[p].note)]
          /\ missed' = missed
      BY <1>3, <2>1 DEF Send
    <3>2. Append(chan[s].buf, pub[p].note) \in Seq(Notes)
      BY <1>0, <1>2, RecordTypes, InAppend
    <3> QED
      BY <1>0, <3>1, <3>2 DEF NotificationsTypeOK
  <2>2. CASE ~(Len(chan[s].buf) < Capacity)
    <3>1. /\ chan' = chan
          /\ missed' = [missed EXCEPT ![s] = IF stream[s].here
                                              THEN missed[s] \cup {pub[p].note}
                                              ELSE missed[s]]
      BY <1>3, <2>2 DEF Send
    <3> QED
      BY <1>0, <1>2, <3>1 DEF NotificationsTypeOK
  <2> QED
    BY <2>1, <2>2
<1>7. NotesAtHand' /\ Bus' /\ pub' \in [Publishers -> Publisher]
  BY <1>1, <1>2, <1>4, <1>5, <1>6, PublisherKept
<1>8. NotificationsTypeOK'
  BY <1>0, <1>1, <1>6, <1>7 DEF NotificationsTypeOK
<1> QED
  BY <1>7, <1>8 DEF BusInv

LEMMA PublishedStep ==
    ASSUME BusInv, NEW p \in Publishers, Published(p)
    PROVE  BusInv'
<1>0. NotificationsTypeOK
  BY DEF BusInv
<1>1. /\ pub' = [pub EXCEPT ![p] = NoPublisher]
      /\ table' = table /\ subscribers' = subscribers /\ chan' = chan
      /\ stream' = stream /\ notes' = notes /\ missed' = missed /\ owed' = owed
      /\ unstored' = unstored /\ errors' = errors
  BY DEF Published, PubReturn
<1>2. NoPublisher \in Publisher /\ NoPublisher.pc = "idle"
  BY DEF NoPublisher, Publisher, Recipients
<1>3. NotesAtHand' /\ Bus' /\ pub' \in [Publishers -> Publisher]
  BY <1>1, <1>2, PublisherKept
<1>4. NotificationsTypeOK'
  BY <1>0, <1>1, <1>3 DEF NotificationsTypeOK
<1> QED
  BY <1>3, <1>4 DEF BusInv

LEMMA MarkAllReadStep ==
    ASSUME BusInv, NEW u \in Users, MarkAllRead(u)
    PROVE  BusInv'
<1>0. NotificationsTypeOK /\ NotesAtHand /\ Bus
  BY DEF BusInv
<1>1. /\ table' = {IF r.user = u THEN [r EXCEPT !.read = TRUE] ELSE r : r \in table}
      /\ subscribers' = subscribers /\ chan' = chan /\ stream' = stream /\ pub' = pub
      /\ notes' = notes /\ missed' = missed /\ owed' = owed
      /\ unstored' = unstored /\ errors' = errors
  BY DEF MarkAllRead
<1>2. table' \subseteq [note : Notes, user : Users, read : BOOLEAN]
  BY <1>0, <1>1 DEF NotificationsTypeOK
<1>3. NotificationsTypeOK'
  BY <1>0, <1>1, <1>2 DEF NotificationsTypeOK
<1>4. NotesAtHand'
  BY <1>0, <1>1 DEF NotesAtHand
<1>5. Bus'
  BY <1>0, <1>1, BusKept
<1> QED
  BY <1>3, <1>4, <1>5 DEF BusInv

LEMMA NextBusInv == BusInv /\ [NotificationsNext]_notificationVars => BusInv'
<1> SUFFICES ASSUME BusInv, [NotificationsNext]_notificationVars
             PROVE  BusInv'
  OBVIOUS
<1>1. CASE \E s \in Streams, u \in Users : Subscribe(s, u)
  BY <1>1, SubscribeStep
<1>2. CASE \E s \in Streams : Unsubscribe(s)
  BY <1>2, UnsubscribeStep
<1>3. CASE \E s \in Streams : Receive(s) \/ Leave(s) \/ Flush(s) \/ StreamClientGone(s)
  BY <1>3, StreamStep
<1>4. CASE \E p \in Publishers : (\E u \in Users : Notify(p, u)) \/ NotifyAutoStop(p)
  BY <1>4, BeginStep
<1>5. CASE \E p \in Publishers : Insert(p) \/ InsertFails(p)
  BY <1>5, InsertStep
<1>6. CASE \E p \in Publishers : Publish(p)
  BY <1>6, PublishStep
<1>7. CASE \E p \in Publishers : Send(p)
  BY <1>7, SendStep
<1>8. CASE \E p \in Publishers : Published(p)
  BY <1>8, PublishedStep
<1>9. CASE \E u \in Users : MarkAllRead(u)
  BY <1>9, MarkAllReadStep
<1>10. CASE UNCHANGED notificationVars
  <2>1. /\ NotificationsTypeOK' /\ NotesAtHand'
    BY <1>10 DEF notificationVars, BusInv, NotificationsTypeOK, NotesAtHand
  <2>2. Bus'
    BY <1>10, BusKept DEF notificationVars, BusInv
  <2> QED
    BY <2>1, <2>2 DEF BusInv
<1> QED
  BY <1>1, <1>2, <1>3, <1>4, <1>5, <1>6, <1>7, <1>8, <1>9, <1>10
     DEF NotificationsNext, PublisherStep

(***************************************************************************)
(* The inductive invariant of the bus, its subscribers and its publishers, *)
(* holds in every reachable state.                                         *)
(***************************************************************************)
THEOREM BusInvariant == NotificationsSpec => []BusInv
BY InitBusInv, NextBusInv, PTL DEF NotificationsSpec

\* Type correctness of the bus: among the rest, every row has an owner.
THEOREM NotificationsTypeCorrect == NotificationsSpec => []NotificationsTypeOK
<1>1. BusInv => NotificationsTypeOK
  BY DEF BusInv
<1> QED
  BY <1>1, BusInvariant, PTL

\* Publish never sends on a channel that unsubscribe has closed: no interleaving
\* of streams that come and go with publishers panics.
THEOREM NeverSendsOnClosed == NotificationsSpec => []NoSendOnClosed
<1>1. ASSUME BusInv PROVE NoSendOnClosed
  <2> SUFFICES ASSUME NEW p \in Publishers, NEW s \in Streams,
                      pub[p].pc = "send", In(pub[p].left, s)
               PROVE  ~chan[s].closed
    BY DEF NoSendOnClosed
  <2>1. pub[p].user \in Recipients
    BY <1>1, RecordTypes DEF BusInv
  <2>2. In(subscribers[pub[p].user], s)
    BY <1>1 DEF BusInv, Bus, LeftIsListed
  <2> QED
    BY <1>1, <2>1, <2>2 DEF BusInv, Bus, ListedIsOpen
<1> QED
  BY <1>1, BusInvariant, PTL

-----------------------------------------------------------------------------
(***************************************************************************)
(* What is pushed is stored, and pushed once. BusInv holds before and      *)
(* after every step by BusInvariant; what is proved here rests on it.      *)
(***************************************************************************)
\* A stream that has no client is owed nothing; one that has not begun has an
\* empty channel; one that has subscribed is in the list of its user.
StreamInv ==
    \A s \in Streams :
        /\ ~stream[s].here => owed[s] = {} /\ missed[s] = {}
        /\ stream[s].pc = "idle" => ~stream[s].here /\ chan[s].buf = <<>>
        /\ stream[s].pc \in Subscribed => In(subscribers[stream[s].user], s)

\* Notification n is a row of user u, or its INSERT has failed.
Stored(rows, failed, n, u) == n \in failed \/ \E r \in rows : r.note = n /\ r.user = u

\* Every publisher has a notification of its own, which nobody is owed before it
\* is published, and which is stored by then.
PublisherInv ==
    /\ \A p \in Publishers :
          /\ pub[p].pc # "idle" => pub[p].note <= notes
          /\ pub[p].pc = "publish" => Stored(table, unstored, pub[p].note, pub[p].user)
          /\ pub[p].pc = "send" => Distinct(pub[p].left)
          /\ pub[p].pc \in {"insert", "publish"} =>
                \A s \in Streams : pub[p].note \notin owed[s]
    /\ \A p, q \in Publishers :
          pub[p].pc # "idle" /\ pub[q].pc # "idle" /\ p # q => pub[p].note # pub[q].note
    /\ \A s \in Streams : \A n \in owed[s] : n <= notes

PushInv == StreamInv /\ PublisherInv /\ PushedIsStored

LEMMA PushedDef ==
    PushedIsStored <=>
        \A s \in Streams : \A n \in owed[s] : Stored(table, unstored, n, stream[s].user)
BY DEF PushedIsStored, Stored

LEMMA DistinctTail ==
    ASSUME NEW S, NEW list \in Seq(S), list # <<>>, Distinct(list)
    PROVE  /\ Distinct(Tail(list)) /\ ~In(Tail(list), Head(list))
           /\ \A t : In(list, t) => t = Head(list) \/ In(Tail(list), t)
<1>1. /\ Len(list) \in Nat /\ Len(list) > 0 /\ DOMAIN list = 1 .. Len(list)
      /\ Head(list) = list[1]
      /\ DOMAIN Tail(list) = 1 .. Len(list) - 1
      /\ \A i \in 1 .. Len(list) - 1 : Tail(list)[i] = list[i + 1]
  OBVIOUS
<1>2. \A i \in 1 .. Len(list) - 1 : i + 1 \in 1 .. Len(list) /\ i + 1 # 1
  BY <1>1
<1>3. Distinct(Tail(list))
  BY <1>1, <1>2 DEF Distinct
<1>4. ~In(Tail(list), Head(list))
  <2> SUFFICES ASSUME NEW i \in 1 .. Len(list) - 1, Tail(list)[i] = list[1] PROVE FALSE
    BY <1>1 DEF In
  <2>1. 1 \in 1 .. Len(list)
    BY <1>1
  <2> QED
    BY <1>1, <1>2, <2>1 DEF Distinct
<1>5. ASSUME NEW t, In(list, t), t # Head(list) PROVE In(Tail(list), t)
  <2>1. PICK i \in 1 .. Len(list) : list[i] = t
    BY <1>1, <1>5 DEF In
  <2>2. i - 1 \in 1 .. Len(list) - 1 /\ (i - 1) + 1 = i
    BY <1>1, <1>5, <2>1
  <2>3. Tail(list)[i - 1] = t
    BY <1>1, <2>1, <2>2
  <2> QED
    BY <1>1, <2>2, <2>3 DEF In
<1> QED
  BY <1>3, <1>4, <1>5

\* The first request of a stream: refused, or on the list of its user.
LEMMA SubscribeFields ==
    ASSUME BusInv, NEW s \in Streams, NEW u \in Users, Subscribe(s, u)
    PROVE  /\ stream[s].pc = "idle"
           /\ UNCHANGED <<table, chan, pub, notes, missed, owed, unstored>>
           /\ \A t \in Streams : t # s => stream'[t] = stream[t]
           /\ \/ /\ NoReaders
                 /\ stream'[s].pc = "loop" /\ stream'[s].user = u /\ stream'[s].here
                 /\ stream'[s].got = <<>>
                 /\ \A v \in Recipients, t \in Streams :
                       In(subscribers'[v], t) <=> In(subscribers[v], t) \/ (v = u /\ t = s)
              \/ /\ stream'[s].pc = "refused" /\ stream'[s].user = stream[s].user
                 /\ stream'[s].here = stream[s].here
                 /\ subscribers' = subscribers
<1>0. NotificationsTypeOK /\ u \in Recipients
  BY DEF BusInv, Recipients
<1>1. /\ stream[s].pc = "idle"
      /\ UNCHANGED <<table, chan, pub, notes, missed, owed, unstored>>
  BY DEF Subscribe
<1>2. CASE "flush" \in StreamWriter
  <2> PICK new : new = [NoStream EXCEPT !.pc = "loop", !.user = u, !.here = TRUE]
    OBVIOUS
  <2>1. /\ NoReaders
        /\ subscribers' = [subscribers EXCEPT ![u] = Append(subscribers[u], s)]
        /\ stream' = [stream EXCEPT ![s] = new]
    BY <1>2 DEF Subscribe
  <2>2. new.pc = "loop" /\ new.user = u /\ new.here /\ new.got = <<>>
    BY DEF NoStream
  <2>3. /\ stream'[s] = new /\ \A t \in Streams : t # s => stream'[t] = stream[t]
        /\ subscribers'[u] = Append(subscribers[u], s)
        /\ \A v \in Recipients : v # u => subscribers'[v] = subscribers[v]
        /\ subscribers[u] \in Seq(Streams)
    BY <1>0, <2>1 DEF NotificationsTypeOK
  <2>4. \A t : In(subscribers'[u], t) <=> In(subscribers[u], t) \/ t = s
    BY <2>3, InAppend
  <2> QED
    BY <1>1, <2>1, <2>2, <2>3, <2>4
<1>3. CASE "flush" \notin StreamWriter
  <2>1. stream' = [stream EXCEPT ![s].pc = "refused"] /\ subscribers' = subscribers
    BY <1>3 DEF Subscribe
  <2>2. stream \in [Streams -> Stream] /\ stream[s] \in Stream
    BY <1>0 DEF NotificationsTypeOK
  <2>3. /\ stream'[s] = [stream[s] EXCEPT !.pc = "refused"]
        /\ \A t \in Streams : t # s => stream'[t] = stream[t]
    BY <2>1, <2>2
  <2>4. /\ stream'[s].pc = "refused" /\ stream'[s].user = stream[s].user
        /\ stream'[s].here = stream[s].here
    BY <2>2, <2>3 DEF Stream
  <2> QED
    BY <1>1, <2>1, <2>3, <2>4
<1> QED
  BY <1>2, <1>3

LEMMA UnsubscribeFields ==
    ASSUME BusInv, NEW s \in Streams, Unsubscribe(s)
    PROVE  /\ stream[s].pc = "cancel" /\ stream'[s].pc = "done"
           /\ stream'[s].here = stream[s].here /\ stream'[s].user = stream[s].user
           /\ UNCHANGED <<table, pub, notes, missed, owed, unstored>>
           /\ \A t \in Streams : t # s => stream'[t] = stream[t] /\ chan'[t] = chan[t]
           /\ \A v \in Recipients, t \in Streams :
                 In(subscribers[v], t) /\ t # s => In(subscribers'[v], t)
<1>0. NotificationsTypeOK /\ Bus /\ stream[s] \in Stream /\ stream[s].user \in Recipients
  BY RecordTypes DEF BusInv
<1>1. /\ stream[s].pc = "cancel" /\ stream' = [stream EXCEPT ![s].pc = "done"]
      /\ UNCHANGED <<table, pub, notes, missed, owed, unstored>>
  BY DEF Unsubscribe
<1>2. /\ stream'[s] = [stream[s] EXCEPT !.pc = "done"]
      /\ \A t \in Streams : t # s => stream'[t] = stream[t]
  BY <1>0, <1>1 DEF NotificationsTypeOK
<1>3. /\ stream'[s].pc = "done" /\ stream'[s].user = stream[s].user
      /\ stream'[s].here = stream[s].here
  BY <1>0, <1>2 DEF Stream
<1>4. PICK u \in Recipients : u = stream[s].user
  BY <1>0
<1>5. CASE In(subscribers[u], s)
  <2>1. /\ subscribers' = [subscribers EXCEPT ![u] = Without(subscribers[u], s)]
        /\ \A t \in Streams : t # s => chan'[t] = chan[t]
    BY <1>0, <1>4, <1>5 DEF Unsubscribe, RemoveAndClose, NotificationsTypeOK
  <2>2. /\ subscribers'[u] = Without(subscribers[u], s)
        /\ \A v \in Recipients : v # u => subscribers'[v] = subscribers[v]
    BY <1>0, <2>1 DEF NotificationsTypeOK
  <2>3. \A t : In(Without(subscribers[u], s), t) <=> In(subscribers[u], t) /\ t # s
    BY <1>0, <1>5, RecordTypes, InWithout DEF Bus, ListsAreDistinct
  <2> QED
    BY <1>1, <1>2, <1>3, <2>1, <2>2, <2>3
<1>6. CASE ~In(subscribers[u], s)
  <2>1. subscribers' = subscribers /\ chan' = chan
    BY <1>4, <1>6 DEF Unsubscribe
  <2> QED
    BY <1>1, <1>2, <1>3, <2>1
<1> QED
  BY <1>5, <1>6

\* Where a notification is on its way through a stream does not change what the
\* stream was given, nor in which order.
LEMMA ReceiveConcat ==
    ASSUME NEW S, NEW a \in Seq(S), NEW b \in Seq(S), b # <<>>
    PROVE  (a \o <<>>) \o b = (a \o <<Head(b)>>) \o Tail(b)
<1>1. PICK h \in Seq(S) : h = <<Head(b)>>
  <2>1. Head(b) \in S
    BY HeadTailProperties
  <2>2. <<Head(b)>> \in Seq(S)
    BY <2>1
  <2> QED
    BY <2>2
<1>2. PICK t \in Seq(S) : t = Tail(b)
  BY HeadTailProperties
<1>3. /\ Len(h) = 1 /\ h[1] = b[1] /\ Len(b) \in Nat /\ Len(t) = Len(b) - 1 /\ Len(b) > 0
      /\ \A i \in 1 .. Len(b) - 1 : t[i] = b[i + 1]
  BY <1>1, <1>2
<1>4. h \o t = b
  <2> PICK c : c = h \o t
    OBVIOUS
  <2>1. /\ c \in Seq(S) /\ Len(c) = Len(h) + Len(t)
        /\ \A i \in 1 .. Len(h) + Len(t) : c[i] =
               IF i <= Len(h) THEN h[i] ELSE t[i - Len(h)]
    BY ConcatProperties
  <2>2. Len(c) = Len(b)
    BY <1>3, <2>1
  <2>3. ASSUME NEW i \in 1 .. Len(b) PROVE c[i] = b[i]
    <3>1. CASE i = 1
      BY <1>3, <2>1, <3>1
    <3>2. CASE i # 1
      <4>1. i - 1 \in 1 .. Len(b) - 1 /\ ~(i <= 1) /\ (i - 1) + 1 = i
        BY <1>3, <3>2
      <4>2. c[i] = t[i - 1]
        BY <1>3, <2>1, <4>1
      <4> QED
        BY <1>3, <4>1, <4>2
    <3> QED
      BY <3>1, <3>2
  <2> QED
    BY <2>1, <2>2, <2>3, SeqEqual
<1>5. (a \o h) \o t = a \o (h \o t)
  BY ConcatAssociative
<1>6. a \o <<>> = a
  BY ConcatEmptySeq
<1> QED
  BY <1>1, <1>2, <1>4, <1>5, <1>6

LEMMA FlushConcat ==
    ASSUME NEW S, NEW a \in Seq(S), NEW h \in S, NEW b \in Seq(S)
    PROVE  (a \o <<h>>) \o b = (Append(a, h) \o <<>>) \o b
<1>1. a \o <<h>> = Append(a, h)
  BY AppendIsConcat
<1>2. Append(a, h) \in Seq(S)
  OBVIOUS
<1>3. Append(a, h) \o <<>> = Append(a, h)
  BY <1>2, ConcatEmptySeq
<1> QED
  BY <1>1, <1>3

LEMMA SendConcat ==
    ASSUME NEW S, NEW a \in Seq(S), NEW b \in Seq(S), NEW n \in S
    PROVE  a \o Append(b, n) = Append(a \o b, n)
<1>1. <<n>> \in Seq(S) /\ a \o b \in Seq(S)
  BY ConcatProperties
<1>2. Append(b, n) = b \o <<n>> /\ Append(a \o b, n) = (a \o b) \o <<n>>
  BY <1>1, AppendIsConcat
<1>3. (a \o b) \o <<n>> = a \o (b \o <<n>>)
  BY <1>1, ConcatAssociative
<1> QED
  BY <1>2, <1>3

\* What a stream was given, by the place of its handler.
LEMMA GivenDef ==
    ASSUME BusInv, NEW s \in Streams
    PROVE  /\ Given(s) \in Seq(Notes)
           /\ stream[s].pc = "write" =>
                 /\ Given(s) = (stream[s].got \o <<stream[s].hand>>) \o chan[s].buf
                 /\ stream[s].hand \in Notes
                 /\ stream[s].got \o <<stream[s].hand>> \in Seq(Notes)
           /\ stream[s].pc # "write" =>
                 /\ Given(s) = (stream[s].got \o <<>>) \o chan[s].buf
                 /\ stream[s].got \o <<>> \in Seq(Notes)
<1>1. /\ stream[s].got \in Seq(Notes) /\ chan[s].buf \in Seq(Notes)
      /\ stream[s].pc = "write" => stream[s].hand \in Notes
  BY RecordTypes DEF BusInv, NotesAtHand
<1>2. CASE stream[s].pc = "write"
  <2>1. Given(s) = (stream[s].got \o <<stream[s].hand>>) \o chan[s].buf
    BY <1>2 DEF Given
  <2>2. <<stream[s].hand>> \in Seq(Notes)
    BY <1>1, <1>2
  <2>3. stream[s].got \o <<stream[s].hand>> \in Seq(Notes)
    BY <1>1, <2>2, ConcatProperties
  <2>4. Given(s) \in Seq(Notes)
    BY <1>1, <2>1, <2>3, ConcatProperties
  <2> QED
    BY <1>1, <1>2, <2>1, <2>3, <2>4
<1>3. CASE stream[s].pc # "write"
  <2>1. Given(s) = (stream[s].got \o <<>>) \o chan[s].buf
    BY <1>3 DEF Given
  <2>2. stream[s].got \o <<>> \in Seq(Notes)
    BY <1>1, ConcatProperties
  <2>3. Given(s) \in Seq(Notes)
    BY <1>1, <2>1, <2>2, ConcatProperties
  <2> QED
    BY <1>3, <2>1, <2>2, <2>3
<1> QED
  BY <1>2, <1>3

\* The other steps of a stream, for the stream itself.
Moves(s) ==
    /\ stream'[s].user = stream[s].user
    /\ stream'[s].pc = stream[s].pc
         \/ (stream[s].pc \in Subscribed /\ stream'[s].pc \in Subscribed)
    /\ stream'[s].pc = "idle" => chan'[s] = chan[s]
    /\ stream'[s].here =>
         /\ stream[s].here /\ owed'[s] = owed[s] /\ missed'[s] = missed[s]
         /\ Listening(s, stream[s].user)' =>
               Listening(s, stream[s].user) /\ Given(s)' = Given(s)
    /\ ~stream'[s].here => \/ owed'[s] = {} /\ missed'[s] = {}
                           \/ /\ ~stream[s].here
                              /\ owed'[s] = owed[s] /\ missed'[s] = missed[s]

LEMMA StreamFields ==
    ASSUME BusInv, BusInv', NEW s \in Streams,
           Receive(s) \/ Leave(s) \/ Flush(s) \/ StreamClientGone(s)
    PROVE  /\ UNCHANGED <<table, subscribers, pub, notes, unstored>>
           /\ \A t \in Streams : t # s =>
                 /\ stream'[t] = stream[t] /\ chan'[t] = chan[t]
                 /\ owed'[t] = owed[t] /\ missed'[t] = missed[t]
           /\ Moves(s)
<1>0. NotificationsTypeOK
  BY DEF BusInv
<1>1. UNCHANGED <<table, subscribers, pub, notes, unstored>>
  BY DEF Receive, Leave, Flush, StreamClientGone
<1>2. /\ stream[s] \in Stream /\ chan[s] \in [buf : Seq(Notes), closed : BOOLEAN]
      /\ stream[s].got \in Seq(Notes) /\ chan[s].buf \in Seq(Notes)
      /\ stream \in [Streams -> Stream]
      /\ chan \in [Streams -> [buf : Seq(Notes), closed : BOOLEAN]]
      /\ owed \in [Streams -> SUBSET Notes] /\ missed \in [Streams -> SUBSET Notes]
  BY <1>0, RecordTypes DEF NotificationsTypeOK
<1> DEFINE Frame == \A t \in Streams : t # s =>
                      /\ stream'[t] = stream[t] /\ chan'[t] = chan[t]
                      /\ owed'[t] = owed[t] /\ missed'[t] = missed[t]
<1>3. CASE Receive(s)
  <2>1. /\ stream[s].pc = "loop" /\ chan[s].buf # <<>>
        /\ stream' = [stream EXCEPT ![s] =
                        [stream[s] EXCEPT !.pc = "write", !.hand = Head(chan[s].buf)]]
        /\ chan' = [chan EXCEPT ![s].buf = Tail(chan[s].buf)]
        /\ owed' = owed /\ missed' = missed
    BY <1>3 DEF Receive
  <2>2. PICK new : new = [stream[s] EXCEPT !.pc = "write", !.hand = Head(chan[s].buf)]
    OBVIOUS
  <2>3. /\ new.pc = "write" /\ new.hand = Head(chan[s].buf) /\ new.user = stream[s].user
        /\ new.got = stream[s].got /\ new.here = stream[s].here
    BY <1>2, <2>2 DEF Stream
  <2>4. stream'[s] = new /\ chan'[s].buf = Tail(chan[s].buf) /\ Frame
    BY <1>2, <2>1, <2>2
  <2>5. Given(s)' = (stream[s].got \o <<Head(chan[s].buf)>>) \o Tail(chan[s].buf)
    BY <2>3, <2>4 DEF Given
  <2>6. Given(s) = (stream[s].got \o <<>>) \o chan[s].buf
    BY <2>1, GivenDef
  <2>7. Given(s)' = Given(s)
    <3>1. PICK a \in Seq(Notes) : a = stream[s].got
      BY <1>2
    <3>2. PICK b \in Seq(Notes) : b = chan[s].buf /\ b # <<>>
      BY <1>2, <2>1
    <3>3. (a \o <<>>) \o b = (a \o <<Head(b)>>) \o Tail(b)
      BY <3>2, ReceiveConcat
    <3> QED
      BY <2>5, <2>6, <3>1, <3>2, <3>3
  <2>8. Moves(s)
    BY <2>1, <2>3, <2>4, <2>7 DEF Moves, Subscribed, Listening
  <2> QED
    BY <1>1, <2>4, <2>8
<1>4. CASE Leave(s)
  <2>1. /\ stream[s].pc = "loop" /\ ~stream[s].here
        /\ stream' = [stream EXCEPT ![s].pc = "cancel"]
        /\ chan' = chan /\ owed' = owed /\ missed' = missed
    BY <1>4 DEF Leave
  <2>2. stream'[s] = [stream[s] EXCEPT !.pc = "cancel"] /\ Frame
    BY <1>2, <2>1
  <2>3. /\ stream'[s].pc = "cancel" /\ stream'[s].user = stream[s].user
        /\ stream'[s].here = stream[s].here
    BY <1>2, <2>2 DEF Stream
  <2>4. Moves(s)
    BY <2>1, <2>3 DEF Moves, Subscribed, Listening
  <2> QED
    BY <1>1, <2>2, <2>4
<1>5. CASE Flush(s)
  <2>1. /\ stream[s].pc = "write"
        /\ stream' = [stream EXCEPT ![s] = [stream[s] EXCEPT !.pc = "loop", !.hand = 0,
                                              !.got = Written(stream[s])]]
        /\ chan' = chan /\ owed' = owed /\ missed' = missed
    BY <1>5 DEF Flush
  <2>2. PICK more : more = Written(stream[s])
    OBVIOUS
  <2>3. PICK new : new = [stream[s] EXCEPT !.pc = "loop", !.hand = 0, !.got = more]
    OBVIOUS
  <2>4. /\ new.pc = "loop" /\ new.user = stream[s].user
        /\ new.got = more /\ new.here = stream[s].here
    BY <1>2, <2>3 DEF Stream
  <2>5. stream'[s] = new /\ Frame
    BY <1>2, <2>1, <2>2, <2>3
  <2>6. ASSUME stream[s].here PROVE Given(s)' = Given(s)
    <3>1. more = Append(stream[s].got, stream[s].hand)
      BY <2>2, <2>6 DEF Written
    <3>2. Given(s)' = (more \o <<>>) \o chan[s].buf
      BY <2>1, <2>4, <2>5 DEF Given
    <3>3. /\ Given(s) = (stream[s].got \o <<stream[s].hand>>) \o chan[s].buf
          /\ stream[s].hand \in Notes
      BY <2>1, GivenDef
    <3> QED
      BY <1>2, <3>1, <3>2, <3>3, FlushConcat
  <2>7. Moves(s)
    BY <2>1, <2>4, <2>5, <2>6 DEF Moves, Subscribed, Listening
  <2> QED
    BY <1>1, <2>5, <2>7
<1>6. CASE StreamClientGone(s)
  <2>1. /\ stream' = [stream EXCEPT ![s] = [stream[s] EXCEPT !.here = FALSE, !.got = <<>>]]
        /\ missed' = [missed EXCEPT ![s] = {}] /\ owed' = [owed EXCEPT ![s] = {}]
        /\ chan' = chan
    BY <1>6 DEF StreamClientGone
  <2>2. PICK new : new = [stream[s] EXCEPT !.here = FALSE, !.got = <<>>]
    OBVIOUS
  <2>3. new.pc = stream[s].pc /\ new.user = stream[s].user /\ ~new.here
    BY <1>2, <2>2 DEF Stream
  <2>4. stream'[s] = new /\ owed'[s] = {} /\ missed'[s] = {} /\ Frame
    BY <1>2, <2>1, <2>2
  <2>5. Moves(s)
    BY <2>1, <2>3, <2>4 DEF Moves
  <2> QED
    BY <1>1, <2>4, <2>5
<1> QED
  BY <1>3, <1>4, <1>5, <1>6

\* The steps of a publisher, for the publisher itself.
OtherPublishers(p) == \A q \in Publishers : q # p => pub'[q] = pub[q]

LEMMA BeginFields ==
    ASSUME BusInv, NEW p \in Publishers,
           (\E u \in Users : Notify(p, u)) \/ NotifyAutoStop(p)
    PROVE  /\ UNCHANGED <<table, subscribers, chan, stream, missed, owed>>
           /\ notes' = notes + 1 /\ unstored \subseteq unstored'
           /\ OtherPublishers(p)
           /\ pub[p].pc = "idle" /\ pub'[p].pc \in {"insert", "publish"}
           /\ pub'[p].note = notes + 1
           /\ pub'[p].pc = "publish" => notes + 1 \in unstored'
<1>1. PICK u \in Recipients, pc \in {"insert", "publish"} :
          Begin(p, pc, u) /\ (pc = "publish" => notes + 1 \in unstored')
  BY DEF Notify, NotifyAutoStop, Recipients
<1>2. /\ UNCHANGED <<table, subscribers, chan, stream, missed, owed>>
      /\ unstored \subseteq unstored'
  BY DEF Notify, NotifyAutoStop
<1>3. PICK new : new = [NoPublisher EXCEPT !.pc = pc, !.user = u, !.note = notes + 1]
  OBVIOUS
<1>4. new.pc = pc /\ new.note = notes + 1
  BY <1>3 DEF NoPublisher
<1>5. notes' = notes + 1 /\ pub[p].pc = "idle" /\ pub' = [pub EXCEPT ![p] = new]
  BY <1>1, <1>3 DEF Begin
<1>6. pub'[p] = new /\ OtherPublishers(p)
  BY <1>5 DEF BusInv, NotificationsTypeOK, OtherPublishers
<1> QED
  BY <1>1, <1>2, <1>4, <1>5, <1>6

LEMMA InsertFields ==
    ASSUME BusInv, NEW p \in Publishers, Insert(p) \/ InsertFails(p)
    PROVE  /\ UNCHANGED <<subscribers, chan, stream, missed, owed, notes>>
           /\ unstored \subseteq unstored' /\ table \subseteq table'
           /\ OtherPublishers(p)
           /\ pub[p].pc = "insert" /\ pub'[p].pc = "publish"
           /\ pub'[p].note = pub[p].note /\ pub'[p].user = pub[p].user
           /\ \/ pub[p].note \in unstored'
              \/ \E r \in table' : r.note = pub[p].note /\ r.user = pub[p].user
<1>1. pub[p] \in Publisher /\ pub \in [Publishers -> Publisher]
  BY DEF BusInv, NotificationsTypeOK
<1>2. /\ UNCHANGED <<subscribers, chan, stream, missed, owed, notes>>
      /\ unstored \subseteq unstored' /\ table \subseteq table'
      /\ pub[p].pc = "insert" /\ PubGoto(p, "publish")
  BY DEF Insert, InsertFails
<1>3. PICK new : new = [pub[p] EXCEPT !.pc = "publish"]
  OBVIOUS
<1>4. new.pc = "publish" /\ new.note = pub[p].note /\ new.user = pub[p].user
  BY <1>1, <1>3 DEF Publisher
<1>5. pub'[p] = new /\ OtherPublishers(p)
  BY <1>1, <1>2, <1>3 DEF PubGoto, OtherPublishers
<1>6. \/ pub[p].note \in unstored'
      \/ \E r \in table' : r.note = pub[p].note /\ r.user = pub[p].user
  <2>1. CASE Insert(p)
    <3>1. PICK r : r = [note |-> pub[p].note, user |-> pub[p].user, read |-> FALSE]
      OBVIOUS
    <3>2. r \in table' /\ r.note = pub[p].note /\ r.user = pub[p].user
      BY <2>1, <3>1 DEF Insert
    <3> QED
      BY <3>2
  <2>2. CASE InsertFails(p)
    BY <2>2 DEF InsertFails
  <2> QED
    BY <2>1, <2>2
<1> QED
  BY <1>2, <1>4, <1>5, <1>6

LEMMA PublishFields ==
    ASSUME BusInv, NEW p \in Publishers, Publish(p)
    PROVE  /\ UNCHANGED <<table, subscribers, chan, stream, missed, notes, unstored>>
           /\ OtherPublishers(p)
           /\ pub[p].pc = "publish" /\ pub'[p].pc = "send"
           /\ pub'[p].note = pub[p].note /\ pub'[p].left = subscribers[pub[p].user]
           /\ \A s \in Streams :
                 /\ Listening(s, pub[p].user) => owed'[s] = owed[s] \cup {pub[p].note}
                 /\ ~Listening(s, pub[p].user) => owed'[s] = owed[s]
<1>1. pub[p] \in Publisher /\ pub \in [Publishers -> Publisher]
  BY DEF BusInv, NotificationsTypeOK
<1>2. PICK list : list = subscribers[pub[p].user]
  OBVIOUS
<1>3. PICK new : new = [pub[p] EXCEPT !.pc = "send", !.left = list]
  OBVIOUS
<1>4. new.pc = "send" /\ new.note = pub[p].note /\ new.left = list
  BY <1>1, <1>3 DEF Publisher
<1>5. /\ UNCHANGED <<table, subscribers, chan, stream, missed, notes, unstored>>
      /\ pub[p].pc = "publish" /\ pub' = [pub EXCEPT ![p] = new]
  BY <1>2, <1>3 DEF Publish
<1>6. pub'[p] = new /\ OtherPublishers(p)
  BY <1>1, <1>5 DEF OtherPublishers
<1>7. \A s \in Streams :
         /\ Listening(s, pub[p].user) => owed'[s] = owed[s] \cup {pub[p].note}
         /\ ~Listening(s, pub[p].user) => owed'[s] = owed[s]
  BY DEF Publish
<1> QED
  BY <1>2, <1>4, <1>5, <1>6, <1>7

\* Send: the channel at the head of the list, if there is room, gets the note.
SentTo(p, s) ==
    /\ s = Head(pub[p].left)
    /\ \A t \in Streams : t # s => chan'[t] = chan[t] /\ missed'[t] = missed[t]
    /\ \/ /\ Given(s)' = Append(Given(s), pub[p].note)
          /\ missed'[s] = missed[s]
       \/ /\ chan'[s] = chan[s] /\ Given(s)' = Given(s)
          /\ ~stream[s].here => missed'[s] = missed[s]
          /\ stream[s].here => missed'[s] = missed[s] \cup {pub[p].note}

LEMMA SendFields ==
    ASSUME BusInv, BusInv', NEW p \in Publishers, Send(p)
    PROVE  /\ UNCHANGED <<table, subscribers, stream, notes, unstored, owed>>
           /\ OtherPublishers(p)
           /\ pub[p].pc = "send" /\ pub'[p].pc = "send" /\ pub[p].left # <<>>
           /\ pub'[p].note = pub[p].note /\ pub'[p].user = pub[p].user
           /\ pub'[p].left = Tail(pub[p].left)
           /\ pub[p].left \in Seq(Streams) /\ pub[p].note \in Notes
           /\ \E s \in Streams : SentTo(p, s)
<1>0. NotificationsTypeOK
  BY DEF BusInv
<1>1. /\ pub[p] \in Publisher /\ pub \in [Publishers -> Publisher]
      /\ pub[p].left \in Seq(Streams)
      /\ chan \in [Streams -> [buf : Seq(Notes), closed : BOOLEAN]]
      /\ missed \in [Streams -> SUBSET Notes]
  BY <1>0, RecordTypes DEF NotificationsTypeOK
<1>2. PICK rest : rest = Tail(pub[p].left)
  OBVIOUS
<1>3. PICK new : new = [pub[p] EXCEPT !.left = rest]
  OBVIOUS
<1>4. /\ UNCHANGED <<table, subscribers, stream, notes, unstored, owed>>
      /\ pub[p].pc = "send" /\ pub[p].left # <<>> /\ pub' = [pub EXCEPT ![p] = new]
  BY <1>2, <1>3 DEF Send
<1>5. /\ new.pc = "send" /\ new.note = pub[p].note /\ new.user = pub[p].user
      /\ new.left = rest
  BY <1>1, <1>3, <1>4 DEF Publisher
<1>6. pub'[p] = new /\ OtherPublishers(p)
  BY <1>1, <1>4 DEF OtherPublishers
<1>7. pub[p].note \in Notes
  BY <1>4 DEF BusInv, NotesAtHand
<1>8. PICK s \in Streams : s = Head(pub[p].left)
  BY <1>1, <1>4, InTail
<1>9. ASSUME Len(chan[s].buf) < Capacity PROVE SentTo(p, s)
  <2>1. /\ chan' = [chan EXCEPT ![s].buf = Append(chan[s].buf, pub[p].note)]
        /\ missed' = missed
    BY <1>8, <1>9 DEF Send
  <2>2. /\ chan'[s].buf = Append(chan[s].buf, pub[p].note)
        /\ \A t \in Streams : t # s => chan'[t] = chan[t]
    BY <1>1, <2>1
  <2>3. PICK b \in Seq(Notes) : b = chan[s].buf
    BY <1>0, RecordTypes
  <2>4. ASSUME NEW a \in Seq(Notes), Given(s) = a \o b,
               Given(s)' = a \o Append(b, pub[p].note)
        PROVE  Given(s)' = Append(Given(s), pub[p].note)
    BY <1>7, <2>4, SendConcat
  <2>5. ASSUME stream[s].pc = "write"
        PROVE  Given(s)' = Append(Given(s), pub[p].note)
    <3>1. PICK a \in Seq(Notes) : a = stream[s].got \o <<stream[s].hand>>
      BY <2>5, GivenDef
    <3>2. Given(s) = a \o b /\ Given(s)' = a \o Append(b, pub[p].note)
      BY <1>4, <2>2, <2>3, <2>5, <3>1 DEF Given
    <3> QED
      BY <2>4, <3>2
  <2>6. ASSUME stream[s].pc # "write"
        PROVE  Given(s)' = Append(Given(s), pub[p].note)
    <3>1. PICK a \in Seq(Notes) : a = stream[s].got \o <<>>
      BY <2>6, GivenDef
    <3>2. Given(s) = a \o b /\ Given(s)' = a \o Append(b, pub[p].note)
      BY <1>4, <2>2, <2>3, <2>6, <3>1 DEF Given
    <3> QED
      BY <2>4, <3>2
  <2>7. Given(s)' = Append(Given(s), pub[p].note)
    BY <2>5, <2>6
  <2>8. missed'[s] = missed[s] /\ \A t \in Streams : t # s => missed'[t] = missed[t]
    BY <2>1
  <2> QED
    BY <1>8, <2>2, <2>7, <2>8, Zenon DEF SentTo
<1>10. ASSUME ~(Len(chan[s].buf) < Capacity) PROVE SentTo(p, s)
  <2>1. /\ chan' = chan
        /\ missed' = [missed EXCEPT ![s] = IF stream[s].here
                                            THEN missed[s] \cup {pub[p].note}
                                            ELSE missed[s]]
    BY <1>8, <1>10 DEF Send
  <2>2. /\ ~stream[s].here => missed'[s] = missed[s]
        /\ stream[s].here => missed'[s] = missed[s] \cup {pub[p].note}
        /\ \A t \in Streams : t # s => missed'[t] = missed[t]
    BY <1>1, <2>1
  <2>3. Given(s)' = Given(s)
    BY <1>4, <2>1 DEF Given
  <2>4. chan'[s] = chan[s] /\ \A t \in Streams : chan'[t] = chan[t]
    BY <2>1
  <2> QED
    BY <1>8, <2>2, <2>3, <2>4 DEF SentTo
<1>11. SentTo(p, s)
  BY <1>9, <1>10
<1> QED
  BY <1>1, <1>2, <1>4, <1>5, <1>6, <1>7, <1>11

LEMMA PublishedFields ==
    ASSUME BusInv, NEW p \in Publishers, Published(p)
    PROVE  /\ UNCHANGED <<table, subscribers, chan, stream, missed, owed, notes, unstored>>
           /\ OtherPublishers(p)
           /\ pub[p].pc = "send" /\ pub[p].left = <<>> /\ pub'[p].pc = "idle"
BY DEF Published, PubReturn, BusInv, NotificationsTypeOK, OtherPublishers, NoPublisher

LEMMA MarkFields ==
    ASSUME BusInv, NEW u \in Users, MarkAllRead(u)
    PROVE  /\ UNCHANGED <<subscribers, chan, stream, pub, notes, missed, owed, unstored>>
           /\ \A r \in table : \E q \in table' : q.note = r.note /\ q.user = r.user
<1>1. /\ table' = {IF r.user = u THEN [r EXCEPT !.read = TRUE] ELSE r : r \in table}
      /\ UNCHANGED <<subscribers, chan, stream, pub, notes, missed, owed, unstored>>
  BY DEF MarkAllRead
<1>2. ASSUME NEW r \in table PROVE \E q \in table' : q.note = r.note /\ q.user = r.user
  <2>1. r \in [note : Notes, user : Users, read : BOOLEAN]
    BY DEF BusInv, NotificationsTypeOK
  <2>2. PICK q : q = [r EXCEPT !.read = TRUE]
    OBVIOUS
  <2>3. q.note = r.note /\ q.user = r.user
    BY <2>1, <2>2
  <2>4. CASE r.user = u
    <3>1. q \in table'
      BY <1>1, <2>2, <2>4
    <3> QED
      BY <2>3, <3>1
  <2>5. CASE r.user # u
    <3>1. r \in table'
      BY <1>1, <2>5
    <3> QED
      BY <3>1
  <2> QED
    BY <2>4, <2>5
<1> QED
  BY <1>1, <1>2

-----------------------------------------------------------------------------
\* PushInv, step by step.

\* A step that leaves publishers, notifications and rows alone, gives no stream
\* a new debt, and renames the user of no stream that is owed something.
LEMMA PushKept ==
    ASSUME PushInv, UNCHANGED <<table, pub, notes, unstored>>,
           \A s \in Streams :
              /\ owed'[s] \subseteq owed[s]
              /\ owed'[s] # {} => stream'[s].user = stream[s].user
    PROVE  PublisherInv' /\ PushedIsStored'
<1>1. PushedIsStored'
  BY PushedDef DEF PushInv, PushedIsStored, Stored
<1>2. PublisherInv'
  BY DEF PushInv, PublisherInv
<1> QED
  BY <1>1, <1>2

LEMMA SubscribePush ==
    ASSUME BusInv, PushInv, NEW s \in Streams, NEW u \in Users, Subscribe(s, u)
    PROVE  PushInv'
<1>0. u \in Recipients /\ \A t \in Streams : stream[t].user \in Recipients
  BY RecordTypes DEF BusInv, Recipients
<1>1. /\ stream[s].pc = "idle"
      /\ UNCHANGED <<table, chan, pub, notes, missed, owed, unstored>>
      /\ \A t \in Streams : t # s => stream'[t] = stream[t]
  BY SubscribeFields
<1>2. owed[s] = {} /\ missed[s] = {} /\ ~stream[s].here
  BY <1>1 DEF PushInv, StreamInv
<1>3. PublisherInv' /\ PushedIsStored'
  BY <1>1, <1>2, PushKept
<1>4. CASE /\ stream'[s].pc = "loop" /\ stream'[s].user = u /\ stream'[s].here
           /\ \A v \in Recipients, t \in Streams :
                 In(subscribers'[v], t) <=> In(subscribers[v], t) \/ (v = u /\ t = s)
  <2>1. ASSUME NEW t \in Streams, t # s
        PROVE  /\ ~stream'[t].here => owed'[t] = {} /\ missed'[t] = {}
               /\ stream'[t].pc = "idle" => ~stream'[t].here /\ chan'[t].buf = <<>>
               /\ stream'[t].pc \in Subscribed => In(subscribers'[stream'[t].user], t)
    BY <1>0, <1>1, <1>4, <2>1 DEF PushInv, StreamInv
  <2>2. In(subscribers'[stream'[s].user], s)
    BY <1>0, <1>4
  <2>3. StreamInv'
    BY <1>4, <2>1, <2>2 DEF StreamInv
  <2> QED
    BY <1>3, <2>3 DEF PushInv
<1>5. CASE /\ stream'[s].pc = "refused" /\ stream'[s].user = stream[s].user
           /\ stream'[s].here = stream[s].here /\ subscribers' = subscribers
  <2>1. StreamInv'
    BY <1>1, <1>2, <1>5 DEF PushInv, StreamInv, Subscribed
  <2> QED
    BY <1>3, <2>1 DEF PushInv
<1> QED
  BY <1>4, <1>5, SubscribeFields

LEMMA UnsubscribePush ==
    ASSUME BusInv, PushInv, NEW s \in Streams, Unsubscribe(s)
    PROVE  PushInv'
<1>0. \A t \in Streams : stream[t].user \in Recipients
  BY RecordTypes DEF BusInv
<1>1. /\ stream[s].pc = "cancel" /\ stream'[s].pc = "done"
      /\ stream'[s].here = stream[s].here /\ stream'[s].user = stream[s].user
      /\ UNCHANGED <<table, pub, notes, missed, owed, unstored>>
      /\ \A t \in Streams : t # s => stream'[t] = stream[t] /\ chan'[t] = chan[t]
      /\ \A v \in Recipients, t \in Streams :
            In(subscribers[v], t) /\ t # s => In(subscribers'[v], t)
  BY UnsubscribeFields
<1>2. PublisherInv' /\ PushedIsStored'
  BY <1>1, PushKept
<1>3. ASSUME NEW t \in Streams
      PROVE  /\ ~stream'[t].here => owed'[t] = {} /\ missed'[t] = {}
             /\ stream'[t].pc = "idle" => ~stream'[t].here /\ chan'[t].buf = <<>>
             /\ stream'[t].pc \in Subscribed => In(subscribers'[stream'[t].user], t)
  BY <1>0, <1>1 DEF PushInv, StreamInv, Subscribed
<1>4. StreamInv'
  BY <1>3 DEF StreamInv
<1> QED
  BY <1>2, <1>4 DEF PushInv

LEMMA StreamPush ==
    ASSUME BusInv, BusInv', PushInv, NEW s \in Streams,
           Receive(s) \/ Leave(s) \/ Flush(s) \/ StreamClientGone(s)
    PROVE  PushInv'
<1>1. /\ UNCHANGED <<table, subscribers, pub, notes, unstored>>
      /\ \A t \in Streams : t # s =>
            /\ stream'[t] = stream[t] /\ chan'[t] = chan[t]
            /\ owed'[t] = owed[t] /\ missed'[t] = missed[t]
      /\ Moves(s)
  BY StreamFields
<1>2. /\ stream'[s].user = stream[s].user /\ owed'[s] \subseteq owed[s]
      /\ ~stream'[s].here => owed'[s] = {} /\ missed'[s] = {}
      /\ stream'[s].pc = "idle" => ~stream'[s].here /\ chan'[s].buf = <<>>
      /\ stream'[s].pc \in Subscribed => stream[s].pc \in Subscribed
  BY <1>1 DEF Moves, PushInv, StreamInv, Subscribed
<1>3. PublisherInv' /\ PushedIsStored'
  BY <1>1, <1>2, PushKept
<1>4. ASSUME NEW t \in Streams
      PROVE  /\ ~stream'[t].here => owed'[t] = {} /\ missed'[t] = {}
             /\ stream'[t].pc = "idle" => ~stream'[t].here /\ chan'[t].buf = <<>>
             /\ stream'[t].pc \in Subscribed => In(subscribers'[stream'[t].user], t)
  BY <1>1, <1>2 DEF PushInv, StreamInv
<1>5. StreamInv'
  BY <1>4 DEF StreamInv
<1> QED
  BY <1>3, <1>5 DEF PushInv

\* The rows and the list of failed INSERTs only grow.
LEMMA StoredKept ==
    ASSUME unstored \subseteq unstored', table \subseteq table'
    PROVE  \A n, u : Stored(table, unstored, n, u) => Stored(table', unstored', n, u)
BY DEF Stored

LEMMA BeginPush ==
    ASSUME BusInv, PushInv, NEW p \in Publishers,
           (\E u \in Users : Notify(p, u)) \/ NotifyAutoStop(p)
    PROVE  PushInv'
<1>0. /\ notes \in Nat
      /\ \A q \in Publishers : pub[q].note \in Nat
      /\ \A s \in Streams : \A n \in owed[s] : n \in Nat
  BY RecordTypes DEF BusInv, NotificationsTypeOK, Notes, Publisher
<1>1. /\ UNCHANGED <<table, subscribers, chan, stream, missed, owed>>
      /\ notes' = notes + 1 /\ unstored \subseteq unstored'
      /\ \A q \in Publishers : q # p => pub'[q] = pub[q]
      /\ pub[p].pc = "idle" /\ pub'[p].pc \in {"insert", "publish"}
      /\ pub'[p].note = notes + 1
      /\ pub'[p].pc = "publish" => notes + 1 \in unstored'
  BY BeginFields DEF OtherPublishers
<1>2. \A n, u : Stored(table, unstored, n, u) => Stored(table', unstored', n, u)
  BY <1>1, StoredKept
<1>3. StreamInv'
  BY <1>1 DEF PushInv, StreamInv
<1>4. PushedIsStored'
  <2>1. \A s \in Streams : \A n \in owed'[s] : Stored(table', unstored', n, stream'[s].user)
    BY <1>1, <1>2, PushedDef DEF PushInv
  <2> QED
    BY <2>1 DEF PushedIsStored, Stored
<1>5. \A s \in Streams : \A n \in owed[s] : n <= notes /\ n <= notes + 1 /\ n # notes + 1
  BY <1>0 DEF PushInv, PublisherInv
<1>6. \A q \in Publishers : pub[q].pc # "idle" =>
         pub[q].note <= notes + 1 /\ pub[q].note # notes + 1
  BY <1>0 DEF PushInv, PublisherInv
<1>7. ASSUME NEW q \in Publishers
      PROVE  /\ pub'[q].pc # "idle" => pub'[q].note <= notes'
             /\ pub'[q].pc = "publish" => Stored(table', unstored', pub'[q].note, pub'[q].user)
             /\ pub'[q].pc = "send" => Distinct(pub'[q].left)
             /\ pub'[q].pc \in {"insert", "publish"} =>
                   \A s \in Streams : pub'[q].note \notin owed'[s]
  <2>1. CASE q = p
    <3>1. pub'[q].pc = "publish" => Stored(table', unstored', pub'[q].note, pub'[q].user)
      BY <1>1, <2>1 DEF Stored
    <3> QED
      BY <1>0, <1>1, <1>5, <2>1, <3>1
  <2>2. CASE q # p
    <3>1. pub[q].pc = "publish" => Stored(table, unstored, pub[q].note, pub[q].user)
      BY DEF PushInv, PublisherInv
    <3>2. pub'[q].pc = "publish" => Stored(table', unstored', pub'[q].note, pub'[q].user)
      BY <1>1, <1>2, <2>2, <3>1
    <3> QED
      BY <1>1, <1>6, <2>2, <3>2 DEF PushInv, PublisherInv
  <2> QED
    BY <2>1, <2>2
<1>8. \A q, o \in Publishers :
         pub'[q].pc # "idle" /\ pub'[o].pc # "idle" /\ q # o => pub'[q].note # pub'[o].note
  BY <1>1, <1>6 DEF PushInv, PublisherInv
<1>9. PublisherInv'
  BY <1>1, <1>5, <1>7, <1>8 DEF PublisherInv
<1> QED
  BY <1>3, <1>4, <1>9 DEF PushInv

LEMMA InsertPush ==
    ASSUME BusInv, PushInv, NEW p \in Publishers, Insert(p) \/ InsertFails(p)
    PROVE  PushInv'
<1>1. /\ UNCHANGED <<subscribers, chan, stream, missed, owed, notes>>
      /\ unstored \subseteq unstored' /\ table \subseteq table'
      /\ \A q \in Publishers : q # p => pub'[q] = pub[q]
      /\ pub[p].pc = "insert" /\ pub'[p].pc = "publish"
      /\ pub'[p].note = pub[p].note /\ pub'[p].user = pub[p].user
      /\ Stored(table', unstored', pub[p].note, pub[p].user)
  BY InsertFields DEF OtherPublishers, Stored
<1>2. \A n, u : Stored(table, unstored, n, u) => Stored(table', unstored', n, u)
  BY <1>1, StoredKept
<1>3. StreamInv'
  BY <1>1 DEF PushInv, StreamInv
<1>4. PushedIsStored'
  BY <1>1, <1>2, PushedDef DEF PushInv, PushedIsStored, Stored
<1>5. ASSUME NEW q \in Publishers
      PROVE  /\ pub'[q].pc # "idle" => pub'[q].note <= notes'
             /\ pub'[q].pc = "publish" =>
                   Stored(table', unstored', pub'[q].note, pub'[q].user)
             /\ pub'[q].pc = "send" => Distinct(pub'[q].left)
             /\ pub'[q].pc \in {"insert", "publish"} =>
                   \A s \in Streams : pub'[q].note \notin owed'[s]
  <2>1. CASE q = p
    BY <1>1, <2>1 DEF PushInv, PublisherInv
  <2>2. CASE q # p
    BY <1>1, <1>2, <2>2 DEF PushInv, PublisherInv
  <2> QED
    BY <2>1, <2>2
<1>6. \A q, o \in Publishers :
         pub'[q].pc # "idle" /\ pub'[o].pc # "idle" /\ q # o => pub'[q].note # pub'[o].note
  BY <1>1 DEF PushInv, PublisherInv
<1>7. PublisherInv'
  BY <1>1, <1>5, <1>6 DEF PushInv, PublisherInv
<1> QED
  BY <1>3, <1>4, <1>7 DEF PushInv

LEMMA PublishPush ==
    ASSUME BusInv, PushInv, NEW p \in Publishers, Publish(p)
    PROVE  PushInv'
<1>0. pub[p].user \in Recipients /\ Distinct(subscribers[pub[p].user])
  BY RecordTypes DEF BusInv, Bus, ListsAreDistinct
<1>1. /\ UNCHANGED <<table, subscribers, chan, stream, missed, notes, unstored>>
      /\ \A q \in Publishers : q # p => pub'[q] = pub[q]
      /\ pub[p].pc = "publish" /\ pub'[p].pc = "send"
      /\ pub'[p].note = pub[p].note /\ Distinct(pub'[p].left)
      /\ \A s \in Streams :
            /\ Listening(s, pub[p].user) => owed'[s] = owed[s] \cup {pub[p].note}
            /\ ~Listening(s, pub[p].user) => owed'[s] = owed[s]
  BY <1>0, PublishFields DEF OtherPublishers
<1>2. \A s \in Streams : \A n \in owed'[s] :
         n \in owed[s] \/ (n = pub[p].note /\ stream[s].user = pub[p].user /\ stream[s].here)
  BY <1>1 DEF Listening
<1>3. StreamInv'
  BY <1>1, <1>2 DEF PushInv, StreamInv
<1>4. PushedIsStored'
  <2>1. Stored(table, unstored, pub[p].note, pub[p].user) /\ table' = table
        /\ unstored' = unstored /\ stream' = stream
    BY <1>1 DEF PushInv, PublisherInv
  <2>2. \A s \in Streams : \A n \in owed'[s] : Stored(table, unstored, n, stream[s].user)
    BY <1>2, <2>1, PushedDef DEF PushInv
  <2> QED
    BY <2>1, <2>2 DEF PushedIsStored, Stored
<1>5. ASSUME NEW q \in Publishers
      PROVE  /\ pub'[q].pc # "idle" => pub'[q].note <= notes'
             /\ pub'[q].pc = "publish" =>
                   Stored(table', unstored', pub'[q].note, pub'[q].user)
             /\ pub'[q].pc = "send" => Distinct(pub'[q].left)
             /\ pub'[q].pc \in {"insert", "publish"} =>
                   \A s \in Streams : pub'[q].note \notin owed'[s]
  <2>1. CASE q = p
    BY <1>1, <2>1 DEF PushInv, PublisherInv
  <2>2. CASE q # p
    <3>1. pub'[q] = pub[q] /\ (pub[q].pc # "idle" => pub[q].note # pub[p].note)
      BY <1>1, <2>2 DEF PushInv, PublisherInv
    <3> QED
      BY <1>1, <1>2, <3>1 DEF PushInv, PublisherInv
  <2> QED
    BY <2>1, <2>2
<1>6. \A q, o \in Publishers :
         pub'[q].pc # "idle" /\ pub'[o].pc # "idle" /\ q # o => pub'[q].note # pub'[o].note
  BY <1>1 DEF PushInv, PublisherInv
<1>7. \A s \in Streams : \A n \in owed'[s] : n <= notes'
  BY <1>1, <1>2 DEF PushInv, PublisherInv
<1>8. PublisherInv'
  BY <1>5, <1>6, <1>7 DEF PublisherInv
<1> QED
  BY <1>3, <1>4, <1>8 DEF PushInv

\* The stream a publisher has reached is subscribed.
LEMMA HeadIsSubscribed ==
    ASSUME BusInv, NEW p \in Publishers, pub[p].pc = "send", NEW s \in Streams,
           In(pub[p].left, s)
    PROVE  stream[s].pc \in Subscribed /\ stream[s].user = pub[p].user
<1>1. pub[p].user \in Recipients
  BY RecordTypes DEF BusInv
<1> QED
  BY <1>1 DEF BusInv, Bus, LeftIsListed, ListedIsOpen

LEMMA SendPush ==
    ASSUME BusInv, BusInv', PushInv, NEW p \in Publishers, Send(p)
    PROVE  PushInv'
<1>1. /\ UNCHANGED <<table, subscribers, stream, notes, unstored, owed>>
      /\ \A q \in Publishers : q # p => pub'[q] = pub[q]
      /\ pub[p].pc = "send" /\ pub'[p].pc = "send" /\ pub[p].left # <<>>
      /\ pub'[p].note = pub[p].note
      /\ pub'[p].left = Tail(pub[p].left) /\ pub[p].left \in Seq(Streams)
  BY SendFields DEF OtherPublishers
<1>2. PICK s \in Streams : SentTo(p, s)
  BY SendFields
<1>3. In(pub[p].left, s)
  BY <1>1, <1>2, InTail DEF SentTo
<1>4. stream[s].pc \in Subscribed
  BY <1>1, <1>3, HeadIsSubscribed
<1>5. /\ \A t \in Streams : t # s => chan'[t] = chan[t] /\ missed'[t] = missed[t]
      /\ ~stream[s].here => missed'[s] = missed[s]
  BY <1>2 DEF SentTo
<1>6. StreamInv'
  BY <1>1, <1>4, <1>5 DEF PushInv, StreamInv, Subscribed
<1>7. PushedIsStored'
  BY <1>1 DEF PushInv, PushedIsStored
<1>8. Distinct(pub'[p].left)
  BY <1>1, DistinctTail DEF PushInv, PublisherInv
<1>9. PublisherInv'
  BY <1>1, <1>8 DEF PushInv, PublisherInv
<1> QED
  BY <1>6, <1>7, <1>9 DEF PushInv

LEMMA PublishedPush ==
    ASSUME BusInv, PushInv, NEW p \in Publishers, Published(p)
    PROVE  PushInv'
<1>1. /\ UNCHANGED <<table, subscribers, chan, stream, missed, owed, notes, unstored>>
      /\ \A q \in Publishers : q # p => pub'[q] = pub[q]
      /\ pub'[p].pc = "idle"
  BY PublishedFields DEF OtherPublishers
<1>2. StreamInv' /\ PushedIsStored'
  BY <1>1 DEF PushInv, StreamInv, PushedIsStored
<1>3. PublisherInv'
  BY <1>1 DEF PushInv, PublisherInv
<1> QED
  BY <1>2, <1>3 DEF PushInv

LEMMA MarkPush ==
    ASSUME BusInv, PushInv, NEW u \in Users, MarkAllRead(u)
    PROVE  PushInv'
<1>1. /\ UNCHANGED <<subscribers, chan, stream, pub, notes, missed, owed, unstored>>
      /\ \A r \in table : \E q \in table' : q.note = r.note /\ q.user = r.user
  BY MarkFields
<1>2. \A n, v : Stored(table, unstored, n, v) => Stored(table', unstored', n, v)
  BY <1>1 DEF Stored
<1>3. StreamInv'
  BY <1>1 DEF PushInv, StreamInv
<1>4. PushedIsStored'
  BY <1>1, <1>2, PushedDef DEF PushInv, PushedIsStored, Stored
<1>5. PublisherInv'
  BY <1>1, <1>2 DEF PushInv, PublisherInv
<1> QED
  BY <1>3, <1>4, <1>5 DEF PushInv

LEMMA InitPushInv == NotificationsInit => PushInv
<1> SUFFICES ASSUME NotificationsInit PROVE PushInv
  OBVIOUS
<1>1. \A s \in Streams : /\ stream[s].pc = "idle" /\ ~stream[s].here /\ chan[s].buf = <<>>
                         /\ owed[s] = {} /\ missed[s] = {}
  BY DEF NotificationsInit, NoStream, NewChannel
<1>2. \A p \in Publishers : pub[p].pc = "idle"
  BY DEF NotificationsInit, NoPublisher
<1> QED
  BY <1>1, <1>2 DEF PushInv, StreamInv, Subscribed, PublisherInv, PushedIsStored

LEMMA NextPushInv ==
    BusInv /\ BusInv' /\ PushInv /\ [NotificationsNext]_notificationVars => PushInv'
<1> SUFFICES ASSUME BusInv, BusInv', PushInv, [NotificationsNext]_notificationVars
             PROVE  PushInv'
  OBVIOUS
<1>1. ASSUME NEW s \in Streams, NEW u \in Users, Subscribe(s, u) PROVE PushInv'
  BY <1>1, SubscribePush
<1>2. ASSUME NEW s \in Streams, Unsubscribe(s) PROVE PushInv'
  BY <1>2, UnsubscribePush
<1>3. ASSUME NEW s \in Streams,
             Receive(s) \/ Leave(s) \/ Flush(s) \/ StreamClientGone(s)
      PROVE  PushInv'
  BY <1>3, StreamPush
<1>4. ASSUME NEW p \in Publishers, (\E u \in Users : Notify(p, u)) \/ NotifyAutoStop(p)
      PROVE  PushInv'
  BY <1>4, BeginPush
<1>5. ASSUME NEW p \in Publishers, Insert(p) \/ InsertFails(p) PROVE PushInv'
  BY <1>5, InsertPush
<1>6. ASSUME NEW p \in Publishers, Publish(p) PROVE PushInv'
  BY <1>6, PublishPush
<1>7. ASSUME NEW p \in Publishers, Send(p) PROVE PushInv'
  BY <1>7, SendPush
<1>8. ASSUME NEW p \in Publishers, Published(p) PROVE PushInv'
  BY <1>8, PublishedPush
<1>9. ASSUME NEW u \in Users, MarkAllRead(u) PROVE PushInv'
  BY <1>9, MarkPush
<1>10. CASE UNCHANGED notificationVars
  BY <1>10 DEF notificationVars, PushInv, StreamInv, PublisherInv, PushedIsStored
<1> QED
  BY <1>1, <1>2, <1>3, <1>4, <1>5, <1>6, <1>7, <1>8, <1>9, <1>10
     DEF NotificationsNext, PublisherStep

(***************************************************************************)
(* PushesInvariant: streams without a client are owed nothing, a stream    *)
(* that serves a client is in its user's list, and a notification reaches  *)
(* Publish only stored, or after its INSERT has failed.                    *)
(***************************************************************************)
THEOREM PushesInvariant == NotificationsSpec => []PushInv
<1>1. NotificationsSpec => []BusInv
  BY BusInvariant
<1> QED
  BY <1>1, InitPushInv, NextPushInv, PTL DEF NotificationsSpec

(***************************************************************************)
(* PushesAreStored: whatever persistAndNotify pushes to a connected client *)
(* is a row of its user that the client can list later, unless the INSERT  *)
(* has failed, however publishers, streams and clients interleave.         *)
(***************************************************************************)
THEOREM PushesAreStored == NotificationsSpec => []PushedIsStored
<1>1. PushInv => PushedIsStored
  BY DEF PushInv
<1> QED
  BY <1>1, PushesInvariant, PTL

-----------------------------------------------------------------------------
\* OnceEach: its inductive form, step by step.

\* Notification n is on its way to stream s.
Away(n, s) ==
    \E p \in Publishers : pub[p].pc = "send" /\ In(pub[p].left, s) /\ pub[p].note = n

Served(s) == Listening(s, stream[s].user)

\* OnceEach for one stream, and what is on the way to it has not been given to it.
OnceFor(s) ==
    /\ Distinct(Given(s))
    /\ \A n : /\ In(Given(s), n) \/ n \in missed[s] \/ Away(n, s) <=> n \in owed[s]
              /\ Away(n, s) => ~In(Given(s), n)

OnceInv == \A s \in Streams : Served(s) => OnceFor(s)

LEMMA OnceInvOnceEach == OnceInv => OnceEach
<1> SUFFICES ASSUME OnceInv, NEW s \in Streams, Listening(s, stream[s].user)
             PROVE  /\ \A i, j \in DOMAIN Given(s) : Given(s)[i] = Given(s)[j] => i = j
                    /\ {Given(s)[i] : i \in DOMAIN Given(s)} \cup missed[s] \cup OnTheWay(s)
                          = owed[s]
  BY DEF OnceEach
<1>1. OnceFor(s)
  BY DEF OnceInv, Served
<1>2. PICK g : g = Given(s)
  OBVIOUS
<1>3. \A n : n \in OnTheWay(s) <=> Away(n, s)
  BY DEF OnTheWay, Away
<1>4. \A n : n \in {g[i] : i \in DOMAIN g} <=> In(g, n)
  BY DEF In
<1>5. \A n : In(g, n) \/ n \in missed[s] \/ Away(n, s) <=> n \in owed[s]
  BY <1>1, <1>2 DEF OnceFor
<1>6. {g[i] : i \in DOMAIN g} \cup missed[s] \cup OnTheWay(s) = owed[s]
  BY <1>3, <1>4, <1>5
<1>7. \A i, j \in DOMAIN g : g[i] = g[j] => i = j
  BY <1>1, <1>2 DEF OnceFor, Distinct
<1> QED
  BY <1>2, <1>6, <1>7

LEMMA AwaySame ==
    ASSUME pub' = pub, NEW s PROVE \A n : Away(n, s)' <=> Away(n, s)
BY DEF Away

\* A publisher that has s neither before nor after the step among what is left.
LEMMA AwayOther ==
    ASSUME NEW p \in Publishers, OtherPublishers(p), NEW s,
           ~(pub[p].pc = "send" /\ In(pub[p].left, s)),
           ~(pub'[p].pc = "send" /\ In(pub'[p].left, s))
    PROVE  \A n : Away(n, s)' <=> Away(n, s)
BY DEF Away, OtherPublishers

\* A step after which s is served only if it was, and no differently.
LEMMA OnceKept ==
    ASSUME OnceInv, NEW s \in Streams, \A n : Away(n, s)' <=> Away(n, s),
           Served(s)' => /\ Served(s) /\ Given(s)' = Given(s)
                         /\ missed'[s] = missed[s] /\ owed'[s] = owed[s]
    PROVE  Served(s)' => OnceFor(s)'
<1> SUFFICES ASSUME Served(s)' PROVE OnceFor(s)'
  OBVIOUS
<1>1. OnceFor(s)
  BY DEF OnceInv
<1>2. Given(s)' = Given(s) /\ missed'[s] = missed[s] /\ owed'[s] = owed[s]
  OBVIOUS
<1> QED
  BY <1>1, <1>2 DEF OnceFor

\* What a stream was given depends on its own record and channel only.
LEMMA GivenSame ==
    ASSUME NEW s, stream'[s] = stream[s], chan'[s] = chan[s]
    PROVE  Given(s)' = Given(s) /\ (Served(s)' <=> Served(s))
BY DEF Given, Served, Listening

LEMMA SubscribeOnce ==
    ASSUME BusInv, PushInv, OnceInv, NEW s \in Streams, NEW u \in Users, Subscribe(s, u)
    PROVE  OnceInv'
<1>1. /\ stream[s].pc = "idle"
      /\ UNCHANGED <<table, chan, pub, notes, missed, owed, unstored>>
      /\ \A t \in Streams : t # s => stream'[t] = stream[t]
  BY SubscribeFields
<1>2. owed[s] = {} /\ missed[s] = {} /\ chan[s].buf = <<>>
  BY <1>1 DEF PushInv, StreamInv
<1>3. ASSUME NEW t \in Streams, t # s PROVE Served(t)' => OnceFor(t)'
  <2>1. \A n : Away(n, t)' <=> Away(n, t)
    BY <1>1, AwaySame
  <2>2. stream'[t] = stream[t] /\ chan'[t] = chan[t]
    BY <1>1, <1>3
  <2>3. Given(t)' = Given(t) /\ (Served(t)' <=> Served(t))
    BY <2>2, GivenSame
  <2> QED
    BY <1>1, <2>1, <2>3, OnceKept
<1>4. ASSUME stream'[s].pc = "loop", stream'[s].got = <<>>, NoReaders
      PROVE  OnceFor(s)'
  <2>1. \A n : ~Away(n, s)'
    BY <1>1, <1>4 DEF Away, NoReaders
  <2>2. Given(s)' = <<>>
    <3>1. Given(s)' = (<<>> \o <<>>) \o <<>>
      BY <1>1, <1>2, <1>4 DEF Given
    <3>2. <<>> \o <<>> = <<>>
      BY <<>> \in Seq(Notes), ConcatEmptySeq
    <3> QED
      BY <3>1, <3>2
  <2>3. Distinct(Given(s)') /\ \A n : ~In(Given(s)', n)
    BY <2>2 DEF Distinct, In
  <2>4. missed'[s] = {} /\ owed'[s] = {}
    BY <1>1, <1>2
  <2> QED
    BY <2>1, <2>3, <2>4 DEF OnceFor
<1>5. stream'[s].pc = "refused" => ~Served(s)'
  BY DEF Served, Listening
<1>6. Served(s)' => OnceFor(s)'
  BY <1>4, <1>5, SubscribeFields
<1> QED
  BY <1>3, <1>6 DEF OnceInv

LEMMA UnsubscribeOnce ==
    ASSUME BusInv, OnceInv, NEW s \in Streams, Unsubscribe(s)
    PROVE  OnceInv'
<1>1. /\ stream'[s].pc = "done"
      /\ UNCHANGED <<pub, missed, owed>>
      /\ \A t \in Streams : t # s => stream'[t] = stream[t] /\ chan'[t] = chan[t]
  BY UnsubscribeFields
<1>2. ~Served(s)'
  BY <1>1 DEF Served, Listening
<1>3. ASSUME NEW t \in Streams, t # s PROVE Served(t)' => OnceFor(t)'
  <2>1. \A n : Away(n, t)' <=> Away(n, t)
    BY <1>1, AwaySame
  <2>2. Given(t)' = Given(t) /\ (Served(t)' <=> Served(t))
    BY <1>1, <1>3, GivenSame
  <2> QED
    BY <1>1, <2>1, <2>2, OnceKept
<1> QED
  BY <1>2, <1>3 DEF OnceInv

LEMMA StreamOnce ==
    ASSUME BusInv, BusInv', OnceInv, NEW s \in Streams,
           Receive(s) \/ Leave(s) \/ Flush(s) \/ StreamClientGone(s)
    PROVE  OnceInv'
<1>1. /\ pub' = pub
      /\ \A t \in Streams : t # s =>
            /\ stream'[t] = stream[t] /\ chan'[t] = chan[t]
            /\ owed'[t] = owed[t] /\ missed'[t] = missed[t]
      /\ Moves(s)
  BY StreamFields
<1>2. Served(s)' => /\ Served(s) /\ Given(s)' = Given(s)
                    /\ missed'[s] = missed[s] /\ owed'[s] = owed[s]
  <2> SUFFICES ASSUME Served(s)' PROVE /\ Served(s) /\ Given(s)' = Given(s)
                                       /\ missed'[s] = missed[s] /\ owed'[s] = owed[s]
    OBVIOUS
  <2>1. stream'[s].here /\ Listening(s, stream[s].user)'
    BY DEF Served, Listening
  <2> QED
    BY <1>1, <2>1 DEF Moves, Served
<1>3. ASSUME NEW t \in Streams, t # s PROVE Served(t)' => OnceFor(t)'
  <2>1. \A n : Away(n, t)' <=> Away(n, t)
    BY <1>1, AwaySame
  <2>2. Given(t)' = Given(t) /\ (Served(t)' <=> Served(t))
    BY <1>1, <1>3, GivenSame
  <2> QED
    BY <1>1, <1>3, <2>1, <2>2, OnceKept
<1>4. Served(s)' => OnceFor(s)'
  <2>1. \A n : Away(n, s)' <=> Away(n, s)
    BY <1>1, AwaySame
  <2> QED
    BY <1>2, <2>1, OnceKept
<1> QED
  BY <1>3, <1>4 DEF OnceInv

\* Steps of a publisher that are not sends.
LEMMA QuietOnce ==
    ASSUME OnceInv, NEW p \in Publishers, OtherPublishers(p),
           UNCHANGED <<chan, stream, missed, owed>>,
           \A s : ~(pub[p].pc = "send" /\ In(pub[p].left, s)),
           \A s : ~(pub'[p].pc = "send" /\ In(pub'[p].left, s))
    PROVE  OnceInv'
<1>1. ASSUME NEW s \in Streams PROVE Served(s)' => OnceFor(s)'
  <2>1. \A n : Away(n, s)' <=> Away(n, s)
    BY AwayOther
  <2>2. Given(s)' = Given(s) /\ (Served(s)' <=> Served(s))
    BY GivenSame
  <2> QED
    BY <2>1, <2>2, OnceKept
<1> QED
  BY <1>1 DEF OnceInv

LEMMA PublishOnce ==
    ASSUME BusInv, PushInv, OnceInv, NEW p \in Publishers, Publish(p)
    PROVE  OnceInv'
<1>0. pub[p].user \in Recipients
  BY RecordTypes DEF BusInv
<1>1. /\ UNCHANGED <<subscribers, chan, stream, missed>>
      /\ OtherPublishers(p)
      /\ pub[p].pc = "publish" /\ pub'[p].pc = "send"
      /\ pub'[p].note = pub[p].note /\ pub'[p].left = subscribers[pub[p].user]
      /\ \A s \in Streams :
            /\ Listening(s, pub[p].user) => owed'[s] = owed[s] \cup {pub[p].note}
            /\ ~Listening(s, pub[p].user) => owed'[s] = owed[s]
  BY PublishFields
<1>2. ASSUME NEW s \in Streams PROVE Served(s)' => OnceFor(s)'
  <2>1. Given(s)' = Given(s) /\ (Served(s)' <=> Served(s))
    BY <1>1, GivenSame
  <2>2. CASE Served(s) /\ stream[s].user = pub[p].user
    <3>1. OnceFor(s)
      BY <2>2 DEF OnceInv
    <3>2. owed'[s] = owed[s] \cup {pub[p].note} /\ missed'[s] = missed[s]
      BY <1>1, <2>2 DEF Served
    <3>3. stream[s].pc \in Subscribed
      BY <2>2 DEF Served, Listening, Subscribed
    <3>4. In(subscribers[pub[p].user], s)
      BY <2>2, <3>3 DEF PushInv, StreamInv
    <3>5. \A n : Away(n, s)' <=> Away(n, s) \/ n = pub[p].note
      BY <1>1, <3>4 DEF Away, OtherPublishers
    <3>6. pub[p].note \notin owed[s]
      BY <1>1 DEF PushInv, PublisherInv
    <3>7. ~In(Given(s), pub[p].note)
      BY <3>1, <3>6 DEF OnceFor
    <3>8. OnceFor(s)'
      BY <2>1, <3>1, <3>2, <3>5, <3>7 DEF OnceFor
    <3> QED
      BY <3>8
  <2>3. CASE Served(s) /\ stream[s].user # pub[p].user
    <3>1. owed'[s] = owed[s] /\ missed'[s] = missed[s]
      BY <1>1, <2>3 DEF Listening
    <3>2. ~In(subscribers[pub[p].user], s)
      BY <1>0, <2>3 DEF BusInv, Bus, ListedIsOpen
    <3>3. \A n : Away(n, s)' <=> Away(n, s)
      BY <1>1, <3>2, AwayOther
    <3> QED
      BY <2>1, <3>1, <3>3, OnceKept
  <2> QED
    BY <2>1, <2>2, <2>3
<1> QED
  BY <1>2 DEF OnceInv

LEMMA SendOnce ==
    ASSUME BusInv, BusInv', PushInv, OnceInv, NEW p \in Publishers, Send(p)
    PROVE  OnceInv'
<1>1. /\ UNCHANGED <<stream, owed>> /\ OtherPublishers(p)
      /\ pub[p].pc = "send" /\ pub'[p].pc = "send" /\ pub[p].left # <<>>
      /\ pub'[p].note = pub[p].note /\ pub'[p].left = Tail(pub[p].left)
      /\ pub[p].left \in Seq(Streams) /\ pub[p].note \in Notes
  BY SendFields
<1>2. PICK s \in Streams : SentTo(p, s)
  BY SendFields
<1>3. Distinct(pub[p].left) /\ s = Head(pub[p].left)
  BY <1>1, <1>2 DEF PushInv, PublisherInv, SentTo
<1>4. /\ In(pub[p].left, s) /\ ~In(pub'[p].left, s)
      /\ \A t : t # s => (In(pub'[p].left, t) <=> In(pub[p].left, t))
  BY <1>1, <1>3, InTail, DistinctTail
<1>5. ASSUME NEW t \in Streams, t # s PROVE Served(t)' => OnceFor(t)'
  <2>1. \A n : Away(n, t)' <=> Away(n, t)
    BY <1>1, <1>4, <1>5 DEF Away, OtherPublishers
  <2>2. chan'[t] = chan[t] /\ missed'[t] = missed[t]
    BY <1>2, <1>5 DEF SentTo
  <2>3. Given(t)' = Given(t) /\ (Served(t)' <=> Served(t))
    BY <1>1, <2>2, GivenSame
  <2> QED
    BY <1>1, <2>1, <2>2, <2>3, OnceKept
<1>6. ASSUME Served(s)' PROVE OnceFor(s)'
  <2>1. Served(s) /\ stream[s].here
    BY <1>1, <1>6 DEF Served, Listening
  <2>2. OnceFor(s)
    BY <2>1 DEF OnceInv
  <2>3. \A q \in Publishers : q # p /\ pub[q].pc = "send" => pub[q].note # pub[p].note
    BY <1>1 DEF PushInv, PublisherInv
  <2>4. /\ \A n : Away(n, s)' <=> Away(n, s) /\ n # pub[p].note
        /\ Away(pub[p].note, s)
    BY <1>1, <1>4, <2>3 DEF Away, OtherPublishers
  <2>5. ~In(Given(s), pub[p].note)
    BY <2>2, <2>4 DEF OnceFor
  <2>6. CASE Given(s)' = Append(Given(s), pub[p].note) /\ missed'[s] = missed[s]
    <3>1. PICK g \in Seq(Notes) : g = Given(s)
      BY GivenDef
    <3>2. PICK h : h = Append(g, pub[p].note)
      OBVIOUS
    <3>3. /\ \A n : In(h, n) <=> In(g, n) \/ n = pub[p].note
          /\ Distinct(h)
      BY <1>1, <2>2, <2>5, <3>1, <3>2, InAppend DEF OnceFor
    <3>4. Given(s)' = h /\ owed'[s] = owed[s]
      BY <1>1, <2>6, <3>1, <3>2
    <3> QED
      BY <2>2, <2>4, <2>6, <3>1, <3>3, <3>4 DEF OnceFor
  <2>7. CASE Given(s)' = Given(s) /\ missed'[s] = missed[s] \cup {pub[p].note}
    BY <1>1, <2>2, <2>4, <2>7 DEF OnceFor
  <2> QED
    BY <1>2, <2>1, <2>6, <2>7 DEF SentTo
<1> QED
  BY <1>5, <1>6 DEF OnceInv

LEMMA NextOnceInv ==
    BusInv /\ BusInv' /\ PushInv /\ OnceInv /\ [NotificationsNext]_notificationVars
        => OnceInv'
<1> SUFFICES ASSUME BusInv, BusInv', PushInv, OnceInv,
                    [NotificationsNext]_notificationVars
             PROVE  OnceInv'
  OBVIOUS
<1>1. ASSUME NEW s \in Streams, NEW u \in Users, Subscribe(s, u) PROVE OnceInv'
  BY <1>1, SubscribeOnce
<1>2. ASSUME NEW s \in Streams, Unsubscribe(s) PROVE OnceInv'
  BY <1>2, UnsubscribeOnce
<1>3. ASSUME NEW s \in Streams,
             Receive(s) \/ Leave(s) \/ Flush(s) \/ StreamClientGone(s)
      PROVE  OnceInv'
  BY <1>3, StreamOnce
<1>4. ASSUME NEW p \in Publishers, (\E u \in Users : Notify(p, u)) \/ NotifyAutoStop(p)
      PROVE  OnceInv'
  <2>1. /\ UNCHANGED <<chan, stream, missed, owed>> /\ OtherPublishers(p)
        /\ pub[p].pc # "send" /\ pub'[p].pc # "send"
    BY <1>4, BeginFields
  <2> QED
    BY <2>1, QuietOnce
<1>5. ASSUME NEW p \in Publishers, Insert(p) \/ InsertFails(p) PROVE OnceInv'
  <2>1. /\ UNCHANGED <<chan, stream, missed, owed>> /\ OtherPublishers(p)
        /\ pub[p].pc # "send" /\ pub'[p].pc # "send"
    BY <1>5, InsertFields
  <2> QED
    BY <2>1, QuietOnce
<1>6. ASSUME NEW p \in Publishers, Publish(p) PROVE OnceInv'
  BY <1>6, PublishOnce
<1>7. ASSUME NEW p \in Publishers, Send(p) PROVE OnceInv'
  BY <1>7, SendOnce
<1>8. ASSUME NEW p \in Publishers, Published(p) PROVE OnceInv'
  <2>1. /\ UNCHANGED <<chan, stream, missed, owed>> /\ OtherPublishers(p)
        /\ pub[p].left = <<>> /\ pub'[p].pc # "send"
    BY <1>8, PublishedFields
  <2>2. \A s : ~In(pub[p].left, s)
    BY <2>1 DEF In
  <2> QED
    BY <2>1, <2>2, QuietOnce
<1>9. ASSUME UNCHANGED <<pub, chan, stream, missed, owed>> PROVE OnceInv'
  <2>1. ASSUME NEW s \in Streams PROVE Served(s)' => OnceFor(s)'
    <3>1. \A n : Away(n, s)' <=> Away(n, s)
      BY <1>9, AwaySame
    <3>2. Given(s)' = Given(s) /\ (Served(s)' <=> Served(s))
      BY <1>9, GivenSame
    <3> QED
      BY <1>9, <3>1, <3>2, OnceKept
  <2> QED
    BY <2>1 DEF OnceInv
<1>10. ASSUME NEW u \in Users, MarkAllRead(u) PROVE OnceInv'
  BY <1>9, <1>10 DEF MarkAllRead
<1>11. CASE UNCHANGED notificationVars
  BY <1>9, <1>11 DEF notificationVars
<1> QED
  BY <1>1, <1>2, <1>3, <1>4, <1>5, <1>6, <1>7, <1>8, <1>10, <1>11
     DEF NotificationsNext, PublisherStep

(***************************************************************************)
(* StreamsGetOnceEach: of what is published to its user while its client   *)
(* is there, a stream gets each notification once, or has it dropped at a  *)
(* full channel: neither a tab that comes or goes nor another publisher    *)
(* makes Publish skip it or reach it twice.                                *)
(***************************************************************************)
THEOREM StreamsGetOnceEach == NotificationsSpec => []OnceEach
<1>1. NotificationsInit => OnceInv
  BY DEF NotificationsInit, NoStream, OnceInv, Served, Listening
<1>2. NotificationsSpec => []OnceInv
  BY <1>1, NextOnceInv, BusInvariant, PushesInvariant, PTL DEF NotificationsSpec
<1> QED
  BY <1>2, OnceInvOnceEach, PTL
=============================================================================

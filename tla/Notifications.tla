--------------------------- MODULE Notifications ----------------------------
(***************************************************************************)
(* service/notificationBus.go and service/notificationHandler.go: the      *)
(* table of notifications, the in-memory bus, the goroutines that publish  *)
(* to it (persistAndNotify and the auto-stop watcher) and the handler of   *)
(* GET /notifications/stream, which subscribes to it.                      *)
(*                                                                         *)
(* The bus's RWMutex.  A publisher at pc "send" holds the read lock.  What *)
(* Subscribe and unsubscribe do under the write lock is one step, which    *)
(* waits until no reader is left: nothing reads the map without the mutex. *)
(* A stream has one channel; the stream's name stands for it.              *)
(***************************************************************************)
EXTENDS Naturals, Sequences, FiniteSets

CONSTANTS Users,        \* users with streams
          NoUser,       \* Go's zero value of a user ID
          Streams,      \* connections to /notifications/stream
          Publishers,   \* goroutines that notify
          Capacity,     \* the size of a subscriber's channel
          LoggerWraps,  \* RequestLogger is in the chain of middlewares
          MaxNotes,     \* bound on notifications
          MaxErrors     \* bound on failing statements

ASSUME NotificationsAssumption ==
    /\ NoUser \notin Users
    /\ Capacity \in Nat \ {0}
    /\ LoggerWraps \in BOOLEAN
    /\ {MaxNotes, MaxErrors} \subseteq Nat

VARIABLES table,        \* table notifications: who, and whether read_at is set
          subscribers,  \* subscribers[u]: the channels of u, in order
          chan,         \* chan[s]: buffer of the channel of s, and if it is closed
          stream,       \* stream[s]: where the handler of s is, and its client
          pub,          \* pub[p]: where publisher p is
          notes,        \* how many notifications were made: note n is the n-th
          missed,       \* history: missed[s]: dropped because the channel was full
          owed,         \* history: owed[s]: published to the user of s so far
          unstored,     \* history: published without a row
          errors

notificationVars == <<table, subscribers, chan, stream, pub, notes, missed,
                      owed, unstored, errors>>

Notes == 1 .. MaxNotes
Recipients == Users \cup {NoUser}

\* hand is the notification that is being written; got what was written.
Stream == [pc : {"idle", "loop", "write", "cancel", "done", "refused"},
           user : Recipients, here : BOOLEAN, hand : Notes \cup {0},
           got : Seq(Notes)]
Publisher == [pc : {"idle", "insert", "publish", "send"}, user : Recipients,
              note : Notes \cup {0}, left : Seq(Streams)]

NotificationsTypeOK ==
    /\ table \subseteq [note : Notes, user : Users, read : BOOLEAN]
    /\ subscribers \in [Recipients -> Seq(Streams)]
    /\ chan \in [Streams -> [buf : Seq(Notes), closed : BOOLEAN]]
    /\ stream \in [Streams -> Stream]
    /\ pub \in [Publishers -> Publisher]
    /\ notes \in 0 .. MaxNotes
    /\ missed \in [Streams -> SUBSET Notes]
    /\ owed \in [Streams -> SUBSET Notes]
    /\ unstored \subseteq Notes
    /\ errors \in 0 .. MaxErrors

NoStream == [pc |-> "idle", user |-> NoUser, here |-> FALSE, hand |-> 0, got |-> <<>>]
NoPublisher == [pc |-> "idle", user |-> NoUser, note |-> 0, left |-> <<>>]
NewChannel == [buf |-> <<>>, closed |-> FALSE]

NotificationsInit ==
    /\ table = {}
    /\ subscribers = [u \in Recipients |-> <<>>]
    /\ chan = [s \in Streams |-> NewChannel]
    /\ stream = [s \in Streams |-> NoStream]
    /\ pub = [p \in Publishers |-> NoPublisher]
    /\ notes = 0
    /\ missed = [s \in Streams |-> {}]
    /\ owed = [s \in Streams |-> {}]
    /\ unstored = {}
    /\ errors = 0

-----------------------------------------------------------------------------
\* What a handler can do with its ResponseWriter.

\* net/http's own writer.
ServerWriter == {"flush", "hijack"}

\* The responseWriter of RequestLogger embeds the interface http.ResponseWriter
\* and adds Hijack: nothing else of the writer it wraps is visible.
RequestLogger(writer) == writer \cap {"hijack"}

\* The instrumentation that prometheusMiddleware puts around a request offers
\* what the writer it wraps offers.
StreamWriter == IF LoggerWraps THEN RequestLogger(ServerWriter) ELSE ServerWriter

-----------------------------------------------------------------------------
\* The bus, and the handler Stream.

\* The write lock can be taken.
NoReaders == \A p \in Publishers : pub[p].pc # "send"

\* The request of a logged-in client.  Without a Flusher it is answered with
\* status 500, else the handler subscribes.
Subscribe(s, u) ==
    /\ stream[s].pc = "idle"
    /\ IF "flush" \in StreamWriter
       THEN /\ NoReaders
            /\ subscribers' = [subscribers EXCEPT ![u] = Append(@, s)]
            /\ stream' = [stream EXCEPT ![s] = [NoStream EXCEPT !.pc = "loop",
                                                    !.user = u, !.here = TRUE]]
       ELSE /\ stream' = [stream EXCEPT ![s].pc = "refused"]
            /\ UNCHANGED subscribers
    /\ UNCHANGED <<table, chan, pub, notes, missed, owed, unstored, errors>>

In(list, s) == \E i \in DOMAIN list : list[i] = s

\* Where the channel is in the list.
IndexOf(list, s) == CHOOSE i \in DOMAIN list : list[i] = s

\* Mutant: what follows the channel in the list is cut off with it.
CutOff(list, s) == SubSeq(list, 1, IndexOf(list, s) - 1)

\* append(subs[:i], subs[i+1:]...)
Without(list, s) ==
    LET i == IndexOf(list, s) IN SubSeq(list, 1, i - 1) \o SubSeq(list, i + 1, Len(list))

RemoveAndClose(s) ==
    /\ subscribers' = [subscribers EXCEPT ![stream[s].user] = Without(@, s)]
    /\ chan' = [chan EXCEPT ![s] = [buf |-> <<>>, closed |-> TRUE]]

\* Mutant: unsubscribe does not take the mutex.
UnsubscribeUnlocked(s) ==
    /\ stream[s].pc = "cancel"
    /\ IF In(subscribers[stream[s].user], s) THEN RemoveAndClose(s)
                                             ELSE UNCHANGED <<subscribers, chan>>
    /\ stream' = [stream EXCEPT ![s].pc = "done"]
    /\ UNCHANGED <<table, pub, notes, missed, owed, unstored, errors>>

\* The deferred cancel of the handler: unsubscribe.
Unsubscribe(s) ==
    /\ stream[s].pc = "cancel"
    /\ NoReaders
    /\ IF In(subscribers[stream[s].user], s) THEN RemoveAndClose(s)
                                             ELSE UNCHANGED <<subscribers, chan>>
    /\ stream' = [stream EXCEPT ![s].pc = "done"]
    /\ UNCHANGED <<table, pub, notes, missed, owed, unstored, errors>>

\* The select of the handler's loop: a notification, or the end of the request's
\* context.  The heartbeat leaves no trace.
Receive(s) ==
    /\ stream[s].pc = "loop"
    /\ chan[s].buf # <<>>
    /\ stream' = [stream EXCEPT ![s] = [@ EXCEPT !.pc = "write",
                                                 !.hand = Head(chan[s].buf)]]
    /\ chan' = [chan EXCEPT ![s].buf = Tail(@)]
    /\ UNCHANGED <<table, subscribers, pub, notes, missed, owed, unstored, errors>>

\* Mutant: the loop does not look at the request's context.
LeaveNever(s) == FALSE /\ UNCHANGED notificationVars

Leave(s) ==
    /\ stream[s].pc = "loop"
    /\ ~stream[s].here
    /\ stream' = [stream EXCEPT ![s].pc = "cancel"]
    /\ UNCHANGED <<table, subscribers, chan, pub, notes, missed, owed, unstored,
                   errors>>

\* What the client has got after a write.
Written(r) == IF r.here THEN Append(r.got, r.hand) ELSE r.got

\* Fprintf and Flush.  It takes as long as the client takes to read; with the
\* client gone it fails, and the error is ignored.
Flush(s) ==
    /\ stream[s].pc = "write"
    /\ stream' = [stream EXCEPT ![s] = [@ EXCEPT !.pc = "loop", !.hand = 0,
                                                 !.got = Written(stream[s])]]
    /\ UNCHANGED <<table, subscribers, chan, pub, notes, missed, owed, unstored,
                   errors>>

\* The client closes the connection: the request's context ends.  The histories
\* are about streams whose client is there.
StreamClientGone(s) ==
    /\ stream[s].here
    /\ stream' = [stream EXCEPT ![s] = [@ EXCEPT !.here = FALSE, !.got = <<>>]]
    /\ missed' = [missed EXCEPT ![s] = {}]
    /\ owed' = [owed EXCEPT ![s] = {}]
    /\ UNCHANGED <<table, subscribers, chan, pub, notes, unstored, errors>>

-----------------------------------------------------------------------------
\* Publishing.

PubGoto(p, pc) == pub' = [pub EXCEPT ![p].pc = pc]
PubReturn(p) == pub' = [pub EXCEPT ![p] = NoPublisher]

Begin(p, pc, u) ==
    /\ pub[p].pc = "idle"
    /\ notes < MaxNotes
    /\ notes' = notes + 1
    /\ pub' = [pub EXCEPT ![p] = [NoPublisher EXCEPT !.pc = pc, !.user = u,
                                                     !.note = notes + 1]]

\* Mutant: the notification is pushed without being saved.
NotifyUnsaved(p, u) ==
    /\ Begin(p, "publish", u)
    /\ UNCHANGED <<table, subscribers, chan, stream, missed, owed, unstored, errors>>

\* persistAndNotify, PersistAndPublish.
Notify(p, u) ==
    /\ Begin(p, "insert", u)
    /\ UNCHANGED <<table, subscribers, chan, stream, missed, owed, unstored, errors>>

\* The auto-stop watcher publishes without a row, and to the UserId of a record
\* that GetRunningContainersOlderThan has not filled in.
NotifyAutoStop(p) ==
    /\ Begin(p, "publish", NoUser)
    /\ unstored' = unstored \cup {notes + 1}
    /\ UNCHANGED <<table, subscribers, chan, stream, missed, owed, errors>>

Insert(p) ==
    /\ pub[p].pc = "insert"
    /\ table' = table \cup {[note |-> pub[p].note, user |-> pub[p].user, read |-> FALSE]}
    /\ PubGoto(p, "publish")
    /\ UNCHANGED <<subscribers, chan, stream, notes, missed, owed, unstored, errors>>

\* The INSERT fails: this is logged or ignored.
InsertFails(p) ==
    /\ pub[p].pc = "insert"
    /\ errors < MaxErrors
    /\ errors' = errors + 1
    /\ unstored' = unstored \cup {pub[p].note}
    /\ PubGoto(p, "publish")
    /\ UNCHANGED <<table, subscribers, chan, stream, notes, missed, owed>>

\* A handler of u is in its loop and its client there.
Listening(s, u) ==
    stream[s].pc \in {"loop", "write"} /\ stream[s].user = u /\ stream[s].here

\* Publish takes the read lock and ranges over the channels that are there now.
Publish(p) ==
    LET u == pub[p].user IN
    /\ pub[p].pc = "publish"
    /\ pub' = [pub EXCEPT ![p] = [@ EXCEPT !.pc = "send", !.left = subscribers[u]]]
    /\ owed' = [s \in Streams |-> IF Listening(s, u) THEN owed[s] \cup {pub[p].note}
                                                     ELSE owed[s]]
    /\ UNCHANGED <<table, subscribers, chan, stream, notes, missed, unstored, errors>>

\* Mutant: the send waits for room in the channel.
SendBlocking(p) ==
    LET s == Head(pub[p].left) IN
    /\ pub[p].pc = "send"
    /\ pub[p].left # <<>>
    /\ Len(chan[s].buf) < Capacity
    /\ chan' = [chan EXCEPT ![s].buf = Append(@, pub[p].note)]
    /\ pub' = [pub EXCEPT ![p].left = Tail(@)]
    /\ UNCHANGED <<table, subscribers, stream, notes, missed, owed, unstored, errors>>

\* The select with a default: a full channel is skipped.
Send(p) ==
    LET s == Head(pub[p].left) IN
    /\ pub[p].pc = "send"
    /\ pub[p].left # <<>>
    /\ IF Len(chan[s].buf) < Capacity
       THEN chan' = [chan EXCEPT ![s].buf = Append(@, pub[p].note)] /\ UNCHANGED missed
       ELSE missed' = [missed EXCEPT ![s] = IF stream[s].here THEN @ \cup {pub[p].note}
                                                              ELSE @] /\ UNCHANGED chan
    /\ pub' = [pub EXCEPT ![p].left = Tail(@)]
    /\ UNCHANGED <<table, subscribers, stream, notes, owed, unstored, errors>>

\* The deferred RUnlock.
Published(p) ==
    /\ pub[p].pc = "send"
    /\ pub[p].left = <<>>
    /\ PubReturn(p)
    /\ UNCHANGED <<table, subscribers, chan, stream, notes, missed, owed, unstored,
                   errors>>

\* POST /notifications/read-all.
MarkAllRead(u) ==
    /\ \E r \in table : r.user = u /\ ~r.read
    /\ table' = {IF r.user = u THEN [r EXCEPT !.read = TRUE] ELSE r : r \in table}
    /\ UNCHANGED <<subscribers, chan, stream, pub, notes, missed, owed, unstored,
                   errors>>

-----------------------------------------------------------------------------
PublisherStep(p) == Insert(p) \/ Publish(p) \/ Send(p) \/ Published(p)

NotificationsNext ==
    \/ \E s \in Streams :
          \/ \E u \in Users : Subscribe(s, u)
          \/ Unsubscribe(s)
          \/ Receive(s)
          \/ Leave(s)
          \/ Flush(s)
          \/ StreamClientGone(s)
    \/ \E p \in Publishers :
          \/ \E u \in Users : Notify(p, u)
          \/ NotifyAutoStop(p)
          \/ PublisherStep(p)
          \/ InsertFails(p)
    \/ \E u \in Users : MarkAllRead(u)

NotificationsSpec == NotificationsInit /\ [][NotificationsNext]_notificationVars

\* What the handler of a stream does once its client is gone.
WindDown(s) ==
    /\ ~stream[s].here
    /\ Flush(s) \/ Leave(s) \/ Unsubscribe(s)

(***************************************************************************)
(* Goroutines run, the RWMutex is given to a writer that waits although    *)
(* readers come and go, and a select with several ready cases takes any of *)
(* them: with finitely many notifications weak fairness says as much.  No  *)
(* client has to read: a write ends for certain only when it has gone.     *)
(***************************************************************************)
NotificationsFairness ==
    /\ \A p \in Publishers : WF_notificationVars(PublisherStep(p))
    /\ \A s \in Streams : WF_notificationVars(WindDown(s))

FairNotificationsSpec == NotificationsSpec /\ NotificationsFairness

-----------------------------------------------------------------------------
\* Properties.

(***************************************************************************)
(* NoSendOnClosed: Publish never sends to a channel that unsubscribe has   *)
(* closed, which would panic in the publisher's goroutine and, outside an  *)
(* HTTP handler, end the server: the loop keeps the read lock from the     *)
(* moment it reads the list until its last send.                           *)
(***************************************************************************)
NoSendOnClosed ==
    \A p \in Publishers, s \in Streams :
        (pub[p].pc = "send" /\ In(pub[p].left, s)) => ~chan[s].closed

\* What a stream has been given, in order.
Given(s) == stream[s].got
              \o (IF stream[s].pc = "write" THEN <<stream[s].hand>> ELSE <<>>)
              \o chan[s].buf

\* Publishers that have not reached s yet.
OnTheWay(s) ==
    {pub[p].note : p \in {q \in Publishers : pub[q].pc = "send" /\ In(pub[q].left, s)}}

(***************************************************************************)
(* OnceEach: of the notifications published to its user while it listens,  *)
(* a stream is given each one exactly once, except those that found its    *)
(* channel full: no subscription or cancellation of another tab, and no    *)
(* concurrent Publish, makes it miss one or see one twice.                 *)
(***************************************************************************)
OnceEach ==
    \A s \in Streams : Listening(s, stream[s].user) =>
        /\ \A i, j \in DOMAIN Given(s) : Given(s)[i] = Given(s)[j] => i = j
        /\ {Given(s)[i] : i \in DOMAIN Given(s)} \cup missed[s] \cup OnTheWay(s) = owed[s]

(***************************************************************************)
(* PushedIsStored: what a client was or should have been shown live is in  *)
(* the table for it to list after a reload, unless it is unstored: its     *)
(* INSERT failed, or it is the watcher's push, which has none.  The row of *)
(* persistAndNotify is written before the push, and drops of full channels *)
(* lose nothing for good.                                                  *)
(***************************************************************************)
PushedIsStored ==
    \A s \in Streams : \A n \in owed[s] \ unstored :
        \E r \in table : r.note = n /\ r.user = stream[s].user

(***************************************************************************)
(* PublishReturns: a publisher always gets through, whatever the clients   *)
(* do: a client that stops reading blocks its own handler in Flush and     *)
(* fills its channel, and Publish then skips it.                           *)
(***************************************************************************)
PublishReturns ==
    \A p \in Publishers : pub[p].pc # "idle" ~> pub[p].pc = "idle"

(***************************************************************************)
(* GoneIsUnsubscribed: after its client has gone, a stream is taken off    *)
(* the bus and its channel closed, although MaxNotes more notifications    *)
(* may come: the bus does not keep channels that nobody reads.             *)
(***************************************************************************)
GoneIsUnsubscribed ==
    \A s \in Streams :
        (stream[s].pc # "idle" /\ ~stream[s].here)
            ~> /\ \A u \in Users : ~In(subscribers[u], s)
               /\ stream[s].pc \in {"done", "refused"}

(***************************************************************************)
(* StreamIsServed: GET /notifications/stream is a "long-lived SSE          *)
(* connection" (comment of Stream).                                        *)
(***************************************************************************)
StreamIsServed == \A s \in Streams : stream[s].pc # "refused"
=============================================================================

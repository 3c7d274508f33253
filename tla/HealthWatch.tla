----------------------------- MODULE HealthWatch -----------------------------
(***************************************************************************)
(* The health service of grpcserver/health.go: SetServingStatus, Status,   *)
(* Shutdown and the Watch streams.                                         *)
(*                                                                         *)
(* A status is represented by the number of the update that set it, so     *)
(* that an older report can be told from a newer one with the same value;  *)
(* 0 is the status of a service that was never set.  Every call under      *)
(* HealthServer.mu is one step.                                            *)
(***************************************************************************)
EXTENDS Integers, Sequences

CONSTANTS
  Services,
  Watches,     \* Watch streams
  Buffer,      \* capacity of a watcher's channel
  MaxUpdates   \* bound: how often a status is set

VARIABLES
  status,      \* HealthServer.status
  updates,     \* how many updates there have been
  watchers,    \* HealthServer.watchers: the streams subscribed to each service
  ch,          \* each stream's channel
  pc, service, \* each stream: where it is, and the service it asked for
  report,      \* each stream: the status it is about to send
  sent,        \* each stream: the statuses the client has received
  dropped,     \* each stream: an update has been dropped
  todo         \* Shutdown: the services it still has to mark

setVars   == <<status, updates>>
watchVars == <<pc, service, report, sent>>
vars == <<setVars, watchers, ch, watchVars, dropped, todo>>

TypeOK ==
  /\ status \in [Services -> 0..MaxUpdates] /\ updates \in 0..MaxUpdates
  /\ watchers \in [Services -> SUBSET Watches]
  /\ ch \in [Watches -> Seq(1..MaxUpdates)]
  /\ \A w \in Watches : Len(ch[w]) <= Buffer
  /\ pc \in [Watches -> {"new", "status", "send", "wait", "leave", "gone"}]
  /\ service \in [Watches -> Services] /\ report \in [Watches -> 0..MaxUpdates]
  /\ sent \in [Watches -> Seq(0..MaxUpdates)]
  /\ dropped \in [Watches -> BOOLEAN] /\ todo \subseteq Services

Init ==
  /\ status = [s \in Services |-> 0] /\ updates = 0
  /\ watchers = [s \in Services |-> {}] /\ ch = [w \in Watches |-> <<>>]
  /\ pc = [w \in Watches |-> "new"] /\ service \in [Watches -> Services]
  /\ report = [w \in Watches |-> 0] /\ sent = [w \in Watches |-> <<>>]
  /\ dropped = [w \in Watches |-> FALSE] /\ todo = {}

-----------------------------------------------------------------------------
(* The application *)

\* The non-blocking send finds room.
publish(s, w) ==
  w \in watchers[s] /\ Len(ch[w]) < Buffer

set(s) ==
  /\ updates < MaxUpdates /\ updates' = updates + 1
  /\ status' = [status EXCEPT ![s] = updates']
  /\ ch' = [w \in Watches |-> IF publish(s, w) THEN Append(ch[w], updates')
                                               ELSE ch[w]]
  /\ dropped' = [w \in Watches |->
                   dropped[w] \/ (w \in watchers[s] /\ ~publish(s, w))]
  /\ UNCHANGED <<watchers, watchVars>>

SetServingStatus(s) == set(s) /\ UNCHANGED todo

\* The services are listed under the lock and marked one by one after it.
Shutdown ==
  /\ todo = {} /\ todo' = {s \in Services : status[s] > 0}
  /\ UNCHANGED <<setVars, watchers, ch, watchVars, dropped>>

ShutdownMarks(s) == s \in todo /\ set(s) /\ todo' = todo \ {s}

-----------------------------------------------------------------------------
(* A Watch stream *)

Go(w, l) == pc' = [pc EXCEPT ![w] = l]

subscribe(w) ==
  /\ pc[w] = "new" /\ Go(w, "status")
  /\ watchers' = [watchers EXCEPT ![service[w]] = @ \cup {w}]
  /\ UNCHANGED <<setVars, ch, service, report, sent, dropped, todo>>

\* The status for the first response.
Status(w) ==
  /\ pc[w] = "status" /\ Go(w, "send")
  /\ report' = [report EXCEPT ![w] = status[service[w]]]
  /\ UNCHANGED <<setVars, watchers, ch, service, sent, dropped, todo>>

\* A response is sent, or fails and ends the stream.
send(w) ==
  /\ pc[w] = "send"
  /\ \/ Go(w, "wait") /\ sent' = [sent EXCEPT ![w] = Append(@, report[w])]
     \/ Go(w, "leave") /\ UNCHANGED sent
  /\ UNCHANGED <<setVars, watchers, ch, service, report, dropped, todo>>

\* Mutant: the newest status in the channel is taken first.
receiveNewest(w) ==
  /\ pc[w] = "wait" /\ ch[w] # <<>> /\ Go(w, "send")
  /\ report' = [report EXCEPT ![w] = ch[w][Len(ch[w])]]
  /\ ch' = [ch EXCEPT ![w] = SubSeq(@, 1, Len(@) - 1)]
  /\ UNCHANGED <<setVars, watchers, service, sent, dropped, todo>>

receive(w) ==
  /\ pc[w] = "wait" /\ ch[w] # <<>> /\ Go(w, "send")
  /\ report' = [report EXCEPT ![w] = Head(ch[w])]
  /\ ch' = [ch EXCEPT ![w] = Tail(@)]
  /\ UNCHANGED <<setVars, watchers, service, sent, dropped, todo>>

\* The stream's context ends.
Done(w) ==
  /\ pc[w] = "wait" /\ Go(w, "leave")
  /\ UNCHANGED <<setVars, watchers, ch, service, report, sent, dropped, todo>>

unsubscribe(w) ==
  /\ pc[w] = "leave" /\ Go(w, "gone")
  /\ watchers' = [watchers EXCEPT ![service[w]] = @ \ {w}]
  /\ UNCHANGED <<setVars, ch, service, report, sent, dropped, todo>>

\* The Watch handler.
WatchStep(w) ==
  subscribe(w) \/ Status(w) \/ send(w) \/ receive(w) \/ unsubscribe(w)

Next ==
  \/ \E s \in Services : SetServingStatus(s) \/ ShutdownMarks(s)
  \/ Shutdown
  \/ \E w \in Watches : WatchStep(w) \/ Done(w)

Spec == Init /\ [][Next]_vars

-----------------------------------------------------------------------------
(* Properties *)

Last(w) == sent[w][Len(sent[w])]
CaughtUp(w) == pc[w] = "wait" /\ ch[w] = <<>>

\* Subscribing before reading the status loses no update: a client whose stream
\* has nothing left to send knows the current status, unless the channel has been
\* full.
WatchCurrent ==
  \A w \in Watches : CaughtUp(w) /\ ~dropped[w] => Last(w) = status[service[w]]

\* After the first two responses a client never receives an older status than
\* it already has, dropped updates or not: only the first response and the
\* channel can disagree.
ChannelInOrder ==
  \A w \in Watches : \A i \in 2..Len(sent[w]) - 1 : sent[w][i] < sent[w][i + 1]

-----------------------------------------------------------------------------
(* Claims of comments and documents that the code does not keep; the README   *)
(* says how each fails                                                        *)

\* The comment in SetServingStatus: when the channel is full the latest status wins.
LatestWins ==
  \A w \in Watches : CaughtUp(w) => Last(w) = status[service[w]]

\* The comment in Watch: at worst the client receives the same status twice.
NoOlderReport ==
  \A w \in Watches : \A i \in 1..Len(sent[w]) - 1 : sent[w][i] <= sent[w][i + 1]
=============================================================================

------------------------------- MODULE Server -------------------------------
(***************************************************************************)
(* The server above its connections: Serve, serveConn, acceptLoop,         *)
(* spawnStream, trackConn, Close and Shutdown of server/server.go (and     *)
(* serveConnReader of server/h2c.go, which does the same after an h2c      *)
(* upgrade).                                                               *)
(*                                                                         *)
(* Per connection there is a reader that registers and queues streams, one *)
(* accept loop and the handlers it spawns.  A step is one section under    *)
(* Server.mu, one AcceptStream, one look at ActiveStreams, one close of a  *)
(* connection or one GOAWAY.  A connection may be stalled: its peer does   *)
(* not read, and a write is blocked under wmu, which no deadline ends.     *)
(* Whatever needs wmu waits then.  The inside of a connection is in        *)
(* ConnTeardown and StreamLifecycle.                                       *)
(***************************************************************************)
EXTENDS Integers, FiniteSets, Totals

CONSTANTS
  Conns,      \* connections that clients open
  MaxStreams, \* bound: streams a client opens on one connection
  MayStall,   \* bound: connections whose peers may stop reading
  MaxConns,   \* Options.MaxConcurrentConnections; 0 is unlimited
  Idle,       \* Options.IdleTimeout is not disabled
  Calls       \* what happens to the server: subset of "close", "shutdown",
              \* "timeout" (Shutdown's context ends), "cancel" (Serve's context
              \* does), "drain" (Shutdown is called when Serve's context ends)

ASSUME ConstantsAssumption ==
  /\ IsFiniteSet(Conns) /\ MayStall \subseteq Conns
  /\ MaxStreams \in Nat /\ MaxConns \in Nat /\ Idle \in BOOLEAN
  /\ Calls \subseteq {"close", "shutdown", "timeout", "cancel", "drain"}

\* The streams of a client, numbered as it opens them on a connection.
Streams == Conns \X (1..MaxStreams)

VARIABLES
  closed, shutdown,
  conns,       \* Server.conns: the connections tracked
  closedStats, \* the streams accepted that forgetConn has folded in
  inFlight,    \* the WaitGroup
  cancelled,   \* Serve's context is done
  spc, snap,   \* Shutdown: "idle", "goaway", "wait", "done"; its snapshot
  untold,      \* the connections of snap that GoAwayGraceful is still to be sent to
  result,      \* what it returned: "none", "ok", "timeout", "closed"
  loop,        \* accept loop: "none", "shake", "accept", "got", "idle", "close",
               \* "exit", "gone"
  open,        \* connections that are not closed
  reading,     \* connections whose reader runs
  stalled,     \* connections on which a write is blocked
  stage,       \* stream: "new", "queued", "taken" by the loop, "run", "over"
  live,        \* the streams in the stream table of their connection
  accepted     \* ConnStats.StreamsAccepted

serverVars == <<closed, shutdown, inFlight, cancelled, spc, snap, untold, result>>
trackVars  == <<conns, closedStats>>
connVars   == <<open, reading, stalled>>
streamVars == <<stage, live, accepted>>
vars == <<serverVars, trackVars, loop, connVars, streamVars>>

TypeOK ==
  /\ closed \in BOOLEAN /\ shutdown \in BOOLEAN /\ cancelled \in BOOLEAN
  /\ conns \subseteq Conns /\ snap \subseteq Conns /\ untold \subseteq snap
  /\ closedStats \in Nat /\ inFlight \in Nat
  /\ spc \in {"idle", "goaway", "wait", "done"}
  /\ result \in {"none", "ok", "timeout", "closed"}
  /\ loop \in [Conns -> {"none", "shake", "accept", "got", "idle", "close",
                         "exit", "gone"}]
  /\ open \subseteq Conns /\ reading \subseteq open /\ stalled \subseteq reading
  /\ stage \in [Streams -> {"new", "queued", "taken", "run", "over"}]
  /\ live \subseteq Streams
  /\ accepted \in [Conns -> Nat]

Init ==
  /\ closed = FALSE /\ shutdown = FALSE /\ cancelled = FALSE
  /\ conns = {} /\ closedStats = 0 /\ inFlight = 0
  /\ spc = "idle" /\ snap = {} /\ untold = {} /\ result = "none"
  /\ loop = [c \in Conns |-> "none"]
  /\ open = {} /\ reading = {} /\ stalled = {}
  /\ stage = [s \in Streams |-> "new"] /\ live = {}
  /\ accepted = [c \in Conns |-> 0]

Goto(c, l) == loop' = [loop EXCEPT ![c] = l]
Move(s, g) == stage' = [stage EXCEPT ![s] = g]

OnConns(S) == {s \in Streams : s[1] \in S}
Running    == {s \in Streams : stage[s] = "run"}

\* ServerConn.Close, of every connection of S: it needs wmu for its GOAWAY, and
\* returns with the reader gone, which has drained the stream table.
CloseConns(S) ==
  /\ S \cap stalled = {}
  /\ open' = open \ S /\ reading' = reading \ S /\ live' = live \ OnConns(S)
  /\ UNCHANGED stalled

\* Mutant: the counters are folded in whether or not the connection is tracked.
forgetAgain(S) ==
  /\ closedStats' = closedStats + Total(accepted, S)
  /\ conns' = conns \ S

\* forgetConn, of every connection of S: a second time it does nothing.
forgetConn(S) ==
  /\ closedStats' = closedStats + Total(accepted, S \cap conns)
  /\ conns' = conns \ S

-----------------------------------------------------------------------------
(* Serve and serveConn *)

\* The listener is closed with the server.  The limit counts the connections that are
\* tracked.
Accept(c) ==
  /\ ~closed /\ loop[c] = "none"
  /\ IF MaxConns > 0 /\ Cardinality(conns) >= MaxConns
       THEN Goto(c, "gone") /\ UNCHANGED open
       ELSE Goto(c, "shake") /\ open' = open \cup {c}
  /\ UNCHANGED <<serverVars, trackVars, reading, stalled, streamVars>>

\* NewServerConn, the TLS checks and trackConn.
Handshake(c) ==
  /\ loop[c] = "shake"
  /\ \/ /\ Goto(c, "accept") /\ reading' = reading \cup {c}
        /\ conns' = conns \cup {c} /\ UNCHANGED <<open, stalled, live>>
     \/ Goto(c, "gone") /\ CloseConns({c}) /\ UNCHANGED conns
  /\ UNCHANGED <<serverVars, closedStats, stage, accepted>>

\* The reader registers a stream and queues it.
NewStream(s) ==
  /\ s[1] \in reading /\ stage[s] = "new"
  /\ \A t \in OnConns({s[1]}) : t[2] < s[2] => stage[t] # "new"
  /\ Move(s, "queued") /\ live' = live \cup {s}
  /\ UNCHANGED <<serverVars, trackVars, loop, connVars, accepted>>

\* A live stream is reset, by the client or for an error of the client's.  One that
\* waits in the queue is skipped when its turn comes; a handler goes on running.
ClientReset(s) ==
  /\ s \in live
  /\ live' = live \ {s}
  /\ IF stage[s] = "queued" THEN Move(s, "over") ELSE UNCHANGED stage
  /\ UNCHANGED <<serverVars, trackVars, loop, connVars, accepted>>

\* The client goes away, breaks the protocol or leaves a keepalive ping unanswered.
ReaderDies(c) ==
  /\ c \in reading
  /\ reading' = reading \ {c} /\ stalled' = stalled \ {c}
  /\ live' = live \ OnConns({c})
  /\ UNCHANGED <<serverVars, trackVars, loop, open, stage, accepted>>

\* The peer stops reading and a write blocks; the peer reads on.
Stall(c) ==
  /\ c \in reading \cap MayStall
  /\ \/ stalled' = stalled \cup {c}
     \/ stalled' = stalled \ {c}
  /\ UNCHANGED <<serverVars, trackVars, loop, open, reading, streamVars>>

-----------------------------------------------------------------------------
(* acceptLoop *)

\* Mutant: only streams that wait for the accept loop count.
QueuedStreams(c) == Cardinality({s \in live \cap OnConns({c}) : stage[s] = "queued"})

ActiveStreams(c) == Cardinality(live \cap OnConns({c}))

\* The first stream of the queue that has not been reset.
AcceptStream(s) ==
  /\ loop[s[1]] = "accept" /\ stage[s] = "queued"
  /\ \A t \in OnConns({s[1]}) : stage[t] = "queued" => s[2] <= t[2]
  /\ Move(s, "taken") /\ Goto(s[1], "got")
  /\ accepted' = [accepted EXCEPT ![s[1]] = @ + 1]
  /\ UNCHANGED <<serverVars, trackVars, connVars, live>>

\* Mutant: the flags are not looked at again under Server.mu.
spawnUnchecked(s) ==
  /\ stage[s] = "taken"
  /\ Move(s, "run") /\ Goto(s[1], "accept") /\ inFlight' = inFlight + 1
  /\ UNCHANGED <<closed, shutdown, cancelled, spc, snap, untold, result, trackVars,
                 connVars, live, accepted>>

\* A server that is stopping resets the stream and the loop ends.
spawnStream(s) ==
  /\ stage[s] = "taken"
  /\ IF shutdown \/ closed
       THEN /\ s \in live => s[1] \notin stalled
            /\ Move(s, "over") /\ live' = live \ {s} /\ Goto(s[1], "exit")
            /\ UNCHANGED inFlight
       ELSE /\ Move(s, "run") /\ Goto(s[1], "accept")
            /\ inFlight' = inFlight + 1 /\ UNCHANGED live
  /\ UNCHANGED <<closed, shutdown, cancelled, spc, snap, untold, result, trackVars,
                 connVars, accepted>>

\* Mutant: AcceptStream does not watch readerDone.
AcceptClosedOnly(c) ==
  /\ loop[c] = "accept" /\ c \notin open
  /\ Goto(c, "exit") /\ CloseConns({c})
  /\ UNCHANGED <<serverVars, trackVars, stage, accepted>>

\* ErrConnClosed: the connection is closed, or its reader has ended and the queue is
\* empty; closeIfFinished.
AcceptClosed(c) ==
  /\ loop[c] = "accept" /\ c \notin reading
  /\ c \in open => \A s \in OnConns({c}) : stage[s] # "queued"
  /\ Goto(c, "exit") /\ CloseConns({c})
  /\ UNCHANGED <<serverVars, trackVars, stage, accepted>>

\* The accept deadline passes with no stream live; otherwise the loop goes on.
AcceptDeadline(c) ==
  /\ Idle /\ loop[c] = "accept" /\ ActiveStreams(c) = 0
  /\ Goto(c, "idle")
  /\ UNCHANGED <<serverVars, trackVars, connVars, streamVars>>

\* closeIfFinished looks again, and leaves a connection that is in use alone.
closeIfFinished(c) ==
  /\ loop[c] = "idle"
  /\ Goto(c, IF ActiveStreams(c) = 0 THEN "close" ELSE "exit")
  /\ UNCHANGED <<serverVars, trackVars, connVars, streamVars>>

\* It closes the connection, on which a stream may have been opened since.
CloseIdle(c) ==
  /\ loop[c] = "close"
  /\ Goto(c, "exit") /\ CloseConns({c})
  /\ UNCHANGED <<serverVars, trackVars, stage, accepted>>

\* Serve's context has ended: closeIfFinished leaves the connection to others.
AcceptCancelled(c) ==
  /\ loop[c] = "accept" /\ cancelled
  /\ Goto(c, "exit")
  /\ UNCHANGED <<serverVars, trackVars, connVars, streamVars>>

\* The deferred trackConn(sc, false).
Untrack(c) ==
  /\ loop[c] = "exit"
  /\ Goto(c, "gone") /\ forgetConn({c})
  /\ UNCHANGED <<serverVars, connVars, streamVars>>

-----------------------------------------------------------------------------
(* serveStream *)

\* The response ends with the request, or Close resets the stream: it leaves the
\* table, and the handler may still run.
ResponseEnds(s) ==
  /\ stage[s] = "run" /\ s \in live /\ s[1] \notin stalled
  /\ live' = live \ {s}
  /\ UNCHANGED <<serverVars, trackVars, loop, connVars, stage, accepted>>

\* Mutant: inFlight.Done is skipped when the response could not be written.
doneIfOpen(s) ==
  /\ stage[s] = "run" /\ s \notin live
  /\ Move(s, "over")
  /\ inFlight' = IF s[1] \in reading THEN inFlight - 1 ELSE inFlight
  /\ UNCHANGED <<closed, shutdown, cancelled, spc, snap, untold, result, trackVars,
                 loop, connVars, live, accepted>>

\* serveStream returns, its stream closed: inFlight.Done.
serveStreamDone(s) ==
  /\ stage[s] = "run" /\ s \notin live
  /\ Move(s, "over") /\ inFlight' = inFlight - 1
  /\ UNCHANGED <<closed, shutdown, cancelled, spc, snap, untold, result, trackVars,
                 loop, connVars, live, accepted>>

-----------------------------------------------------------------------------
(* Close and Shutdown *)

Cancel ==
  /\ "cancel" \in Calls /\ ~cancelled
  /\ cancelled' = TRUE
  /\ UNCHANGED <<closed, shutdown, inFlight, spc, snap, untold, result, trackVars, loop,
                 connVars, streamVars>>

\* Server.Close, which only the first call of Close or Shutdown gets to run.
CloseServer ==
  /\ ~closed /\ closed' = TRUE
  /\ CloseConns(conns) /\ forgetConn(conns)
  /\ UNCHANGED <<shutdown, inFlight, cancelled, spc, snap, untold, result, loop, stage,
                 accepted>>

Close == "close" \in Calls /\ CloseServer

\* Serve's watcher: Close when the context ends.  It ends when the server is closed.
Watcher == cancelled /\ CloseServer

Shutdown ==
  /\ spc = "idle"
  /\ "shutdown" \in Calls \/ ("drain" \in Calls /\ cancelled)
  /\ IF closed
       THEN spc' = "done" /\ result' = "closed"
            /\ UNCHANGED <<closed, shutdown, snap, untold>>
       ELSE /\ closed' = TRUE /\ shutdown' = TRUE
            /\ snap' = conns /\ untold' = conns /\ spc' = "goaway"
            /\ UNCHANGED result
  /\ UNCHANGED <<inFlight, cancelled, trackVars, loop, connVars, streamVars>>

\* One GOAWAY after the other, each under wmu and with no deadline; Shutdown's context
\* is not looked at.
GoAwayGraceful(c) ==
  /\ spc = "goaway" /\ c \in untold \ stalled
  /\ untold' = untold \ {c}
  /\ UNCHANGED <<closed, shutdown, inFlight, cancelled, spc, snap, result, trackVars,
                 loop, connVars, streamVars>>

ShutdownWaits ==
  /\ spc = "goaway" /\ untold = {}
  /\ spc' = "wait"
  /\ UNCHANGED <<closed, shutdown, inFlight, cancelled, snap, untold, result, trackVars,
                 loop, connVars, streamVars>>

\* Every stream has completed, or Shutdown's context has ended: the connections of
\* the snapshot are closed.
ShutdownEnds(r) ==
  /\ spc = "wait"
  /\ IF r = "ok" THEN inFlight = 0 ELSE "timeout" \in Calls
  /\ CloseConns(snap) /\ forgetConn(snap)
  /\ spc' = "done" /\ result' = r
  /\ UNCHANGED <<closed, shutdown, inFlight, cancelled, snap, untold, loop, stage,
                 accepted>>

LoopStep(c) ==
  \/ \E s \in OnConns({c}) : AcceptStream(s) \/ spawnStream(s)
  \/ AcceptClosed(c) \/ closeIfFinished(c) \/ CloseIdle(c) \/ AcceptCancelled(c)
  \/ Untrack(c)

HandlerStep(s) == ResponseEnds(s) \/ serveStreamDone(s)

ShutdownStep ==
  \/ \E c \in Conns : GoAwayGraceful(c)
  \/ ShutdownWaits \/ ShutdownEnds("ok")

Next ==
  \/ \E c \in Conns :
       \/ LoopStep(c) \/ AcceptDeadline(c) \/ Accept(c) \/ Handshake(c)
       \/ ReaderDies(c) \/ Stall(c)
  \/ \E s \in Streams : NewStream(s) \/ ClientReset(s) \/ HandlerStep(s)
  \/ Cancel \/ Close \/ Watcher \/ Shutdown \/ ShutdownStep
  \/ ShutdownEnds("timeout")

\* Goroutines that can run do, and handlers return.
Fairness ==
  /\ \A c \in Conns : WF_vars(LoopStep(c))
  /\ \A s \in Streams : WF_vars(HandlerStep(s))
  /\ WF_vars(ShutdownStep)

Spec     == Init /\ [][Next]_vars
FairSpec == Spec /\ Fairness

-----------------------------------------------------------------------------
(* Properties *)

\* Once Shutdown has its snapshot no handler is added, so none while it waits on
\* inFlight: spawnStream looks at the flags and adds under the lock under which
\* Shutdown sets them.
NoAddAfterWait == spc \in {"goaway", "wait"} => inFlight' <= inFlight

\* A Shutdown that returned nil left no handler running on any connection, tracked
\* or not, and none of the connections it knew open.
DrainedMeansDone ==
  /\ TypeOK
  /\ result = "ok" => Running = {} /\ snap \cap open = {}

\* The WaitGroup is used as it must be, and what it says is true.
DrainSound == [][DrainedMeansDone' /\ NoAddAfterWait]_vars

\* Close has run, or a Shutdown that ran out of time has closed the connections.
Forced == (closed /\ ~shutdown) \/ result = "timeout"

\* While neither Close nor a Shutdown out of time intervenes, no connection whose
\* client is still there is closed under a handler that runs and whose stream is still
\* live, so could be answered: not by the idle timeout, whose two looks at ActiveStreams
\* and whose Close are apart, and not by the drain.
GracefulNeverCuts ==
  [][\A s \in live : /\ stage[s] = "run" /\ s[1] \in reading \ reading'
                     /\ s[1] \notin open'
                     => Forced']_vars

AcceptedTotal == closedStats + Total(accepted, conns)

\* TransportStats.StreamsAccepted never falls and never counts a stream twice,
\* whichever of the accept loop, Close and Shutdown forgets a connection first.
TotalsSound ==
  [][/\ AcceptedTotal' >= AcceptedTotal
     /\ AcceptedTotal' <= Total(accepted', Conns)]_vars

\* From some point on no write is blocked for good: every peer reads, or is gone.
PeersRead == <>[](stalled = {})

\* A Shutdown under way returns, if handlers do and every peer reads: its GOAWAYs, and
\* the GOAWAY of each Close, are written under wmu.
ShutdownReturns == PeersRead => (spc = "goaway" ~> spc = "done")

\* The accept loop of a connection that has ended ends too and untracks it, if every
\* peer reads: Close and Shutdown hold Server.mu while they close connections.
DeadConnForgotten ==
  PeersRead =>
    \A c \in Conns : (c \in conns /\ c \notin reading) ~> c \notin conns

-----------------------------------------------------------------------------
(* Claims of comments and documents that the code does not keep; the README   *)
(* says how each fails                                                        *)

\* closeIfFinished: nobody else closes the transport once the loop has returned, so
\* no connection may be left open then, but for one that Shutdown will close.
NoAbandonedConn ==
  \A c \in open : loop[c] = "gone" => spc \in {"goaway", "wait"} /\ c \in snap

\* Options: connections over MaxConcurrentConnections are closed.
ConnLimit == MaxConns > 0 => Cardinality(open) <= MaxConns

\* docs/usage.md: Shutdown, called when Serve's context ends, waits for in-flight
\* streams.
DrainWaits ==
  spc = "done" /\ result # "timeout" => Running = {}

\* Shutdown: it waits for in-flight streams to complete or the context to be
\* cancelled.  The GOAWAYs that come first end whatever the peers do.
GoAwaysEnd == spc = "goaway" ~> spc # "goaway"

=============================================================================

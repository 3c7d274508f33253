-------------------------- MODULE StreamLifecycle --------------------------
(***************************************************************************)
(* The life of the client-initiated streams of one HTTP/2 connection, from *)
(* the HEADERS frame that opens one to the release that forgets it:        *)
(* conn/server_handler.go (the frame callbacks), conn/stream_state.go,     *)
(* conn/server_stream.go, registerStream, markStreamDone and the           *)
(* RST_STREAM writers of conn/server_ops.go, and AcceptStream,             *)
(* shutdownStreams and the stream-scoped half of readerLoop in             *)
(* conn/server_conn.go.                                                    *)
(*                                                                         *)
(* Three kinds of goroutine run at once: the frame reader, one handler per *)
(* delivered stream, and the goroutine that push starts when an event      *)
(* buffer overflows.  A step is one atomic transition of a stream's state  *)
(* word, one wmu section (authorizeSend with the write that follows it, or *)
(* an RST_STREAM with the release that follows it) or one channel          *)
(* operation.  The reader is inside a callback while rtodo holds what the  *)
(* callback has still to do.                                               *)
(*                                                                         *)
(* Credit (SendCredits) and the octets of a field section are abstracted:  *)
(* a block is "good", "malformed", "oversized" (the decoded list is too    *)
(* long), "huge" (the encoded block is) or "undecodable".                  *)
(***************************************************************************)
EXTENDS Integers, Sequences, FiniteSets, Functions

CONSTANTS
  N,             \* stream s in 1..N has the client identifier 2s - 1
  MaxConcurrent, \* advertised MAX_CONCURRENT_STREAMS; 0 is unlimited
  QueueDepth,    \* capacity of acceptCh
  EventBuf,      \* capacity of a stream's event channel
  Budget,        \* rapid-reset budget; 0 disables it
  Blocks,        \* kinds of field block the client sends
  MaxFrames,     \* bound: frames the client sends
  MaxSends       \* bound: frames a handler sends on its stream

ASSUME ConstantsAssumption ==
  /\ N \in Nat \ {0} /\ MaxConcurrent \in Nat /\ QueueDepth \in Nat \ {0}
  /\ EventBuf \in Nat \ {0} /\ Budget \in Nat
  /\ Blocks \subseteq {"good", "malformed", "oversized", "huge", "undecodable"}
  /\ MaxFrames \in Nat /\ MaxSends \in Nat

Streams == 1..N

VARIABLES
  st,          \* ServerStream.st: the set of bits that are set
  live,        \* streamTable.streams
  maxClient,   \* streamTable.maxClient
  cancelled,   \* streams whose context is done
  acceptCh,
  log,         \* events put on each stream's channel, from the first
  taken,       \* how many of them Recv has returned
  wire,        \* HEADERS, DATA and RST_STREAM frames sent, per stream
  pending,     \* the open field block: stream (0 if none), end, trailer, discard
  rtodo,       \* what is left of the reader's callback, in order
  rs,          \* the stream it is about
  rblk,        \* the complete field block it carries
  rev,         \* the event it is about to push
  rdead,       \* readerLoop has returned
  undecoded,   \* complete field blocks the HPACK decoder has not been given
  rapidResetCount,
  frames,      \* bound counter: client frames so far
  hpc,         \* handler: "none", "run", "write", "sent", "release", "rst",
               \* "done"
  hend,        \* handler: END_STREAM flag of the frame being sent
  sends,       \* handler: frames it has sent
  gpc,         \* overflow goroutine: "none", "rst", "done"
  closed,      \* ServerConn.closed
  broken,      \* the transport has failed or been closed
  ndata,       \* history: DATA frames the reader has passed to push
  peerReset,   \* history: streams a client RST_STREAM found live
  opened       \* history: streams registerStream was given

streamVars == <<st, live, maxClient, cancelled, acceptCh>>
eventVars  == <<log, taken>>
readerVars == <<pending, rtodo, rs, rblk, rev, rdead, undecoded,
                rapidResetCount, frames>>
handlerVars == <<hpc, hend, sends, gpc>>
connVars   == <<closed, broken>>
histVars   == <<ndata, peerReset, opened>>
vars == <<streamVars, eventVars, wire, readerVars, handlerVars, connVars,
          histVars>>

Bits == {"RecvFields", "RecvEnded", "SentFields", "SentEnded", "Reset"}
EventTypes == {"headers", "data", "trailers", "reset"}
Event == [type : EventTypes, n : Nat, end : BOOLEAN]
Ends  == {"HE", "DE", "431"}
Frame == Ends \cup {"H", "D", "RST"}
Phase == {"emit", "discard", "refuse", "rst", "push", "overflow", "write431",
          "sent431", "release", "countRapid", "die", "shutdown"}

NoBlock   == [s |-> 0, end |-> FALSE, trailer |-> FALSE, discard |-> FALSE]
NoContent == [end |-> FALSE, trailer |-> FALSE, kind |-> "good"]
ResetEvent == [type |-> "reset", n |-> 0, end |-> TRUE]

TypeOK ==
  /\ st \in [Streams -> SUBSET Bits]
  /\ live \subseteq opened /\ opened \subseteq 1..maxClient
  /\ maxClient \in 0..N
  /\ cancelled \subseteq Streams
  /\ acceptCh \in Seq(Streams) /\ Len(acceptCh) <= QueueDepth
  /\ log \in [Streams -> Seq(Event)] /\ taken \in [Streams -> Nat]
  /\ \A s \in Streams : Len(log[s]) - taken[s] \in 0..EventBuf
  /\ wire \in [Streams -> Seq(Frame)]
  /\ pending \in [s : 0..N, end : BOOLEAN, trailer : BOOLEAN, discard : BOOLEAN]
  /\ rtodo \in Seq(Phase) /\ rs \in 0..N
  /\ rblk \in [end : BOOLEAN, trailer : BOOLEAN,
               kind : Blocks \cup {"good"}]
  /\ rev \in Event /\ rdead \in BOOLEAN /\ undecoded \in 0..1
  /\ rapidResetCount \in 0..Budget + 1 /\ frames \in 0..MaxFrames
  /\ hpc \in [Streams -> {"none", "run", "write", "sent", "release", "rst",
                          "done"}]
  /\ hend \in [Streams -> BOOLEAN] /\ sends \in [Streams -> 0..MaxSends]
  /\ gpc \in [Streams -> {"none", "rst", "done"}]
  /\ closed \in BOOLEAN /\ broken \in BOOLEAN
  /\ ndata \in [Streams -> 0..MaxFrames]
  /\ peerReset \subseteq opened

Init ==
  /\ st = [s \in Streams |-> {}]
  /\ live = {} /\ maxClient = 0 /\ cancelled = {} /\ acceptCh = <<>>
  /\ log = [s \in Streams |-> <<>>] /\ taken = [s \in Streams |-> 0]
  /\ wire = [s \in Streams |-> <<>>]
  /\ pending = NoBlock /\ rtodo = <<>> /\ rs = 0 /\ rblk = NoContent
  /\ rev = ResetEvent /\ rdead = FALSE /\ undecoded = 0
  /\ rapidResetCount = 0 /\ frames = 0
  /\ hpc = [s \in Streams |-> "none"] /\ hend = [s \in Streams |-> FALSE]
  /\ sends = [s \in Streams |-> 0] /\ gpc = [s \in Streams |-> "none"]
  /\ closed = FALSE /\ broken = FALSE
  /\ ndata = [s \in Streams |-> 0] /\ peerReset = {} /\ opened = {}

-----------------------------------------------------------------------------
(* stream_state.go and the exits of a stream *)

Terminal(x) == "Reset" \in x \/ {"RecvEnded", "SentEnded"} \subseteq x
Writable(x) == x \cap {"Reset", "SentEnded"} = {}

advance(s, bits) == st' = [st EXCEPT ![s] = @ \cup bits]

idle(s) == s > maxClient

\* streamTable.release and cancelCtx.
markStreamDone(s) ==
  /\ live' = live \ {s}
  /\ cancelled' = IF s \in live THEN cancelled \cup {s} ELSE cancelled

\* The wmu section of a RST_STREAM writer; the reset is already recorded.
writeRST(s) ==
  /\ wire' = IF closed \/ broken THEN wire
             ELSE [wire EXCEPT ![s] = Append(@, "RST")]
  /\ markStreamDone(s)

EventRoom(s) == Len(log[s]) - taken[s] < EventBuf

-----------------------------------------------------------------------------
(* Frame callbacks.  Each does what the callback does up to its first write  *)
(* or channel operation and leaves the rest in rtodo.                        *)

ReaderIdle == rtodo = <<>> /\ ~rdead
Receive == ReaderIdle /\ frames < MaxFrames /\ frames' = frames + 1

\* Any frame the connection may not receive now: the guards of server_handler.go
\* and the codec's own rejections.
ConnectionError ==
  /\ Receive
  /\ rtodo' = <<"die">>
  /\ UNCHANGED <<streamVars, eventVars, wire, pending, rs, rblk, rev, rdead,
                 undecoded, rapidResetCount, handlerVars, connVars, histVars>>

\* A read that fails below the protocol: the transport is not closed here.
ReadError ==
  /\ ReaderIdle
  /\ rtodo' = <<"shutdown">>
  /\ UNCHANGED <<streamVars, eventVars, wire, pending, rs, rblk, rev, rdead,
                 undecoded, rapidResetCount, frames, handlerVars, connVars,
                 histVars>>

\* What OnHeaders does with the fragment once the stream is known.
Fragment(s, end, endHeaders, kind, trailer, refused) ==
  LET first == IF refused THEN <<"refuse">> ELSE <<>>
  IN  /\ kind = "huge" => ~endHeaders
      /\ rs' = s
      /\ rblk' = [end |-> end, trailer |-> trailer, kind |-> kind]
      /\ CASE endHeaders ->
                /\ rtodo' = first \o (IF refused THEN <<"discard">>
                                      ELSE <<"emit">>)
                /\ undecoded' = undecoded + 1
                /\ UNCHANGED pending
           [] ~endHeaders /\ kind = "huge" ->
                /\ rtodo' = first \o <<"write431", "release", "die">>
                /\ UNCHANGED <<pending, undecoded>>
           [] OTHER ->
                /\ rtodo' = first
                /\ pending' = [s |-> s, end |-> end, trailer |-> trailer,
                               discard |-> refused]
                /\ UNCHANGED undecoded

\* OnHeaders on a new identifier: admitClient, then the send on acceptCh.  Either
\* refusal records the reset at the head of writeServerRSTStream.
OnHeadersNew(s, end, endHeaders, kind) ==
  /\ Receive
  /\ pending.s = 0
  /\ idle(s)
  /\ maxClient' = s /\ opened' = opened \cup {s}
  /\ LET room   == MaxConcurrent = 0 \/ Cardinality(live) < MaxConcurrent
         queued == room /\ Len(acceptCh) < QueueDepth
     IN  /\ live' = IF room THEN live \cup {s} ELSE live
         /\ acceptCh' = IF queued THEN Append(acceptCh, s) ELSE acceptCh
         /\ advance(s, IF queued THEN {} ELSE {"Reset"})
         /\ Fragment(s, end, endHeaders, kind, FALSE, ~queued)
  /\ UNCHANGED <<cancelled, eventVars, wire, rev, rdead, rapidResetCount,
                 handlerVars, connVars, ndata, peerReset>>

\* OnHeaders on a live stream.
OnHeadersLive(s, end, endHeaders, kind) ==
  /\ Receive
  /\ pending.s = 0
  /\ s \in live
  /\ Fragment(s, end, endHeaders, kind, "RecvFields" \in st[s], FALSE)
  /\ UNCHANGED <<streamVars, eventVars, wire, rev, rdead, rapidResetCount,
                 handlerVars, connVars, histVars>>

\* Mutant: the block of a vanished stream is dropped undecoded.
OnContinuationDrops(kind) ==
  /\ Receive
  /\ pending.s # 0
  /\ rs' = pending.s
  /\ rblk' = [end |-> pending.end, trailer |-> pending.trailer, kind |-> kind]
  /\ undecoded' = undecoded + 1
  /\ rtodo' = IF pending.discard \/ pending.s \in live THEN <<"emit">> ELSE <<>>
  /\ pending' = NoBlock
  /\ UNCHANGED <<streamVars, eventVars, wire, rev, rdead, rapidResetCount,
                 handlerVars, connVars, histVars>>

\* The CONTINUATION that completes the open block, or makes it too large.
OnContinuation(kind) ==
  /\ Receive
  /\ pending.s # 0
  /\ rs' = pending.s
  /\ rblk' = [end |-> pending.end, trailer |-> pending.trailer, kind |-> kind]
  /\ IF kind = "huge"
       THEN /\ rtodo' = IF pending.s \in live
                          THEN <<"write431", "release", "die">> ELSE <<"die">>
            /\ UNCHANGED undecoded
       ELSE /\ rtodo' = IF pending.discard \/ pending.s \notin live
                          THEN <<"discard">> ELSE <<"emit">>
            /\ undecoded' = undecoded + 1
  /\ UNCHANGED <<streamVars, eventVars, wire, pending, rev, rdead,
                 rapidResetCount, handlerVars, connVars, histVars>>

\* Mutant: END_STREAM already received is not looked at.
OnDataUnchecked(s, end) ==
  /\ Receive
  /\ pending.s = 0 /\ s \in live
  /\ rs' = s
  /\ ndata' = [ndata EXCEPT ![s] = @ + 1]
  /\ rev' = [type |-> "data", n |-> ndata[s] + 1, end |-> end]
  /\ advance(s, IF end THEN {"RecvEnded"} ELSE {})
  /\ rtodo' = IF end /\ "SentEnded" \in st[s] THEN <<"push", "release">>
              ELSE <<"push">>
  /\ UNCHANGED <<live, maxClient, cancelled, acceptCh, eventVars, wire, pending,
                 rblk, rdead, undecoded, rapidResetCount, handlerVars,
                 connVars, peerReset, opened>>

\* OnData; a frame for a stream that is gone is dropped.
OnData(s, end) ==
  /\ Receive
  /\ pending.s = 0 /\ ~idle(s)
  /\ \/ /\ s \notin live
        /\ UNCHANGED <<st, rtodo, rs, rev, ndata>>
     \/ /\ s \in live /\ "RecvEnded" \in st[s]
        /\ rs' = s
        /\ advance(s, {"Reset"})
        /\ rtodo' = <<"rst">>
        /\ UNCHANGED <<rev, ndata>>
     \/ /\ s \in live /\ "RecvEnded" \notin st[s]
        /\ rs' = s
        /\ ndata' = [ndata EXCEPT ![s] = @ + 1]
        /\ rev' = [type |-> "data", n |-> ndata[s] + 1, end |-> end]
        /\ advance(s, IF end THEN {"RecvEnded"} ELSE {})
        /\ rtodo' = IF end /\ "SentEnded" \in st[s] THEN <<"push", "release">>
                    ELSE <<"push">>
  /\ UNCHANGED <<live, maxClient, cancelled, acceptCh, eventVars, wire, pending,
                 rblk, rdead, undecoded, rapidResetCount, handlerVars,
                 connVars, peerReset, opened>>

\* OnRSTStream: a stream that is gone is charged as a rapid reset.
OnRSTStream(s) ==
  /\ Receive
  /\ pending.s = 0 /\ ~idle(s)
  /\ rs' = s
  /\ \/ /\ s \notin live
        /\ rtodo' = <<"countRapid">>
        /\ UNCHANGED <<st, rev, peerReset>>
     \/ /\ s \in live
        /\ advance(s, {"RecvEnded", "Reset"})
        /\ rev' = ResetEvent
        /\ peerReset' = peerReset \cup {s}
        /\ rtodo' = <<"push", "release">>
                     \o (IF "RecvEnded" \in st[s] THEN <<>>
                         ELSE <<"countRapid">>)
  /\ UNCHANGED <<live, maxClient, cancelled, acceptCh, eventVars, wire, pending,
                 rblk, rdead, undecoded, rapidResetCount, handlerVars,
                 connVars, ndata, opened>>

\* A WINDOW_UPDATE that overflows the stream's send window.
WindowOverflow(s) ==
  /\ Receive
  /\ pending.s = 0 /\ s \in live
  /\ rs' = s
  /\ advance(s, {"Reset"})
  /\ rev' = ResetEvent
  /\ rtodo' = <<"push", "rst">>
  /\ UNCHANGED <<live, maxClient, cancelled, acceptCh, eventVars, wire, pending,
                 rblk, rdead, undecoded, rapidResetCount, handlerVars,
                 connVars, histVars>>

\* writeRSTStreamID, for a PRIORITY of the wrong length or a zero increment on a
\* stream that is not idle.
writeRSTStreamID(s) ==
  /\ Receive
  /\ pending.s = 0 /\ ~idle(s) /\ ~closed
  /\ rs' = s
  /\ advance(s, IF s \in live THEN {"Reset"} ELSE {})
  /\ rtodo' = <<"rst">>
  /\ UNCHANGED <<live, maxClient, cancelled, acceptCh, eventVars, wire, pending,
                 rblk, rev, rdead, undecoded, rapidResetCount, handlerVars,
                 connVars, histVars>>

-----------------------------------------------------------------------------
(* The rest of a callback *)

At(phase) == rtodo # <<>> /\ Head(rtodo) = phase

\* emitHeaderBlock from the decode to the state transition.  advance(RecvFields)
\* precedes the decode; only the reader looks at that bit.
emitHeaderBlock ==
  /\ At("emit")
  /\ undecoded' = undecoded - 1
  /\ pending' = NoBlock
  /\ LET fields == IF rblk.trailer THEN {} ELSE {"RecvFields"}
         bad    == rblk.kind = "malformed" \/ (rblk.trailer /\ ~rblk.end)
     IN  CASE rblk.kind = "undecodable" ->
                /\ rtodo' = <<"die">> /\ advance(rs, fields)
                /\ UNCHANGED rev
           [] rblk.kind = "oversized" ->
                /\ rtodo' = <<"write431", "release">> /\ advance(rs, fields)
                /\ UNCHANGED rev
           [] rblk.kind \notin {"undecodable", "oversized"}
                /\ ("RecvEnded" \in st[rs] \/ bad) ->
                /\ rtodo' = <<"rst">> /\ advance(rs, fields \cup {"Reset"})
                /\ UNCHANGED rev
           [] OTHER ->
                /\ advance(rs, fields \cup
                               (IF rblk.end THEN {"RecvEnded"} ELSE {}))
                /\ rev' = [type |-> IF rblk.trailer THEN "trailers"
                                    ELSE "headers",
                           n |-> 0, end |-> rblk.end]
                /\ rtodo' = IF rblk.end /\ "SentEnded" \in st[rs]
                              THEN <<"push", "release">> ELSE <<"push">>
  /\ UNCHANGED <<live, maxClient, cancelled, acceptCh, eventVars, wire, rs,
                 rblk, rdead, rapidResetCount, frames, handlerVars, connVars,
                 histVars>>

\* discardHeaderBlock: decoded for the dynamic table's sake only.
discardHeaderBlock ==
  /\ At("discard")
  /\ undecoded' = undecoded - 1
  /\ pending' = NoBlock
  /\ rtodo' = IF rblk.kind = "undecodable" THEN <<"die">> ELSE Tail(rtodo)
  /\ UNCHANGED <<streamVars, eventVars, wire, rs, rblk, rev, rdead,
                 rapidResetCount, frames, handlerVars, connVars, histVars>>

\* Mutant: a refused stream keeps its context.
RefuseNoCancel ==
  /\ At("refuse")
  /\ writeRST(rs)
  /\ rtodo' = Tail(rtodo)
  /\ UNCHANGED <<st, maxClient, acceptCh, eventVars, pending, rs, rblk, rev,
                 rdead, undecoded, rapidResetCount, frames, handlerVars,
                 connVars, histVars>>

\* RST_STREAM(REFUSED_STREAM), then the cancel that registerStream adds.
Refuse ==
  /\ At("refuse")
  /\ wire' = IF closed \/ broken THEN wire
             ELSE [wire EXCEPT ![rs] = Append(@, "RST")]
  /\ live' = live \ {rs} /\ cancelled' = cancelled \cup {rs}
  /\ rtodo' = Tail(rtodo)
  /\ UNCHANGED <<st, maxClient, acceptCh, eventVars, pending, rs, rblk, rev,
                 rdead, undecoded, rapidResetCount, frames, handlerVars,
                 connVars, histVars>>

ReaderRST ==
  /\ At("rst")
  /\ writeRST(rs)
  /\ rtodo' = Tail(rtodo)
  /\ UNCHANGED <<st, maxClient, acceptCh, eventVars, pending, rs, rblk, rev,
                 rdead, undecoded, rapidResetCount, frames, handlerVars,
                 connVars, histVars>>

\* push: into the channel, or, when it is full, a reset and a goroutine to write
\* it.  A stream that was reset already drops the event.
push ==
  /\ At("push")
  /\ \/ /\ EventRoom(rs)
        /\ log' = [log EXCEPT ![rs] = Append(@, rev)]
        /\ rtodo' = Tail(rtodo)
        /\ UNCHANGED <<st, gpc>>
     \/ /\ ~EventRoom(rs) /\ "Reset" \in st[rs]
        /\ rtodo' = Tail(rtodo)
        /\ UNCHANGED <<st, gpc, log>>
     \/ /\ ~EventRoom(rs) /\ "Reset" \notin st[rs]
        /\ advance(rs, {"Reset"})
        /\ gpc' = [gpc EXCEPT ![rs] = "rst"]
        /\ rtodo' = <<"overflow">> \o Tail(rtodo)
        /\ UNCHANGED log
  /\ UNCHANGED <<live, maxClient, cancelled, acceptCh, taken, wire, pending, rs,
                 rblk, rev, rdead, undecoded, rapidResetCount, frames, hpc,
                 hend, sends, connVars, histVars>>

\* The second, equally non-blocking, send of push.
PushReset ==
  /\ At("overflow")
  /\ log' = IF EventRoom(rs) THEN [log EXCEPT ![rs] = Append(@, ResetEvent)]
            ELSE log
  /\ rtodo' = Tail(rtodo)
  /\ UNCHANGED <<streamVars, taken, wire, pending, rs, rblk, rev, rdead,
                 undecoded, rapidResetCount, frames, handlerVars, connVars,
                 histVars>>

\* respondFieldsTooLarge: SendHeaders with END_STREAM by the reader itself ...
respondFieldsTooLarge ==
  /\ At("write431")
  /\ IF ~Writable(st[rs]) \/ closed \/ broken
       THEN rtodo' = Tail(rtodo) /\ UNCHANGED wire
       ELSE /\ wire' = [wire EXCEPT ![rs] = Append(@, "431")]
            /\ rtodo' = <<"sent431">> \o Tail(rtodo)
  /\ UNCHANGED <<streamVars, eventVars, pending, rs, rblk, rev, rdead,
                 undecoded, rapidResetCount, frames, handlerVars, connVars,
                 histVars>>

\* ... whose state transition comes after wmu is released.
ReaderSent ==
  /\ At("sent431")
  /\ advance(rs, {"SentFields", "SentEnded"})
  /\ rtodo' = Tail(rtodo)
  /\ UNCHANGED <<live, maxClient, cancelled, acceptCh, eventVars, wire, pending,
                 rs, rblk, rev, rdead, undecoded, rapidResetCount, frames,
                 handlerVars, connVars, histVars>>

ReaderRelease ==
  /\ At("release")
  /\ markStreamDone(rs)
  /\ rtodo' = Tail(rtodo)
  /\ UNCHANGED <<st, maxClient, acceptCh, eventVars, wire, pending, rs, rblk,
                 rev, rdead, undecoded, rapidResetCount, frames, handlerVars,
                 connVars, histVars>>

onClientRSTStream ==
  /\ At("countRapid")
  /\ IF Budget = 0
       THEN rtodo' = Tail(rtodo) /\ UNCHANGED rapidResetCount
       ELSE /\ rapidResetCount' = rapidResetCount + 1
            /\ rtodo' = IF rapidResetCount + 1 > Budget THEN <<"die">>
                        ELSE Tail(rtodo)
  /\ UNCHANGED <<streamVars, eventVars, wire, pending, rs, rblk, rev, rdead,
                 undecoded, frames, handlerVars, connVars, histVars>>

\* GOAWAY, then the transport is closed.
Die ==
  /\ At("die")
  /\ broken' = TRUE
  /\ rtodo' = <<"shutdown">>
  /\ UNCHANGED <<streamVars, eventVars, wire, pending, rs, rblk, rev, rdead,
                 undecoded, rapidResetCount, frames, handlerVars, closed,
                 histVars>>

\* shutdownStreams: every live stream gets a reset event if there is room, then
\* its context is cancelled; the reader is gone.
shutdownStreams ==
  /\ At("shutdown")
  /\ log' = [s \in Streams |-> IF s \in live /\ EventRoom(s)
                                 THEN Append(log[s], ResetEvent) ELSE log[s]]
  /\ live' = {} /\ cancelled' = cancelled \cup live
  /\ rtodo' = <<>> /\ rdead' = TRUE
  /\ UNCHANGED <<st, maxClient, acceptCh, taken, wire, pending, rs, rblk, rev,
                 undecoded, rapidResetCount, frames, handlerVars, connVars,
                 histVars>>

-----------------------------------------------------------------------------
(* The application's side *)

\* AcceptStream takes the head of the queue: a terminal stream is skipped.
AcceptStream ==
  /\ acceptCh # <<>> /\ ~closed
  /\ acceptCh' = Tail(acceptCh)
  /\ hpc' = IF Terminal(st[Head(acceptCh)]) THEN hpc
            ELSE [hpc EXCEPT ![Head(acceptCh)] = "run"]
  /\ UNCHANGED <<st, live, maxClient, cancelled, eventVars, wire, readerVars,
                 hend, sends, gpc, connVars, histVars>>

Recv(s) ==
  /\ hpc[s] = "run"
  /\ taken[s] < Len(log[s])
  /\ taken' = [taken EXCEPT ![s] = @ + 1]
  /\ UNCHANGED <<streamVars, log, wire, readerVars, handlerVars, connVars,
                 histVars>>

\* SendHeaders for the first frame and SendData for the later ones, past the
\* early exits.
Send(s, end) ==
  /\ hpc[s] = "run" /\ sends[s] < MaxSends
  /\ Writable(st[s]) /\ ~closed
  /\ hpc' = [hpc EXCEPT ![s] = "write"]
  /\ hend' = [hend EXCEPT ![s] = end]
  /\ UNCHANGED <<streamVars, eventVars, wire, readerVars, sends, gpc, connVars,
                 histVars>>

\* Mutant: the early exit is trusted inside the write lock.
WriteUnauthorized(s) ==
  /\ hpc[s] = "write"
  /\ wire' = [wire EXCEPT ![s] = Append(@, "H")]
  /\ hpc' = [hpc EXCEPT ![s] = "run"]
  /\ UNCHANGED <<streamVars, eventVars, readerVars, sends, hend, gpc, connVars,
                 histVars>>

\* The wmu section: authorizeSend, then the frame.
Write(s) ==
  /\ hpc[s] = "write"
  /\ \/ /\ closed \/ broken \/ ~Writable(st[s])
        /\ hpc' = [hpc EXCEPT ![s] = "run"]
        /\ UNCHANGED <<wire, sends>>
     \/ /\ ~closed /\ ~broken /\ Writable(st[s])
        /\ wire' = [wire EXCEPT ![s] = Append(@,
                      CASE sends[s] = 0 /\ hend[s] -> "HE"
                        [] sends[s] = 0 /\ ~hend[s] -> "H"
                        [] sends[s] > 0 /\ hend[s] -> "DE"
                        [] OTHER -> "D")]
        /\ sends' = [sends EXCEPT ![s] = @ + 1]
        /\ hpc' = [hpc EXCEPT ![s] = "sent"]
  /\ UNCHANGED <<streamVars, eventVars, readerVars, hend, gpc, connVars,
                 histVars>>

\* Mutant: the local half is ended without asking whether the remote one was.
SentForgets(s) ==
  /\ hpc[s] = "sent"
  /\ advance(s, {"SentFields"} \cup (IF hend[s] THEN {"SentEnded"} ELSE {}))
  /\ hpc' = [hpc EXCEPT ![s] = "run"]
  /\ UNCHANGED <<live, maxClient, cancelled, acceptCh, eventVars, wire,
                 readerVars, hend, sends, gpc, connVars, histVars>>

\* advance(SentFields) and markLocalEnd, after wmu is released.
Sent(s) ==
  /\ hpc[s] = "sent"
  /\ advance(s, {"SentFields"} \cup (IF hend[s] THEN {"SentEnded"} ELSE {}))
  /\ hpc' = [hpc EXCEPT ![s] = IF hend[s] /\ "RecvEnded" \in st[s]
                                 THEN "release" ELSE "run"]
  /\ UNCHANGED <<live, maxClient, cancelled, acceptCh, eventVars, wire,
                 readerVars, hend, sends, gpc, connVars, histVars>>

HandlerRelease(s) ==
  /\ hpc[s] = "release"
  /\ markStreamDone(s)
  /\ hpc' = [hpc EXCEPT ![s] = "run"]
  /\ UNCHANGED <<st, maxClient, acceptCh, eventVars, wire, readerVars, hend,
                 sends, gpc, connVars, histVars>>

\* ServerStream.Close, the handler's last call.
Close(s) ==
  /\ hpc[s] = "run"
  /\ advance(s, {"Reset"})
  /\ hpc' = [hpc EXCEPT ![s] = IF Terminal(st[s]) THEN "done" ELSE "rst"]
  /\ UNCHANGED <<live, maxClient, cancelled, acceptCh, eventVars, wire,
                 readerVars, hend, sends, gpc, connVars, histVars>>

HandlerRST(s) ==
  /\ hpc[s] = "rst"
  /\ writeRST(s)
  /\ hpc' = [hpc EXCEPT ![s] = "done"]
  /\ UNCHANGED <<st, maxClient, acceptCh, eventVars, readerVars, hend, sends,
                 gpc, connVars, histVars>>

\* The goroutine push started.
OverflowRST(s) ==
  /\ gpc[s] = "rst"
  /\ writeRST(s)
  /\ gpc' = [gpc EXCEPT ![s] = "done"]
  /\ UNCHANGED <<st, maxClient, acceptCh, eventVars, readerVars, hpc, hend,
                 sends, connVars, histVars>>

\* ServerConn.Close as the streams see it.
CloseConn ==
  /\ ~closed
  /\ closed' = TRUE /\ broken' = TRUE
  /\ cancelled' = Streams
  /\ UNCHANGED <<st, live, maxClient, acceptCh, eventVars, wire, readerVars,
                 handlerVars, histVars>>

-----------------------------------------------------------------------------
ReaderStep ==
  \/ emitHeaderBlock \/ discardHeaderBlock \/ Refuse \/ ReaderRST
  \/ push \/ PushReset \/ respondFieldsTooLarge \/ ReaderSent
  \/ ReaderRelease \/ onClientRSTStream \/ Die \/ shutdownStreams

ClientFrame ==
  \/ ConnectionError
  \/ \E s \in Streams, end \in BOOLEAN, last \in BOOLEAN, kind \in Blocks :
       OnHeadersNew(s, end, last, kind) \/ OnHeadersLive(s, end, last, kind)
  \/ \E kind \in Blocks : OnContinuation(kind)
  \/ \E s \in Streams, end \in BOOLEAN : OnData(s, end)
  \/ \E s \in Streams :
       OnRSTStream(s) \/ WindowOverflow(s) \/ writeRSTStreamID(s)

HandlerStep(s) == Write(s) \/ Sent(s) \/ HandlerRelease(s) \/ HandlerRST(s)

Next ==
  \/ ReaderStep \/ ClientFrame \/ ReadError
  \/ AcceptStream
  \/ \E s \in Streams :
       HandlerStep(s) \/ OverflowRST(s) \/ Recv(s) \/ Close(s)
  \/ \E s \in Streams, end \in BOOLEAN : Send(s, end)
  \/ CloseConn

Spec == Init /\ [][Next]_vars

\* A goroutine in the middle of a call goes on; neither the client nor the
\* application is forced to do anything.  A step that writes under wmu goes on only
\* while the peer reads, which is assumed of it here.
Fairness ==
  /\ WF_vars(ReaderStep)
  /\ \A s \in Streams : WF_vars(HandlerStep(s)) /\ WF_vars(OverflowRST(s))

FairSpec == Spec /\ Fairness

-----------------------------------------------------------------------------
(* Properties *)

\* A stream whose state is terminal leaves the table: while it is still there,
\* some goroutine has the release ahead of it, whoever won the race between
\* markLocalEnd and markRemoteEnd or between two resets.
ReleaseOwed ==
  \A s \in live : Terminal(st[s]) =>
    \/ rs = s /\ Range(rtodo) \cap {"release", "rst", "refuse"} # {}
    \/ Range(rtodo) \cap {"die", "shutdown"} # {}
    \/ hpc[s] \in {"release", "rst"} \/ gpc[s] = "rst"

\* "a stream cannot be closed without being removed or removed without being
\* closed" (stream_table.go:30): a stream that has left the table, or was never
\* let in, has its context cancelled, by teardown too (issue #139).
ReleasedCancelled ==
  \A s \in opened \ live :
    s \in cancelled \/ (rs = s /\ "refuse" \in Range(rtodo))

\* "Closed" and "removed" are one fact about a stream, whichever of the reader, the
\* handler, the overflow goroutine and the teardown gets there first.
ReleasedOnce == ReleaseOwed /\ ReleasedCancelled

\* No HEADERS or DATA follows RST_STREAM on the wire: "a writer that re-reads
\* the state while holding wmu cannot miss one that has already reached the
\* wire" (server_stream.go:221).
NoFrameAfterReset ==
  \A s \in Streams : \A i, j \in DOMAIN wire[s] :
    i < j /\ wire[s][i] = "RST" => wire[s][j] = "RST"

\* The handler never sees body or trailers behind its own EOF: what follows an
\* event with EndStream on the channel is a reset.
EofIsLast ==
  /\ TypeOK
  /\ \A s \in Streams : \A i, j \in DOMAIN log[s] :
       i < j /\ log[s][i].end /\ log[s][i].type # "reset"
         => log[s][j].type = "reset"

\* Every complete field block reaches the shared HPACK decoder before the next
\* frame is read, whether its stream is served, refused, answered with 431,
\* reset or gone; a block that is not decoded ends the connection.
HpackInSync == rtodo = <<>> => undecoded = 0

\* "an endpoint MUST NOT send a RST_STREAM in response to a RST_STREAM": once
\* the client has reset a stream, neither its handler nor an event overflow
\* decides to reset it.
NoResetAnswersReset ==
  \A s \in peerReset : /\ hpc'[s] = "rst" => hpc[s] = "rst"
                       /\ gpc'[s] = "rst" => gpc[s] = "rst"

\* A reset, of either side, is the end of a stream on the wire: the handler's frames,
\* the overflow goroutine's reset and the reader's callbacks all respect it.
ResetIsFinal == [][NoFrameAfterReset' /\ NoResetAnswersReset]_vars

\* Every stream that ends or is reset leaves the table.
TerminalLeaves ==
  \A s \in Streams : (s \in live /\ Terminal(st[s])) ~> s \notin live

-----------------------------------------------------------------------------
(* Claims of comments and documents that the code does not keep; the README   *)
(* says how each fails                                                        *)

\* push "drops the stream and resets it" on overflow (server_stream.go:349): the
\* body a handler reads has no hole, the DATA events on the channel are the
\* first ones that arrived.
NoGapInBody ==
  \A s \in Streams :
    LET data == SelectSeq(log[s], LAMBDA e : e.type = "data")
    IN  \A i \in DOMAIN data : data[i].n = i

\* "Single-goroutine: the handler owns the stream after AcceptStream"
\* (server_stream.go:13): nothing is sent on a stream after its END_STREAM.
NoFrameAfterEnd ==
  \A s \in Streams : \A i, j \in DOMAIN wire[s] :
    i < j /\ wire[s][i] \in Ends => wire[s][j] = "RST"

\* "Defensive (unreachable with a single reader goroutine)"
\* (server_handler.go:400): the stream of an open field block is in the table.
OpenBlockStreamLive ==
  ReaderIdle /\ pending.s # 0 /\ ~pending.discard => pending.s \in live

\* "streams that died while they waited in that queue, are all excluded"
\* (server_conn.go:286): a stream handed to the application, and counted, is
\* still in the table unless the connection has ended.
DeliveredAlive ==
  [][\A s \in Streams : hpc[s] = "none" /\ hpc'[s] # "none" /\ ~rdead
                           => s \in live]_vars

\* "benign post-completion cancellations are ignored" (server_ops.go:130): the
\* reset of a stream that ended normally is not charged to the budget.
CompletedNotCharged ==
  "countRapid" \in Range(rtodo) =>
    "Reset" \in st[rs] \/ ~({"RecvEnded", "SentEnded"} \subseteq st[rs])

=============================================================================

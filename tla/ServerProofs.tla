---------------------------- MODULE ServerProofs ----------------------------
(***************************************************************************)
(* What Server promises for any finite set of connections, any number of   *)
(* streams on each and any connection limit: a Shutdown that returns nil   *)
(* has drained the server, only Close and a Shutdown out of time cut a     *)
(* running handler off, and the totals neither fall nor count twice.       *)
(*                                                                         *)
(* The invariant behind them, ServerInv, says that the WaitGroup counts    *)
(* the running handlers of all connections (InFlightExact), that a         *)
(* Shutdown under way has set the flag spawnStream looks at (StoppedInv),  *)
(* where each accept loop is in the life of its connection (LoopInv), and  *)
(* that between its second look at ActiveStreams and its Close no handler  *)
(* of the connection serves a live stream (IdleInv).                       *)
(***************************************************************************)
EXTENDS Server, TotalsProofs

USE ZenonT(60)

InFlightExact == inFlight = Cardinality(Running)

StoppedInv ==
  /\ shutdown => closed
  /\ spc \in {"goaway", "wait"} => shutdown
  /\ result = "ok" => /\ spc = "done" /\ shutdown /\ inFlight = 0
                      /\ snap \cap open = {}

LoopInv ==
  \A c \in Conns :
    /\ c \in conns \cup snap \cup reading => loop[c] \notin {"none", "shake"}
    /\ loop[c] = "shake" => c \in open
    /\ loop[c] \in {"none", "shake"} => accepted[c] = 0

\* A stream may be opened once the loop has looked, but only the loop starts handlers.
IdleInv == \A s \in live : loop[s[1]] = "close" => stage[s] # "run"

ServerInv ==
  /\ TypeOK /\ InFlightExact /\ StoppedInv /\ LoopInv /\ IdleInv
  /\ AcceptedTotal <= Total(accepted, Conns)

-----------------------------------------------------------------------------
(* Totals over connections *)

Counts == [Conns -> Nat]

LEMMA TotalType ==
  ASSUME NEW f \in Counts, NEW S \in SUBSET Conns
  PROVE  Total(f, S) \in Nat
BY ConstantsAssumption, Capped, UnitsFinite DEF Counts

LEMMA NoneCounted ==
  ASSUME NEW f \in Counts, NEW S \in SUBSET Conns, \A c \in S : f[c] = 0
  PROVE  Total(f, S) = 0
<1>1. PICK max \in Nat : f \in [Conns -> 0..max]
  BY ConstantsAssumption, Capped DEF Counts
<1> QED BY <1>1, ConstantsAssumption, TotalZero

\* One stream more on a connection.
LEMMA TotalUp ==
  ASSUME NEW f \in Counts, NEW S \in SUBSET Conns, NEW c \in Conns
  PROVE  Total([f EXCEPT ![c] = @ + 1], S)
           = IF c \in S THEN Total(f, S) + 1 ELSE Total(f, S)
<1> DEFINE g == [f EXCEPT ![c] = @ + 1]
<1>1. PICK max \in Nat : f \in [Conns -> 0..max]
  BY ConstantsAssumption, Capped DEF Counts
<1>2. /\ g \in [Conns -> 0..(max + 1)] /\ f \in [Conns -> 0..(max + 1)]
      /\ f[c] \in Nat /\ g[c] = f[c] + 1 /\ max + 1 \in Nat
      /\ \A d \in Conns : d # c => g[d] = f[d]
  BY <1>1, SMTT(30)
<1> HIDE DEF g
<1>3. Total(g, S) = IF c \in S THEN Total(f, S) - f[c] + g[c] ELSE Total(f, S)
  BY <1>2, ConstantsAssumption, TotalChange, SMTT(30)
<1> QED BY <1>2, <1>3, TotalType, SMTT(30) DEF g

\* The total over some connections and over the others.
LEMMA SplitConns ==
  ASSUME NEW f \in Counts, NEW S \in SUBSET Conns, NEW T \in SUBSET S
  PROVE  Total(f, S) = Total(f, T) + Total(f, S \ T)
<1>1. PICK max \in Nat : f \in [Conns -> 0..max]
  BY ConstantsAssumption, Capped DEF Counts
<1> QED BY <1>1, ConstantsAssumption, TotalSplit, SMTT(30)

\* The counters of the connections that are forgotten move to closedStats.
LEMMA ForgetConserves ==
  ASSUME TypeOK, NEW S \in SUBSET Conns, forgetConn(S), UNCHANGED accepted
  PROVE  /\ closedStats' \in Nat /\ conns' \subseteq conns
         /\ AcceptedTotal' = AcceptedTotal
<1>1. /\ closedStats \in Nat /\ accepted \in Counts
      /\ conns \in SUBSET Conns /\ S \cap conns \in SUBSET conns
      /\ S \cap conns \in SUBSET Conns /\ conns \ (S \cap conns) \in SUBSET Conns
  BY DEF TypeOK, Counts
<1>2. conns' = conns \ (S \cap conns) /\ closedStats' = closedStats + Total(accepted, S \cap conns)
  BY DEF forgetConn
<1>3. Total(accepted, conns) = Total(accepted, S \cap conns) + Total(accepted, conns')
  BY <1>1, <1>2, SplitConns, SMTT(30)
<1>4. /\ Total(accepted, S \cap conns) \in Nat /\ Total(accepted, conns') \in Nat
      /\ Total(accepted, conns) \in Nat
  BY <1>1, <1>2, TotalType
<1> QED BY <1>1, <1>2, <1>3, <1>4, SMTT(30) DEF AcceptedTotal

-----------------------------------------------------------------------------
(* Streams and handlers *)

LEMMA StreamsFinite == IsFiniteSet(Streams)
<1>1. IsFiniteSet(1..MaxStreams)
  BY ConstantsAssumption, FS_Interval, SMTT(30)
<1> QED BY <1>1, ConstantsAssumption, FS_Product DEF Streams

LEMMA StreamConn ==
  /\ \A s \in Streams : s[1] \in Conns
  /\ \A S : \A s : s \in OnConns(S) <=> s \in Streams /\ s[1] \in S
BY SMTT(30) DEF Streams, OnConns

LEMMA HandlersFinite ==
  /\ IsFiniteSet(Running) /\ Running \subseteq Streams
  /\ Cardinality(Running) \in Nat
  /\ Cardinality(Running) = 0 <=> Running = {}
<1>1. Running \subseteq Streams
  BY DEF Running
<1> QED BY <1>1, StreamsFinite, FS_Subset, FS_CardinalityType, FS_EmptySet

\* Nothing is live on a connection whose ActiveStreams is 0.
LEMMA NoActiveStreams ==
  ASSUME NEW c \in Conns, live \subseteq Streams, ActiveStreams(c) = 0
  PROVE  \A s \in live : s[1] # c
<1> DEFINE L == live \cap OnConns({c})
<1>1. L \subseteq Streams
  OBVIOUS
<1>2. IsFiniteSet(L) /\ Cardinality(L) = 0
  BY <1>1, StreamsFinite, FS_Subset DEF ActiveStreams
<1>3. L = {}
  BY <1>2, FS_EmptySet
<1> QED BY <1>3, StreamConn

-----------------------------------------------------------------------------
(* Steps that start and end no handler *)

\* Such a step keeps the invariant when what it does to the tracked connections keeps
\* the total.
LEMMA HandlersKept ==
  ASSUME ServerInv, UNCHANGED <<inFlight, accepted>>, AcceptedTotal' = AcceptedTotal,
         Running' = Running
  PROVE  InFlightExact' /\ AcceptedTotal' <= Total(accepted', Conns)
BY DEF ServerInv, InFlightExact

LEMMA AcceptKeeps ==
  ASSUME ServerInv, NEW c \in Conns, Accept(c)
  PROVE  ServerInv' /\ AcceptedTotal' = AcceptedTotal
<1>1. /\ UNCHANGED <<closed, shutdown, inFlight, cancelled, spc, snap, untold, result,
                     conns, closedStats, reading, stalled, stage, live, accepted>>
      /\ ~closed /\ loop[c] = "none"
      /\ \/ loop' = [loop EXCEPT ![c] = "gone"] /\ open' = open
         \/ loop' = [loop EXCEPT ![c] = "shake"] /\ open' = open \cup {c}
  BY DEF Accept, Goto, serverVars, trackVars, streamVars
<1>2. TypeOK'
  BY <1>1, SMTT(30) DEF ServerInv, TypeOK
<1>3. StoppedInv'
  BY <1>1 DEF ServerInv, StoppedInv
<1>4. LoopInv'
  BY <1>1 DEF ServerInv, TypeOK, LoopInv
<1>5. \A d \in Conns : loop'[d] = "close" => loop[d] = "close"
  BY <1>1 DEF ServerInv, TypeOK
<1>6. IdleInv'
  BY <1>1, <1>5, StreamConn DEF ServerInv, TypeOK, IdleInv
<1>7. AcceptedTotal' = AcceptedTotal /\ Running' = Running
  BY <1>1 DEF AcceptedTotal, Running
<1> QED BY <1>1, <1>2, <1>3, <1>4, <1>6, <1>7, HandlersKept DEF ServerInv

\* trackConn adds a connection that has accepted no stream yet.
LEMMA HandshakeKeeps ==
  ASSUME ServerInv, NEW c \in Conns, Handshake(c)
  PROVE  ServerInv' /\ AcceptedTotal' = AcceptedTotal
<1>1. /\ UNCHANGED <<closed, shutdown, inFlight, cancelled, spc, snap, untold, result,
                     closedStats, stalled, stage, accepted>>
      /\ loop[c] = "shake" /\ live' \subseteq live
      /\ \/ /\ loop' = [loop EXCEPT ![c] = "accept"] /\ reading' = reading \cup {c}
            /\ conns' = conns \cup {c} /\ open' = open
         \/ /\ loop' = [loop EXCEPT ![c] = "gone"] /\ conns' = conns
            /\ open' = open \ {c} /\ reading' = reading \ {c} /\ c \notin stalled
  BY DEF Handshake, Goto, CloseConns, serverVars
<1>2. TypeOK'
  BY <1>1, SMTT(30) DEF ServerInv, TypeOK, LoopInv
<1>3. StoppedInv'
  BY <1>1 DEF ServerInv, StoppedInv
<1>4. LoopInv'
  BY <1>1, SMTT(30) DEF ServerInv, TypeOK, LoopInv
<1>5. \A d \in Conns : loop'[d] = "close" => loop[d] = "close"
  BY <1>1 DEF ServerInv, TypeOK
<1>6. IdleInv' /\ Running' = Running
  BY <1>1, <1>5, StreamConn DEF ServerInv, TypeOK, IdleInv, Running
<1>7. AcceptedTotal' = AcceptedTotal
  <2>1. accepted \in Counts /\ accepted[c] = 0 /\ c \notin conns /\ conns \in SUBSET Conns
    BY <1>1 DEF ServerInv, TypeOK, LoopInv, Counts
  <2>2. CASE conns' = conns
    BY <1>1, <2>2 DEF AcceptedTotal
  <2>3. CASE conns' = conns \cup {c}
    <3>1. conns' \in SUBSET Conns /\ {c} \in SUBSET conns' /\ conns' \ {c} = conns
          /\ {c} \in SUBSET Conns
      BY <2>1, <2>3
    <3>2. Total(accepted, conns') = Total(accepted, {c}) + Total(accepted, conns)
      BY <2>1, <3>1, SplitConns, SMTT(30)
    <3>3. Total(accepted, {c}) = 0
      BY <2>1, <3>1, NoneCounted
    <3>4. Total(accepted, conns) \in Nat
      BY <2>1, TotalType
    <3> QED BY <1>1, <3>2, <3>3, <3>4, SMTT(30) DEF AcceptedTotal
  <2> QED BY <1>1, <2>2, <2>3
<1> QED BY <1>1, <1>2, <1>3, <1>4, <1>6, <1>7, HandlersKept DEF ServerInv

\* The client's steps and those of a handler that leave it running: streams come, and
\* leave the table, and peers stall.
LEMMA PeerKeeps ==
  ASSUME ServerInv,
         \/ \E s \in Streams : NewStream(s) \/ ClientReset(s) \/ ResponseEnds(s)
         \/ \E c \in Conns : ReaderDies(c) \/ Stall(c)
  PROVE  ServerInv' /\ AcceptedTotal' = AcceptedTotal
<1>1. /\ UNCHANGED <<closed, shutdown, inFlight, cancelled, spc, snap, untold, result,
                     conns, closedStats, loop, open, accepted>>
      /\ reading' \subseteq reading /\ stalled' \subseteq reading'
  <2>1. stalled \subseteq reading
    BY DEF ServerInv, TypeOK
  <2>2. ASSUME NEW s \in Streams, NewStream(s) \/ ClientReset(s) \/ ResponseEnds(s)
        PROVE  <1>1
    BY <2>1, <2>2 DEF NewStream, ClientReset, ResponseEnds, serverVars, trackVars, connVars
  <2>3. ASSUME NEW c \in Conns, ReaderDies(c)
        PROVE  <1>1
    BY <2>1, <2>3 DEF ReaderDies, serverVars, trackVars, streamVars
  <2>4. ASSUME NEW c \in Conns, Stall(c)
        PROVE  <1>1
    BY <2>1, <2>4 DEF Stall, serverVars, trackVars, streamVars
  <2> QED BY <2>2, <2>3, <2>4
<1>2. /\ stage' \in [Streams -> {"new", "queued", "taken", "run", "over"}]
      /\ live' \subseteq Streams
      /\ \A s \in Streams : stage'[s] = "run" <=> stage[s] = "run"
      /\ \A s \in live' : s \in live \/ stage'[s] # "run"
  <2>1. stage \in [Streams -> {"new", "queued", "taken", "run", "over"}] /\ live \subseteq Streams
    BY DEF ServerInv, TypeOK
  <2>2. ASSUME NEW s \in Streams, NewStream(s)
        PROVE  <1>2!1 /\ <1>2!2 /\ <1>2!3 /\ <1>2!4
    BY <2>1, <2>2 DEF NewStream, Move
  <2>3. ASSUME NEW s \in Streams, ClientReset(s)
        PROVE  <1>2!1 /\ <1>2!2 /\ <1>2!3 /\ <1>2!4
    BY <2>1, <2>3 DEF ClientReset, Move
  <2>4. ASSUME NEW s \in Streams, ResponseEnds(s)
        PROVE  <1>2!1 /\ <1>2!2 /\ <1>2!3 /\ <1>2!4
    BY <2>1, <2>4 DEF ResponseEnds
  <2>5. ASSUME NEW c \in Conns, ReaderDies(c) \/ Stall(c)
        PROVE  <1>2!1 /\ <1>2!2 /\ <1>2!3 /\ <1>2!4
    BY <2>1, <2>5 DEF ReaderDies, Stall, streamVars
  <2> QED BY <2>2, <2>3, <2>4, <2>5
<1>3. TypeOK'
  BY <1>1, <1>2 DEF ServerInv, TypeOK
<1>4. StoppedInv' /\ LoopInv' /\ AcceptedTotal' = AcceptedTotal /\ Running' = Running
  BY <1>1, <1>2 DEF ServerInv, StoppedInv, LoopInv, AcceptedTotal, Running
<1>5. IdleInv'
  BY <1>1, <1>2 DEF ServerInv, TypeOK, IdleInv
<1> QED BY <1>1, <1>3, <1>4, <1>5, HandlersKept DEF ServerInv

\* The steps of an accept loop that end it, or that find the connection idle.
LEMMA LoopEndsKeeps ==
  ASSUME ServerInv, NEW c \in Conns,
         \/ AcceptClosed(c) \/ AcceptDeadline(c) \/ closeIfFinished(c) \/ CloseIdle(c)
         \/ AcceptCancelled(c) \/ Untrack(c)
  PROVE  ServerInv' /\ AcceptedTotal' = AcceptedTotal
<1>1. /\ UNCHANGED <<closed, shutdown, inFlight, cancelled, spc, snap, untold, result,
                     stalled, stage, accepted>>
      /\ loop[c] \notin {"none", "shake"} /\ live' \subseteq live
      /\ \E l \in {"idle", "close", "exit", "gone"} : loop' = [loop EXCEPT ![c] = l]
      /\ \E S \in {{}, {c}} : /\ open' = open \ S /\ reading' = reading \ S
                              /\ S \cap stalled = {}
  <2>1. CASE AcceptClosed(c) \/ CloseIdle(c)
    BY <2>1 DEF AcceptClosed, CloseIdle, Goto, CloseConns, serverVars, trackVars
  <2>2. CASE AcceptDeadline(c) \/ AcceptCancelled(c) \/ Untrack(c)
    BY <2>2 DEF AcceptDeadline, AcceptCancelled, Untrack, Goto, serverVars, connVars, streamVars
  <2>3. CASE closeIfFinished(c)
    BY <2>3 DEF closeIfFinished, Goto, serverVars, connVars, streamVars
  <2> QED BY <2>1, <2>2, <2>3
<1>2. /\ closedStats' \in Nat /\ conns' \subseteq conns /\ AcceptedTotal' = AcceptedTotal
  <2>1. CASE UNCHANGED trackVars
    BY <1>1, <2>1 DEF trackVars, AcceptedTotal, ServerInv, TypeOK
  <2>2. CASE Untrack(c)
    BY <1>1, <2>2, ForgetConserves DEF Untrack, ServerInv
  <2> QED BY <2>1, <2>2 DEF AcceptClosed, AcceptDeadline, closeIfFinished, CloseIdle,
                            AcceptCancelled
<1>3. reading' \subseteq open' /\ stalled' \subseteq reading' /\ reading' \subseteq reading
      /\ open' \subseteq open
  BY <1>1 DEF ServerInv, TypeOK
<1>4. TypeOK'
  BY <1>1, <1>2, <1>3 DEF ServerInv, TypeOK
<1>5. StoppedInv'
  BY <1>1, <1>3 DEF ServerInv, StoppedInv
<1>6. LoopInv'
  <2>1. \A d \in Conns : d # c => (d \in open' <=> d \in open) /\ loop'[d] = loop[d]
    BY <1>1 DEF ServerInv, TypeOK
  <2>2. loop'[c] \notin {"none", "shake"}
    BY <1>1 DEF ServerInv, TypeOK
  <2> QED BY <1>1, <1>2, <1>3, <2>1, <2>2 DEF ServerInv, TypeOK, LoopInv
<1>7. /\ \A d \in Conns : d # c => loop'[d] = loop[d]
      /\ Running' = Running
  BY <1>1 DEF ServerInv, TypeOK, Running
<1>8. IdleInv'
  <2>1. CASE closeIfFinished(c) /\ ActiveStreams(c) = 0
    <3>1. \A s \in live : s[1] # c
      BY <2>1, NoActiveStreams DEF ServerInv, TypeOK
    <3> QED BY <1>1, <1>7, <3>1, StreamConn DEF ServerInv, TypeOK, IdleInv
  <2>2. CASE ~(closeIfFinished(c) /\ ActiveStreams(c) = 0)
    <3>1. loop'[c] # "close"
      BY <2>2 DEF AcceptClosed, AcceptDeadline, closeIfFinished, CloseIdle, AcceptCancelled,
                  Untrack, Goto, ServerInv, TypeOK
    <3> QED BY <1>1, <1>7, <3>1, StreamConn DEF ServerInv, TypeOK, IdleInv
  <2> QED BY <2>1, <2>2
<1> QED BY <1>1, <1>2, <1>4, <1>5, <1>6, <1>8, <1>7, HandlersKept DEF ServerInv

-----------------------------------------------------------------------------
(* Close and Shutdown *)

LEMMA CloseServerKeeps ==
  ASSUME ServerInv, CloseServer
  PROVE  ServerInv' /\ AcceptedTotal' = AcceptedTotal
<1>1. /\ UNCHANGED <<shutdown, inFlight, cancelled, spc, snap, untold, result, loop,
                     stalled, stage, accepted>>
      /\ closed' = TRUE /\ live' \subseteq live /\ conns \cap stalled = {}
      /\ open' = open \ conns /\ reading' = reading \ conns
  BY DEF CloseServer, CloseConns
<1>2. /\ closedStats' \in Nat /\ conns' \subseteq conns /\ AcceptedTotal' = AcceptedTotal
  BY <1>1, ForgetConserves DEF CloseServer, ServerInv, TypeOK
<1>3. /\ reading' \subseteq open' /\ open' \subseteq open
      /\ reading' \subseteq reading /\ stalled' \subseteq reading'
  BY <1>1 DEF ServerInv, TypeOK
<1>4. TypeOK'
  BY <1>1, <1>2, <1>3 DEF ServerInv, TypeOK
<1>5. StoppedInv'
  BY <1>1, <1>3 DEF ServerInv, StoppedInv
<1>6. LoopInv'
  <2>1. \A c \in Conns : loop[c] = "shake" => c \notin conns
    BY DEF ServerInv, LoopInv
  <2>2. \A c \in Conns : c \in open /\ c \notin conns => c \in open'
    BY <1>1
  <2> QED BY <1>1, <1>2, <1>3, <2>1, <2>2 DEF ServerInv, LoopInv
<1>7. IdleInv' /\ Running' = Running
  BY <1>1 DEF ServerInv, IdleInv, Running
<1> QED BY <1>1, <1>2, <1>4, <1>5, <1>6, <1>7, HandlersKept DEF ServerInv

\* Shutdown up to its wait: the flags, the snapshot and the GOAWAYs.
LEMMA ShutdownKeeps ==
  ASSUME ServerInv, Shutdown \/ ShutdownWaits \/ \E c \in Conns : GoAwayGraceful(c)
  PROVE  ServerInv' /\ AcceptedTotal' = AcceptedTotal
<1>1. /\ UNCHANGED <<inFlight, cancelled, conns, closedStats, loop, open, reading, stalled,
                     stage, live, accepted>>
      /\ spc \in {"idle", "goaway"} /\ untold' \subseteq snap'
      /\ \/ /\ spc' = "done" /\ result' = "closed"
            /\ UNCHANGED <<closed, shutdown, snap>>
         \/ /\ closed' = TRUE /\ shutdown' = TRUE
            /\ snap' = conns /\ spc' = "goaway" /\ result' = result
         \/ /\ spc' \in {"goaway", "wait"} /\ spc = "goaway"
            /\ UNCHANGED <<closed, shutdown, snap, result>>
  <2>1. CASE Shutdown
    BY <2>1 DEF Shutdown, trackVars, connVars, streamVars, ServerInv, TypeOK
  <2>2. CASE ShutdownWaits
    BY <2>2 DEF ShutdownWaits, trackVars, connVars, streamVars, ServerInv, TypeOK
  <2>3. ASSUME NEW c \in Conns, GoAwayGraceful(c)
        PROVE  <1>1
    BY <2>3 DEF GoAwayGraceful, trackVars, connVars, streamVars, ServerInv, TypeOK
  <2> QED BY <2>1, <2>2, <2>3
<1>2. TypeOK'
  BY <1>1 DEF ServerInv, TypeOK
<1>3. StoppedInv'
  BY <1>1, SMTT(30) DEF ServerInv, StoppedInv
<1>4. LoopInv' /\ IdleInv' /\ AcceptedTotal' = AcceptedTotal /\ Running' = Running
  BY <1>1 DEF ServerInv, LoopInv, IdleInv, AcceptedTotal, Running
<1> QED BY <1>1, <1>2, <1>3, <1>4, HandlersKept DEF ServerInv

LEMMA ShutdownEndsKeeps ==
  ASSUME ServerInv, NEW r \in {"ok", "timeout"}, ShutdownEnds(r)
  PROVE  ServerInv' /\ AcceptedTotal' = AcceptedTotal
<1>1. /\ UNCHANGED <<closed, shutdown, inFlight, cancelled, snap, untold, loop, stalled,
                     stage, accepted>>
      /\ spc = "wait" /\ spc' = "done" /\ result' = r /\ live' \subseteq live
      /\ open' = open \ snap /\ reading' = reading \ snap /\ snap \cap stalled = {}
      /\ r = "ok" => inFlight = 0
  BY DEF ShutdownEnds, CloseConns
<1>2. /\ closedStats' \in Nat /\ conns' \subseteq conns /\ AcceptedTotal' = AcceptedTotal
  BY <1>1, ForgetConserves DEF ShutdownEnds, ServerInv, TypeOK
<1>3. /\ reading' \subseteq open' /\ open' \subseteq Conns /\ stalled' \subseteq reading'
  BY <1>1 DEF ServerInv, TypeOK
<1>4. TypeOK'
  BY <1>1, <1>2, <1>3 DEF ServerInv, TypeOK
<1>5. StoppedInv'
  BY <1>1 DEF ServerInv, StoppedInv
<1>6. LoopInv' /\ IdleInv' /\ Running' = Running
  BY <1>1, <1>2 DEF ServerInv, LoopInv, IdleInv, Running
<1> QED BY <1>1, <1>2, <1>4, <1>5, <1>6, HandlersKept DEF ServerInv

-----------------------------------------------------------------------------
(* Steps that move a stream to a handler, and end it *)

\* AcceptStream counts the stream on its connection, tracked or not.
LEMMA AcceptStreamKeeps ==
  ASSUME ServerInv, NEW s \in Streams, AcceptStream(s)
  PROVE  ServerInv' /\ AcceptedTotal' >= AcceptedTotal
<1> DEFINE c == s[1]
<1>0. c \in Conns
  BY StreamConn
<1>1. /\ UNCHANGED <<closed, shutdown, inFlight, cancelled, spc, snap, untold, result,
                     conns, closedStats, open, reading, stalled, live>>
      /\ loop[c] = "accept" /\ stage[s] = "queued"
      /\ stage' = [stage EXCEPT ![s] = "taken"]
      /\ accepted' = [accepted EXCEPT ![c] = @ + 1]
      /\ loop' = [loop EXCEPT ![c] = "got"]
  BY DEF AcceptStream, Goto, Move, serverVars, trackVars, connVars
<1> HIDE DEF c
<1>2. TypeOK'
  <2>1. accepted' \in [Conns -> Nat]
    <3>1. accepted \in [Conns -> Nat] /\ accepted[c] + 1 \in Nat
      BY <1>0, SMTT(30) DEF ServerInv, TypeOK
    <3> QED BY <1>1, <3>1
  <2>2. stage' \in [Streams -> {"new", "queued", "taken", "run", "over"}]
    BY <1>1 DEF ServerInv, TypeOK
  <2>3. loop' \in [Conns -> {"none", "shake", "accept", "got", "idle", "close", "exit", "gone"}]
    BY <1>1 DEF ServerInv, TypeOK
  <2> QED BY <1>1, <2>1, <2>2, <2>3 DEF ServerInv, TypeOK
<1>3. \A t \in Streams : stage'[t] = "run" <=> stage[t] = "run"
  BY <1>1 DEF ServerInv, TypeOK
<1>4. InFlightExact' /\ StoppedInv'
  BY <1>1, <1>3 DEF ServerInv, InFlightExact, StoppedInv, Running
<1>5. LoopInv'
  BY <1>0, <1>1 DEF ServerInv, TypeOK, LoopInv
<1>6. IdleInv'
  <2>1. \A d \in Conns : loop'[d] = "close" => loop[d] = "close"
    BY <1>1 DEF ServerInv, TypeOK
  <2> QED BY <1>1, <1>3, <2>1, StreamConn DEF ServerInv, TypeOK, IdleInv
<1>7. /\ AcceptedTotal' \in {AcceptedTotal, AcceptedTotal + 1}
      /\ Total(accepted', Conns) = Total(accepted, Conns) + 1
      /\ AcceptedTotal \in Nat /\ Total(accepted, Conns) \in Nat
  <2>1. /\ accepted \in Counts /\ conns \in SUBSET Conns /\ Conns \in SUBSET Conns
        /\ closedStats \in Nat
    BY DEF Counts, ServerInv, TypeOK
  <2> DEFINE g == [accepted EXCEPT ![c] = @ + 1]
  <2>2. \A S \in SUBSET Conns :
          Total(g, S) = IF c \in S THEN Total(accepted, S) + 1 ELSE Total(accepted, S)
    BY <1>0, <2>1, TotalUp
  <2>3. /\ Total(accepted', Conns) = Total(accepted, Conns) + 1
        /\ Total(accepted', conns) \in {Total(accepted, conns), Total(accepted, conns) + 1}
    BY <1>0, <1>1, <2>1, <2>2
  <2>4. Total(accepted, Conns) \in Nat /\ Total(accepted, conns) \in Nat
    BY <2>1, TotalType
  <2> QED BY <1>1, <2>1, <2>3, <2>4, SMTT(30) DEF AcceptedTotal
<1>8. AcceptedTotal' <= Total(accepted', Conns) /\ AcceptedTotal' >= AcceptedTotal
  BY <1>7, SMTT(30) DEF ServerInv
<1> QED BY <1>2, <1>4, <1>5, <1>6, <1>8 DEF ServerInv

\* spawnStream adds to the WaitGroup the handler it starts, and nothing once the server
\* stops.
LEMMA spawnStreamKeeps ==
  ASSUME ServerInv, NEW s \in Streams, spawnStream(s)
  PROVE  ServerInv' /\ AcceptedTotal' = AcceptedTotal
<1> DEFINE c == s[1]
<1>0. c \in Conns
  BY StreamConn
<1>1. /\ UNCHANGED <<closed, shutdown, cancelled, spc, snap, untold, result, conns,
                     closedStats, open, reading, stalled, accepted>>
      /\ stage[s] = "taken" /\ live' \subseteq live
      /\ \/ /\ loop' = [loop EXCEPT ![c] = "exit"] /\ inFlight' = inFlight
            /\ stage' = [stage EXCEPT ![s] = "over"]
         \/ /\ ~shutdown /\ ~closed
            /\ loop' = [loop EXCEPT ![c] = "accept"] /\ inFlight' = inFlight + 1
            /\ stage' = [stage EXCEPT ![s] = "run"]
  BY DEF spawnStream, Goto, Move, trackVars, connVars
<1>2. /\ stage \in [Streams -> {"new", "queued", "taken", "run", "over"}]
      /\ live \subseteq Streams /\ inFlight \in Nat
  BY DEF ServerInv, TypeOK
<1>3. /\ \A d \in Conns : loop'[d] = IF d = c THEN loop'[c] ELSE loop[d]
      /\ loop'[c] \in {"accept", "exit"}
  BY <1>0, <1>1 DEF ServerInv, TypeOK
<1>4. IdleInv'
  <2>1. \A t \in live' : t # s => stage'[t] = stage[t]
    BY <1>1, <1>2
  <2> QED BY <1>1, <1>2, <1>3, <2>1, StreamConn DEF ServerInv, IdleInv
<1> HIDE DEF c
<1>5. /\ inFlight' \in Nat
      /\ stage' \in [Streams -> {"new", "queued", "taken", "run", "over"}]
  <2>1. inFlight' \in Nat
    BY <1>1, <1>2, SMTT(30)
  <2> QED BY <1>1, <1>2, <2>1
<1>6. TypeOK'
  <2>1. loop' \in [Conns -> {"none", "shake", "accept", "got", "idle", "close", "exit", "gone"}]
    BY <1>1 DEF ServerInv, TypeOK
  <2> QED BY <1>1, <1>2, <1>5, <2>1 DEF ServerInv, TypeOK
<1>7. InFlightExact'
  <2>1. s \notin Running
    BY <1>1 DEF Running
  <2>2. CASE inFlight' = inFlight /\ stage' = [stage EXCEPT ![s] = "over"]
    <3>1. Running' = Running
      BY <1>1, <1>2, <2>2 DEF Running
    <3> QED BY <2>2, <3>1 DEF ServerInv, InFlightExact
  <2>3. CASE inFlight' = inFlight + 1 /\ stage' = [stage EXCEPT ![s] = "run"]
    <3>1. Running' = Running \cup {s}
      BY <1>1, <1>2, <2>3 DEF Running
    <3>2. Cardinality(Running \cup {s}) = Cardinality(Running) + 1
      BY <2>1, HandlersFinite, FS_AddElement
    <3> QED BY <2>3, <3>1, <3>2 DEF ServerInv, InFlightExact
  <2> QED BY <1>1, <2>2, <2>3
<1>8. StoppedInv'
  BY <1>1 DEF ServerInv, StoppedInv
<1>9. LoopInv'
  BY <1>0, <1>1, <1>3 DEF ServerInv, TypeOK, LoopInv
<1> QED BY <1>1, <1>4, <1>6, <1>7, <1>8, <1>9 DEF ServerInv, AcceptedTotal

LEMMA serveStreamDoneKeeps ==
  ASSUME ServerInv, NEW s \in Streams, serveStreamDone(s)
  PROVE  ServerInv' /\ AcceptedTotal' = AcceptedTotal /\ inFlight' <= inFlight
<1>1. /\ UNCHANGED <<closed, shutdown, cancelled, spc, snap, untold, result, conns,
                     closedStats, loop, open, reading, stalled, live, accepted>>
      /\ stage[s] = "run" /\ stage' = [stage EXCEPT ![s] = "over"]
      /\ inFlight' = inFlight - 1
  BY DEF serveStreamDone, Move, trackVars, connVars
<1>2. /\ stage \in [Streams -> {"new", "queued", "taken", "run", "over"}]
      /\ live \subseteq Streams /\ inFlight \in Nat
  BY DEF ServerInv, TypeOK
<1>3. InFlightExact' /\ inFlight # 0 /\ inFlight' \in Nat /\ inFlight' <= inFlight
  <2>1. s \in Running /\ Running' = Running \ {s}
    BY <1>1, <1>2 DEF Running
  <2>2. Cardinality(Running \ {s}) = Cardinality(Running) - 1
    BY <2>1, HandlersFinite, FS_RemoveElement
  <2>3. Cardinality(Running) # 0
    BY <2>1, HandlersFinite
  <2> QED BY <1>1, <1>2, <2>1, <2>2, <2>3, SMTT(30) DEF ServerInv, InFlightExact
<1>4. stage' \in [Streams -> {"new", "queued", "taken", "run", "over"}]
  BY <1>1, <1>2
<1>5. TypeOK'
  BY <1>1, <1>3, <1>4 DEF ServerInv, TypeOK
<1>6. StoppedInv' /\ LoopInv' /\ AcceptedTotal' = AcceptedTotal
  BY <1>1, <1>3 DEF ServerInv, StoppedInv, LoopInv, AcceptedTotal
<1>7. IdleInv'
  BY <1>1, <1>2 DEF ServerInv, IdleInv
<1> QED BY <1>1, <1>3, <1>5, <1>6, <1>7 DEF ServerInv

-----------------------------------------------------------------------------
(* The invariant *)

LEMMA InitServer ==
  ASSUME Init
  PROVE  ServerInv
<1>1. TypeOK
  <2>1. accepted \in [Conns -> Nat]
    BY SMTT(30) DEF Init
  <2>2. /\ loop \in [Conns -> {"none", "shake", "accept", "got", "idle", "close", "exit", "gone"}]
        /\ stage \in [Streams -> {"new", "queued", "taken", "run", "over"}]
    BY DEF Init
  <2>3. closedStats \in Nat /\ inFlight \in Nat
    BY SMTT(30) DEF Init
  <2> QED BY <2>1, <2>2, <2>3 DEF Init, TypeOK
<1>2. /\ accepted \in Counts /\ conns \in SUBSET Conns /\ Conns \in SUBSET Conns
      /\ \A c \in Conns : accepted[c] = 0
  BY <1>1 DEF Init, TypeOK, Counts
<1>3. Total(accepted, Conns) = 0 /\ Total(accepted, conns) = 0
  BY <1>2, NoneCounted
<1>4. Running = {}
  BY DEF Init, Running
<1>5. StoppedInv /\ LoopInv /\ IdleInv
  BY DEF Init, StoppedInv, LoopInv, IdleInv
<1>6. InFlightExact
  BY <1>4, HandlersFinite DEF Init, InFlightExact
<1> QED BY <1>1, <1>3, <1>5, <1>6, SMTT(30) DEF Init, ServerInv, AcceptedTotal

\* A step that leaves every variable of the invariant alone.
LEMMA StutterKeeps ==
  ASSUME ServerInv, Cancel \/ UNCHANGED vars
  PROVE  ServerInv' /\ AcceptedTotal' = AcceptedTotal
<1>1. /\ UNCHANGED <<closed, shutdown, inFlight, spc, snap, untold, result, conns,
                     closedStats, loop, open, reading, stalled, stage, live, accepted>>
      /\ cancelled' \in BOOLEAN
  BY DEF Cancel, vars, serverVars, trackVars, connVars, streamVars, ServerInv, TypeOK
<1>2. TypeOK'
  BY <1>1 DEF ServerInv, TypeOK
<1>3. /\ StoppedInv' /\ LoopInv' /\ IdleInv' /\ AcceptedTotal' = AcceptedTotal
      /\ Running' = Running
  BY <1>1 DEF ServerInv, StoppedInv, LoopInv, IdleInv, AcceptedTotal, Running
<1> QED BY <1>1, <1>2, <1>3, HandlersKept DEF ServerInv

\* The totals rise only where AcceptStream counts a stream.
LEMMA NextServer ==
  ASSUME ServerInv, [Next]_vars
  PROVE  ServerInv' /\ AcceptedTotal' >= AcceptedTotal
<1>1. AcceptedTotal \in Int /\ (AcceptedTotal' = AcceptedTotal => AcceptedTotal' >= AcceptedTotal)
  <2>1. closedStats \in Nat /\ conns \in SUBSET Conns /\ accepted \in Counts
    BY DEF ServerInv, TypeOK, Counts
  <2>2. Total(accepted, conns) \in Nat
    BY <2>1, TotalType
  <2> QED BY <2>1, <2>2, SMTT(30) DEF AcceptedTotal
<1>2. ASSUME NEW s \in Streams, AcceptStream(s)
      PROVE  ServerInv' /\ AcceptedTotal' >= AcceptedTotal
  BY <1>2, AcceptStreamKeeps
<1>3. ASSUME NEW s \in Streams, spawnStream(s) \/ serveStreamDone(s)
      PROVE  ServerInv' /\ AcceptedTotal' >= AcceptedTotal
  BY <1>1, <1>3, spawnStreamKeeps, serveStreamDoneKeeps
<1>4. ASSUME NEW c \in Conns,
             \/ AcceptClosed(c) \/ AcceptDeadline(c) \/ closeIfFinished(c) \/ CloseIdle(c)
             \/ AcceptCancelled(c) \/ Untrack(c)
      PROVE  ServerInv' /\ AcceptedTotal' >= AcceptedTotal
  BY <1>1, <1>4, LoopEndsKeeps
<1>5. ASSUME NEW c \in Conns, Accept(c) \/ Handshake(c)
      PROVE  ServerInv' /\ AcceptedTotal' >= AcceptedTotal
  BY <1>1, <1>5, AcceptKeeps, HandshakeKeeps
<1>6. CASE \/ \E s \in Streams : NewStream(s) \/ ClientReset(s) \/ ResponseEnds(s)
           \/ \E c \in Conns : ReaderDies(c) \/ Stall(c)
  BY <1>1, <1>6, PeerKeeps
<1>7. CASE Close \/ Watcher
  BY <1>1, <1>7, CloseServerKeeps DEF Close, Watcher
<1>8. CASE Shutdown \/ ShutdownWaits \/ \E c \in Conns : GoAwayGraceful(c)
  BY <1>1, <1>8, ShutdownKeeps
<1>9. ASSUME NEW r \in {"ok", "timeout"}, ShutdownEnds(r)
      PROVE  ServerInv' /\ AcceptedTotal' >= AcceptedTotal
  BY <1>1, <1>9, ShutdownEndsKeeps
<1>10. CASE Cancel \/ UNCHANGED vars
  BY <1>1, <1>10, StutterKeeps
<1>11. ASSUME NEW c \in Conns, LoopStep(c)
       PROVE  ServerInv' /\ AcceptedTotal' >= AcceptedTotal
  BY <1>2, <1>3, <1>4, <1>11, StreamConn DEF LoopStep
<1> QED BY <1>3, <1>4, <1>5, <1>6, <1>7, <1>8, <1>9, <1>10, <1>11
        DEF Next, HandlerStep, ShutdownStep

\* Only spawnStream adds to the WaitGroup, and not once the flags are set.
LEMMA WaitGroupSealed ==
  ASSUME ServerInv, Next
  PROVE  NoAddAfterWait
<1>1. inFlight \in Nat /\ (spc \in {"goaway", "wait"} => shutdown)
  BY DEF ServerInv, TypeOK, StoppedInv
<1>2. CASE UNCHANGED inFlight
  BY <1>1, <1>2, SMTT(30) DEF NoAddAfterWait
<1>3. ASSUME NEW s \in Streams, spawnStream(s)
      PROVE  NoAddAfterWait
  <2>1. CASE shutdown \/ closed
    BY <1>2, <1>3, <2>1 DEF spawnStream
  <2>2. CASE ~(shutdown \/ closed)
    BY <1>1, <2>2 DEF NoAddAfterWait
  <2> QED BY <2>1, <2>2
<1>4. ASSUME NEW s \in Streams, serveStreamDone(s)
      PROVE  NoAddAfterWait
  BY <1>4, serveStreamDoneKeeps DEF NoAddAfterWait
<1>5. ASSUME NEW c \in Conns,
             \/ AcceptClosed(c) \/ closeIfFinished(c) \/ CloseIdle(c)
             \/ AcceptCancelled(c) \/ Untrack(c) \/ AcceptDeadline(c)
             \/ Accept(c) \/ Handshake(c) \/ ReaderDies(c) \/ Stall(c)
      PROVE  UNCHANGED inFlight
  BY <1>5 DEF AcceptClosed, closeIfFinished, CloseIdle, AcceptCancelled, Untrack,
              AcceptDeadline, Accept, Handshake, ReaderDies, Stall, serverVars
<1>6. ASSUME NEW s \in Streams,
             AcceptStream(s) \/ NewStream(s) \/ ClientReset(s) \/ ResponseEnds(s)
      PROVE  UNCHANGED inFlight
  BY <1>6 DEF AcceptStream, NewStream, ClientReset, ResponseEnds, serverVars
<1>7. CASE \/ Cancel \/ Close \/ Watcher \/ Shutdown \/ ShutdownWaits
           \/ \E c \in Conns : GoAwayGraceful(c)
           \/ \E r \in {"ok", "timeout"} : ShutdownEnds(r)
  <2>1. UNCHANGED inFlight
    BY <1>7 DEF Cancel, Close, Watcher, CloseServer, Shutdown, ShutdownWaits,
                GoAwayGraceful, ShutdownEnds
  <2> QED BY <1>2, <2>1
<1>8. ASSUME NEW c \in Conns, LoopStep(c)
      PROVE  NoAddAfterWait
  BY <1>2, <1>3, <1>5, <1>6, <1>8, StreamConn DEF LoopStep
<1>9. ASSUME NEW s \in Streams, NewStream(s) \/ ClientReset(s) \/ HandlerStep(s)
      PROVE  NoAddAfterWait
  BY <1>2, <1>4, <1>6, <1>9 DEF HandlerStep
<1>10. CASE \/ Cancel \/ Close \/ Watcher \/ Shutdown \/ ShutdownStep
            \/ ShutdownEnds("timeout")
  BY <1>7, <1>10 DEF ShutdownStep
<1> QED BY <1>2, <1>5, <1>8, <1>9, <1>10 DEF Next

\* Whatever closes a connection that its client has not left finds no handler on it with
\* a live stream, or is forced.
LEMMA OnlyForcedCuts ==
  ASSUME ServerInv, Next, NEW s \in live, stage[s] = "run", s[1] \in reading,
         s[1] \notin reading', s[1] \notin open'
  PROVE  Forced'
<1>1. /\ s \in Streams /\ reading \subseteq open /\ loop[s[1]] \notin {"none", "shake", "close"}
      /\ s \in Running /\ s[1] \in Conns
  BY StreamConn DEF ServerInv, TypeOK, LoopInv, IdleInv, Running
<1>2. inFlight # 0
  BY <1>1, HandlersFinite DEF ServerInv, InFlightExact
<1>3. CASE Close \/ Watcher
  BY <1>3 DEF Close, Watcher, CloseServer, Forced, ServerInv, StoppedInv
<1>4. ASSUME NEW r \in {"ok", "timeout"}, ShutdownEnds(r)
      PROVE  Forced'
  BY <1>2, <1>4 DEF ShutdownEnds, Forced
<1>5. ASSUME NEW d \in Conns, CloseIdle(d) \/ AcceptClosed(d) \/ Handshake(d)
      PROVE  FALSE
  BY <1>1, <1>5 DEF CloseIdle, AcceptClosed, Handshake, CloseConns
<1>6. ASSUME NEW d \in Conns,
             \/ closeIfFinished(d) \/ AcceptCancelled(d) \/ Untrack(d)
             \/ AcceptDeadline(d) \/ Accept(d) \/ ReaderDies(d) \/ Stall(d)
             \/ GoAwayGraceful(d)
      PROVE  FALSE
  BY <1>1, <1>6 DEF closeIfFinished, AcceptCancelled, Untrack, AcceptDeadline, Accept,
                    ReaderDies, Stall, GoAwayGraceful, connVars
<1>7. ASSUME NEW t \in Streams,
             \/ AcceptStream(t) \/ spawnStream(t) \/ NewStream(t) \/ ClientReset(t)
             \/ ResponseEnds(t) \/ serveStreamDone(t)
      PROVE  FALSE
  BY <1>7 DEF AcceptStream, spawnStream, NewStream, ClientReset, ResponseEnds,
              serveStreamDone, connVars
<1>8. ASSUME Cancel \/ Shutdown \/ ShutdownWaits
      PROVE  FALSE
  BY <1>8 DEF Cancel, Shutdown, ShutdownWaits, connVars
<1>9. ASSUME NEW d \in Conns, LoopStep(d)
      PROVE  FALSE
  BY <1>5, <1>6, <1>7, <1>9, StreamConn DEF LoopStep
<1> QED BY <1>3, <1>4, <1>5, <1>6, <1>7, <1>8, <1>9 DEF Next, HandlerStep, ShutdownStep

-----------------------------------------------------------------------------
(* The theorems *)

\* The WaitGroup is exact, the flags are set before Shutdown waits, and a connection about
\* to be closed as idle serves no live stream, for any set of connections and any number
\* of streams.
THEOREM ServerInvariant == Spec => []ServerInv
<1>1. Init => ServerInv
  BY InitServer
<1>2. ServerInv /\ [Next]_vars => ServerInv'
  BY NextServer
<1> QED BY <1>1, <1>2, PTL DEF Spec

\* While Shutdown sends its GOAWAYs and waits nothing is added to the WaitGroup, and when
\* it has returned nil no handler runs on any connection and none it knew of is open
\* (server.go, Shutdown and spawnStream).
THEOREM ShutdownDrains == Spec => DrainSound
<1>1. ServerInv' => DrainedMeansDone'
  <2> SUFFICES ASSUME ServerInv', result' = "ok"
               PROVE  Running' = {} /\ snap' \cap open' = {}
    BY DEF ServerInv, DrainedMeansDone
  <2>1. Cardinality(Running') = 0 /\ snap' \cap open' = {}
    BY DEF ServerInv, StoppedInv, InFlightExact
  <2>2. IsFiniteSet(Running')
    <3>1. Running' \subseteq Streams
      BY DEF Running
    <3> QED BY <3>1, StreamsFinite, FS_Subset
  <2> QED BY <2>1, <2>2, FS_EmptySet
<1>2. ServerInv /\ [Next]_vars => [DrainedMeansDone' /\ NoAddAfterWait]_vars
  BY <1>1, NextServer, WaitGroupSealed
<1> QED BY <1>2, ServerInvariant, PTL DEF Spec, DrainSound

\* No connection is closed under a running handler whose stream is live by its idle
\* timeout, its accept loop or the drain: only Close and a Shutdown out of time do that
\* (server.go, closeIfFinished, Close and Shutdown).
THEOREM OnlyForceCuts == Spec => GracefulNeverCuts
<1>1. ServerInv /\ [Next]_vars =>
        [\A s \in live : /\ stage[s] = "run" /\ s[1] \in reading \ reading'
                         /\ s[1] \notin open'
                         => Forced']_vars
  BY OnlyForcedCuts
<1> QED BY <1>1, ServerInvariant, PTL DEF Spec, GracefulNeverCuts

\* The total of streams accepted never falls and never exceeds the streams accepted,
\* whichever of the accept loop, Close and Shutdown forgets a connection first
\* (server.go, trackConn and forgetConn).
THEOREM TotalsExact == Spec => TotalsSound
<1>1. ServerInv /\ [Next]_vars =>
        [/\ AcceptedTotal' >= AcceptedTotal
         /\ AcceptedTotal' <= Total(accepted', Conns)]_vars
  BY NextServer DEF ServerInv
<1> QED BY <1>1, ServerInvariant, PTL DEF Spec, TotalsSound

=============================================================================

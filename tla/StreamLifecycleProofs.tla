----------------------- MODULE StreamLifecycleProofs -----------------------
(***************************************************************************)
(* What StreamLifecycle promises for any number of streams, any limits and *)
(* any kinds of field block: HPACK stays in step with the reader, nothing  *)
(* follows the EOF of a request or a reset on the wire, and a stream that  *)
(* ends is released and cancelled exactly where it leaves the table.       *)
(*                                                                         *)
(* None of these is inductive.  LifecycleInv adds what the goroutines know *)
(* of each other: which callbacks the reader can be inside and what each   *)
(* of their remaining steps takes for granted (CallbackInv), what a pc of  *)
(* the handler or the overflow goroutine says of the stream's state word   *)
(* (PcInv), that a stream which left the table or was reset on the wire    *)
(* takes no more frames (QuietInv), and that a stream waiting in acceptCh  *)
(* has no handler yet (QueueInv).                                          *)
(***************************************************************************)
EXTENDS StreamLifecycle, TLAPS

USE ZenonT(60)

-----------------------------------------------------------------------------
(* The inductive invariant *)

\* What a callback can have left to do.
Callbacks ==
  {<<>>, <<"die">>, <<"shutdown">>, <<"emit">>, <<"discard">>,
   <<"refuse", "discard">>, <<"refuse">>,
   <<"refuse", "write431", "release", "die">>,
   <<"write431", "release", "die">>, <<"sent431", "release", "die">>,
   <<"release", "die">>, <<"write431", "release">>, <<"sent431", "release">>,
   <<"rst">>, <<"push", "rst">>, <<"overflow", "rst">>,
   <<"push">>, <<"push", "release">>, <<"push", "release", "countRapid">>,
   <<"overflow">>, <<"overflow", "release">>,
   <<"overflow", "release", "countRapid">>,
   <<"release">>, <<"release", "countRapid">>, <<"countRapid">>}

Has(phase) == phase \in Range(rtodo)

\* No frame but RST_STREAM can be written on s any more, or s was never opened.
Shut(s) == s \notin opened \/ ~Writable(st[s]) \/ closed \/ broken

Eof(e) == e.end /\ e.type # "reset"
EofLogged(s) == \E i \in DOMAIN log[s] : Eof(log[s][i])

\* The callback in progress: the stream it is about was registered, a release or a
\* reset it still owes is of a stream that takes no more frames, and the EOF it
\* is about to push is the first one.
CallbackInv ==
  /\ rtodo \in Callbacks
  /\ rdead => rtodo = <<>> /\ live = {}
  /\ undecoded = IF Has("emit") \/ Has("discard") THEN 1 ELSE 0
  /\ rapidResetCount <= Budget \/ Has("die") \/ Has("shutdown") \/ rdead
  /\ pending.s \in opened \cup {0}
  /\ rs <= maxClient
  /\ Has("emit") \/ Has("push") \/ Has("overflow") \/ Has("write431")
       \/ Has("sent431") \/ Has("release") \/ Has("refuse") => rs \in opened
  /\ Has("rst") => rs \in Streams
  /\ (Has("release") \/ Has("rst")) /\ ~Has("write431") /\ ~Has("sent431")
       => Shut(rs)
  /\ Has("refuse") => ~Writable(st[rs])
  /\ Has("push") /\ rev.type # "reset"
       => ~EofLogged(rs) /\ (rev.end => "RecvEnded" \in st[rs])

\* What the pc of each goroutine says of the state word of its stream.
PcInv ==
  \A s \in Streams :
    /\ s \notin opened => st[s] = {} /\ hpc[s] = "none" /\ gpc[s] = "none"
    /\ hpc[s] = "rst" \/ gpc[s] = "rst" \/ s \in peerReset => "Reset" \in st[s]
    /\ hpc[s] = "release" => ~Writable(st[s])
    /\ hpc[s] = "write" => sends[s] < MaxSends
    /\ ndata[s] <= frames

\* A stream that has left the table, or has RST_STREAM on the wire, takes no more
\* frames.
QuietInv ==
  \A s \in Streams :
    /\ s \in opened \ live /\ ~rdead => Shut(s)
    /\ "RST" \in Range(wire[s]) => s <= maxClient /\ Shut(s)

EofInv == \A s \in Streams : EofLogged(s) => "RecvEnded" \in st[s]

\* A stream waits in acceptCh once, and no handler has it while it waits.
QueueInv ==
  /\ \A i \in DOMAIN acceptCh : acceptCh[i] \in opened /\ hpc[acceptCh[i]] = "none"
  /\ \A i, j \in DOMAIN acceptCh : i # j => acceptCh[i] # acceptCh[j]

\* Some goroutine has the release of s ahead of it.
Owed(s) ==
  \/ rs = s /\ (Has("release") \/ Has("rst") \/ Has("refuse"))
  \/ Has("die") \/ Has("shutdown")
  \/ hpc[s] \in {"release", "rst"} \/ gpc[s] = "rst"

LifecycleInv ==
  /\ TypeOK /\ CallbackInv /\ PcInv /\ QuietInv /\ EofInv /\ QueueInv
  /\ ReleaseOwed /\ ReleasedCancelled /\ NoFrameAfterReset /\ EofIsLast

-----------------------------------------------------------------------------
(* The operators of the model *)

\* What the tests of a state word ask.
LEMMA StateWord ==
  ASSUME NEW x
  PROVE  /\ Terminal(x) <=> "Reset" \in x \/ ("RecvEnded" \in x /\ "SentEnded" \in x)
         /\ Writable(x) <=> "Reset" \notin x /\ "SentEnded" \notin x
BY DEF Terminal, Writable

\* advance only sets bits, and only on its own stream.
LEMMA Advanced ==
  ASSUME TypeOK, NEW x \in Streams, NEW bits \in SUBSET Bits, advance(x, bits)
  PROVE  /\ st' \in [Streams -> SUBSET Bits]
         /\ st'[x] = st[x] \cup bits
         /\ \A s \in Streams : s # x => st'[s] = st[s]
         /\ \A s \in Streams : st[s] \subseteq st'[s]
<1>1. st \in [Streams -> SUBSET Bits] /\ st' = [st EXCEPT ![x] = @ \cup bits]
  BY DEF TypeOK, advance
<1> QED BY <1>1

\* The elements of a sequence and of its extension by one.
LEMMA AppendElements ==
  ASSUME NEW S, NEW q \in Seq(S), NEW e \in S
  PROVE  /\ Append(q, e) \in Seq(S)
         /\ Range(Append(q, e)) = Range(q) \cup {e}
         /\ DOMAIN Append(q, e) = (DOMAIN q) \cup {Len(q) + 1}
         /\ \A i \in DOMAIN q : Append(q, e)[i] = q[i] /\ i < Len(q) + 1
         /\ Append(q, e)[Len(q) + 1] = e
         /\ Len(Append(q, e)) = Len(q) + 1
<1>1. /\ Append(q, e) \in Seq(S) /\ Len(Append(q, e)) = Len(q) + 1
      /\ DOMAIN q = 1..Len(q) /\ Len(q) \in Nat
      /\ DOMAIN Append(q, e) = 1..(Len(q) + 1)
      /\ \A i \in 1..Len(q) : Append(q, e)[i] = q[i]
      /\ Append(q, e)[Len(q) + 1] = e
  BY SMTT(30)
<1>2. DOMAIN Append(q, e) = (DOMAIN q) \cup {Len(q) + 1}
  BY <1>1, SMTT(30)
<1>3. Range(Append(q, e)) = Range(q) \cup {e}
  BY <1>1, <1>2, Zenon DEF Range
<1> QED BY <1>1, <1>2, <1>3, SMTT(30)

\* r is q with e at its end.
Extends(r, q, e) ==
  /\ DOMAIN r = (DOMAIN q) \cup {Len(q) + 1}
  /\ \A i \in DOMAIN q : r[i] = q[i] /\ i < Len(q) + 1
  /\ r[Len(q) + 1] = e
  /\ Len(r) = Len(q) + 1

LEMMA Appended ==
  ASSUME NEW S, NEW q \in Seq(S), NEW e \in S, NEW r, r = Append(q, e)
  PROVE  r \in Seq(S) /\ Extends(r, q, e)
  BY AppendElements, SMTT(30) DEF Extends

LEMMA LenNat == \A S : \A q \in Seq(S) : Len(q) \in Nat
BY SMTT(30)

LEMMA RangeTuples ==
  /\ Range(<<>>) = {}
  /\ \A a : Range(<<a>>) = {a}
  /\ \A a, b : Range(<<a, b>>) = {a, b}
  /\ \A a, b, c : Range(<<a, b, c>>) = {a, b, c}
  /\ \A a, b, c, d : Range(<<a, b, c, d>>) = {a, b, c, d}
BY SMTT(30) DEF Range

\* The state newConn makes satisfies the invariant: no stream, no callback.
LEMMA InitEstablishes ==
  ASSUME Init
  PROVE  LifecycleInv
<1>1. rtodo = <<>> /\ Range(rtodo) = {}
  BY RangeTuples DEF Init
<1>2. TypeOK
  <2>1. /\ acceptCh \in Seq(Streams) /\ Len(acceptCh) = 0 /\ rtodo \in Seq(Phase)
        /\ log \in [Streams -> Seq(Event)] /\ wire \in [Streams -> Seq(Frame)]
        /\ taken \in [Streams -> Nat]
        /\ \A s \in Streams : Len(log[s]) - taken[s] = 0
    BY SMTT(30) DEF Init
  <2>2. /\ pending \in [s : 0..N, end : BOOLEAN, trailer : BOOLEAN, discard : BOOLEAN]
        /\ rblk \in [end : BOOLEAN, trailer : BOOLEAN, kind : Blocks \cup {"good"}]
        /\ rev \in Event
    BY ConstantsAssumption, SMTT(30) DEF Init, NoBlock, NoContent, ResetEvent, Event, EventTypes
  <2>3. /\ maxClient \in 0..N /\ rs \in 0..N /\ undecoded \in 0..1
        /\ rapidResetCount \in 0..Budget + 1 /\ frames \in 0..MaxFrames
        /\ sends \in [Streams -> 0..MaxSends] /\ ndata \in [Streams -> 0..MaxFrames]
    BY ConstantsAssumption, SMTT(30) DEF Init
  <2>4. /\ Len(acceptCh) <= QueueDepth
        /\ \A s \in Streams : Len(log[s]) - taken[s] \in 0..EventBuf
    BY <2>1, ConstantsAssumption, SMTT(30)
  <2>5. /\ st \in [Streams -> SUBSET Bits] /\ live \subseteq opened /\ peerReset \subseteq opened
        /\ opened \subseteq 1..maxClient /\ cancelled \subseteq Streams
    BY DEF Init
  <2>6. /\ hpc \in [Streams -> {"none", "run", "write", "sent", "release", "rst", "done"}]
        /\ hend \in [Streams -> BOOLEAN] /\ gpc \in [Streams -> {"none", "rst", "done"}]
        /\ closed \in BOOLEAN /\ broken \in BOOLEAN /\ rdead \in BOOLEAN
    BY DEF Init
  <2> QED BY <2>1, <2>2, <2>3, <2>4, <2>5, <2>6 DEF TypeOK
<1>3. CallbackInv
  BY <1>1, ConstantsAssumption, SMTT(30) DEF Init, CallbackInv, Callbacks, Has, NoBlock
<1>4. PcInv
  BY SMTT(30) DEF Init, PcInv
<1>5. QuietInv /\ NoFrameAfterReset
  BY RangeTuples, SMTT(30) DEF Init, QuietInv, NoFrameAfterReset
<1>6. EofInv /\ EofIsLast
  <2>1. /\ \A s \in Streams : log[s] = <<>> /\ DOMAIN log[s] = {}
        /\ rtodo = <<>> /\ Range(rtodo) = {}
    BY RangeTuples, SMTT(30) DEF Init
  <2>2. EofIsLast
    BY <1>2, <2>1 DEF EofIsLast
  <2>3. EofInv
    BY <2>1 DEF EofInv, EofLogged
  <2> QED BY <2>2, <2>3
<1>7. QueueInv /\ ReleaseOwed /\ ReleasedCancelled
  BY SMTT(30) DEF Init, QueueInv, ReleaseOwed, ReleasedCancelled
<1> QED BY <1>2, <1>3, <1>4, <1>5, <1>6, <1>7 DEF LifecycleInv

LEMMA TailTuples ==
  /\ \A a : Head(<<a>>) = a /\ Tail(<<a>>) = <<>>
  /\ \A a, b : Head(<<a, b>>) = a /\ Tail(<<a, b>>) = <<b>>
  /\ \A a, b, c : Head(<<a, b, c>>) = a /\ Tail(<<a, b, c>>) = <<b, c>>
  /\ \A a, b, c, d :
       Head(<<a, b, c, d>>) = a /\ Tail(<<a, b, c, d>>) = <<b, c, d>>
BY SMTT(30)

\* Sequences that agree everywhere are equal.
LEMMA SeqEqual ==
  ASSUME NEW S, NEW s \in Seq(S), NEW t \in Seq(S), Len(s) = Len(t),
         \A i \in 1..Len(s) : s[i] = t[i]
  PROVE  s = t
BY SMTT(30)

\* The concatenations the callbacks write.
LEMMA ConcatTuples ==
  /\ \A a : <<a>> \o <<>> = <<a>>
  /\ \A a, b : <<a>> \o <<b>> = <<a, b>>
  /\ \A a, b, c : <<a>> \o <<b, c>> = <<a, b, c>> /\ <<a, b>> \o <<c>> = <<a, b, c>>
  /\ \A a, b, c, d : <<a>> \o <<b, c, d>> = <<a, b, c, d>>
<1>1. ASSUME NEW a, NEW b PROVE <<a>> \o <<b>> = <<a, b>>
  <2> DEFINE u == <<a>> \o <<b>>
  <2>1. <<a>> \in Seq({a, b}) /\ <<b>> \in Seq({a, b}) /\ <<a, b>> \in Seq({a, b})
    BY SMTT(30)
  <2>2. u \in Seq({a, b}) /\ Len(u) = 2 /\ \A i \in 1..Len(u) : u[i] = <<a, b>>[i]
    BY <2>1, SMTT(30)
  <2> QED BY <2>1, <2>2, SeqEqual
<1>2. ASSUME NEW a, NEW b, NEW c PROVE <<a>> \o <<b, c>> = <<a, b, c>>
  <2> DEFINE u == <<a>> \o <<b, c>>
  <2>1. <<a>> \in Seq({a, b, c}) /\ <<b, c>> \in Seq({a, b, c}) /\ <<a, b, c>> \in Seq({a, b, c})
    BY SMTT(30)
  <2>2. u \in Seq({a, b, c}) /\ Len(u) = 3 /\ \A i \in 1..Len(u) : u[i] = <<a, b, c>>[i]
    BY <2>1, SMTT(30)
  <2> QED BY <2>1, <2>2, SeqEqual
<1>3. ASSUME NEW a, NEW b, NEW c PROVE <<a, b>> \o <<c>> = <<a, b, c>>
  <2> DEFINE u == <<a, b>> \o <<c>>
  <2>1. <<a, b>> \in Seq({a, b, c}) /\ <<c>> \in Seq({a, b, c}) /\ <<a, b, c>> \in Seq({a, b, c})
    BY SMTT(30)
  <2>2. u \in Seq({a, b, c}) /\ Len(u) = 3 /\ \A i \in 1..Len(u) : u[i] = <<a, b, c>>[i]
    BY <2>1, SMTT(30)
  <2> QED BY <2>1, <2>2, SeqEqual
<1>4. ASSUME NEW a, NEW b, NEW c, NEW d PROVE <<a>> \o <<b, c, d>> = <<a, b, c, d>>
  <2> DEFINE u == <<a>> \o <<b, c, d>>
  <2>1. <<a>> \in Seq({a, b, c, d}) /\ <<b, c, d>> \in Seq({a, b, c, d}) /\ <<a, b, c, d>> \in Seq({a, b, c, d})
    BY SMTT(30)
  <2>2. u \in Seq({a, b, c, d}) /\ Len(u) = 4 /\ \A i \in 1..Len(u) : u[i] = <<a, b, c, d>>[i]
    BY <2>1, SMTT(30)
  <2> QED BY <2>1, <2>2, SeqEqual
<1>5. ASSUME NEW a PROVE <<a>> \o <<>> = <<a>>
  <2> DEFINE u == <<a>> \o <<>>
  <2>1. <<a>> \in Seq({a}) /\ <<>> \in Seq({a})
    BY SMTT(30)
  <2>2. u \in Seq({a}) /\ Len(u) = 1 /\ \A i \in 1..Len(u) : u[i] = <<a>>[i]
    BY <2>1, SMTT(30)
  <2> QED BY <2>1, <2>2, SeqEqual
<1> QED BY <1>1, <1>2, <1>3, <1>4, <1>5

\* Which callbacks can be at each phase.
LEMMA AtPhase ==
  ASSUME rtodo \in Callbacks
  PROVE  /\ At("emit") => rtodo = <<"emit">>
         /\ At("discard") => rtodo = <<"discard">>
         /\ At("refuse") => rtodo \in {<<"refuse", "discard">>, <<"refuse">>,
                             <<"refuse", "write431", "release", "die">>}
         /\ At("rst") => rtodo = <<"rst">>
         /\ At("push") => rtodo \in {<<"push">>, <<"push", "rst">>,
                             <<"push", "release">>,
                             <<"push", "release", "countRapid">>}
         /\ At("overflow") => rtodo \in {<<"overflow">>, <<"overflow", "rst">>,
                             <<"overflow", "release">>,
                             <<"overflow", "release", "countRapid">>}
         /\ At("write431") => rtodo \in {<<"write431", "release">>,
                                         <<"write431", "release", "die">>}
         /\ At("sent431") => rtodo \in {<<"sent431", "release">>,
                                        <<"sent431", "release", "die">>}
         /\ At("release") => rtodo \in {<<"release">>, <<"release", "die">>,
                                        <<"release", "countRapid">>}
         /\ At("countRapid") => rtodo = <<"countRapid">>
         /\ At("die") => rtodo = <<"die">>
         /\ At("shutdown") => rtodo = <<"shutdown">>
BY SMTT(60) DEF Callbacks, At

-----------------------------------------------------------------------------
(* What steps share *)

LEMMA StreamsKnown ==
  ASSUME TypeOK
  PROVE  opened \subseteq Streams /\ live \subseteq Streams
<1>1. opened \subseteq 1..maxClient /\ live \subseteq opened /\ maxClient \in 0..N
  BY DEF TypeOK
<1> QED BY <1>1, ConstantsAssumption, SMTT(30) DEF Streams

\* ReleaseOwed in terms of Owed, before and after a step.
LEMMA OwedRelease ==
  /\ ReleaseOwed <=> \A s \in live : Terminal(st[s]) => Owed(s)
  /\ ReleaseOwed' <=> \A s \in live' : Terminal(st'[s]) => Owed(s)'
BY DEF ReleaseOwed, Owed, Has

\* A stream that takes no more frames never takes one again.
LEMMA ShutLasts ==
  ASSUME NEW s, Shut(s), st[s] \subseteq st'[s], s \in opened' => s \in opened,
         closed => closed', broken => broken'
  PROVE  Shut(s)'
BY StateWord DEF Shut

\* A step outside the reader leaves what its callback relies on.
LEMMA ReaderElsewhere ==
  ASSUME TypeOK, CallbackInv, UNCHANGED <<readerVars, log, opened, maxClient>>,
         live' \subseteq live, \A s \in Streams : st[s] \subseteq st'[s],
         closed => closed', broken => broken'
  PROVE  CallbackInv'
<1>1. UNCHANGED <<pending, rtodo, rs, rev, rdead, undecoded, rapidResetCount, log,
                  opened, maxClient>>
  BY DEF readerVars
<1>2. Shut(rs) /\ rs \in Streams => Shut(rs)'
  BY <1>1, ShutLasts DEF Shut
<1>3. rs \in opened => rs \in Streams
  BY SMTT(30) DEF TypeOK, Streams
<1>4. rs \in Streams => (~Writable(st[rs]) => ~Writable(st'[rs]))
  BY StateWord
<1> QED
  BY <1>1, <1>2, <1>3, <1>4 DEF CallbackInv, Has, EofLogged, Eof

\* QuietInv survives a step that releases and resets only streams that take no
\* more frames.
LEMMA QuietKept ==
  ASSUME TypeOK, QuietInv, \A s \in Streams : st[s] \subseteq st'[s],
         closed => closed', broken => broken', rdead => rdead',
         UNCHANGED maxClient \/ (maxClient' \in Int /\ maxClient <= maxClient'),
         \A s \in Streams : s \in opened' /\ s <= maxClient => s \in opened,
         \A s \in Streams : s \in opened' \ live' /\ ~rdead'
                              => (s \in opened \ live \/ Shut(s)'),
         \A s \in Streams : "RST" \in Range(wire'[s]) =>
           \/ "RST" \in Range(wire[s])
           \/ s <= maxClient' /\ Shut(s)'
  PROVE  QuietInv'
<1> SUFFICES ASSUME NEW s \in Streams
             PROVE  /\ s \in opened' \ live' /\ ~rdead' => Shut(s)'
                    /\ "RST" \in Range(wire'[s]) => s <= maxClient' /\ Shut(s)'
  BY DEF QuietInv
<1>0. s \in Int /\ maxClient \in Int /\ (s \in opened => s <= maxClient)
  BY SMTT(30) DEF TypeOK, Streams
<1>1. ASSUME s <= maxClient, Shut(s) PROVE Shut(s)'
  BY <1>1, ShutLasts
<1> QED
  BY <1>0, <1>1, SMTT(30) DEF QuietInv

\* One more frame keeps the count of DATA frames within the count of frames.
LEMMA FramesGrow ==
  ASSUME TypeOK, PcInv, frames' \in Nat, frames <= frames'
  PROVE  \A s \in Streams : ndata[s] <= frames'
<1>1. ndata \in [Streams -> 0..MaxFrames] /\ frames \in 0..MaxFrames
  BY DEF TypeOK
<1> QED BY <1>1, ConstantsAssumption, SMTT(30) DEF PcInv

\* A step that logs no event, sends no frame or queues no stream.
LEMMA SameLog ==
  ASSUME EofInv, EofIsLast, UNCHANGED log, \A s \in Streams : st[s] \subseteq st'[s]
  PROVE  EofInv' /\ (TypeOK' => EofIsLast')
<1>1. EofInv'
  BY DEF EofInv, EofLogged, Eof
<1>2. TypeOK' => EofIsLast'
  BY DEF EofIsLast
<1> QED BY <1>1, <1>2

LEMMA SameWire ==
  ASSUME NoFrameAfterReset, UNCHANGED wire
  PROVE  NoFrameAfterReset'
BY DEF NoFrameAfterReset

\* A step that only sets bits of state words keeps quiet streams quiet.
LEMMA QuietGrown ==
  ASSUME QuietInv, \A s \in Streams : st[s] \subseteq st'[s],
         UNCHANGED <<closed, broken, rdead, maxClient, opened, live, wire>>
  PROVE  QuietInv'
<1>1. \A s \in Streams : Shut(s) => Shut(s)'
  BY StateWord DEF Shut
<1> QED BY <1>1 DEF QuietInv

LEMMA SameQueue ==
  ASSUME QueueInv, UNCHANGED <<acceptCh, hpc>>, opened \subseteq opened'
  PROVE  QueueInv'
BY DEF QueueInv

\* A handler that has its stream is not in the queue.
LEMMA QueueElsewhere ==
  ASSUME TypeOK, QueueInv, NEW x \in Streams, hpc[x] # "none",
         UNCHANGED <<acceptCh, opened>>, \A s \in Streams : s # x => hpc'[s] = hpc[s]
  PROVE  QueueInv'
<1>1. \A i \in DOMAIN acceptCh : acceptCh[i] \in Streams /\ acceptCh[i] # x
  BY StreamsKnown DEF QueueInv
<1> QED BY <1>1 DEF QueueInv

\* A RST_STREAM at the end of a stream's frames.
LEMMA WireRST ==
  ASSUME TypeOK, NoFrameAfterReset, NEW x \in Streams,
         wire' = IF closed \/ broken THEN wire
                 ELSE [wire EXCEPT ![x] = Append(@, "RST")]
  PROVE  /\ wire' \in [Streams -> Seq(Frame)]
         /\ NoFrameAfterReset'
         /\ \A s \in Streams : "RST" \in Range(wire'[s])
                                 => s = x \/ "RST" \in Range(wire[s])
<1>1. wire \in [Streams -> Seq(Frame)] /\ "RST" \in Frame
  BY DEF TypeOK, Frame
<1>2. CASE closed \/ broken
  BY <1>1, <1>2 DEF NoFrameAfterReset
<1>3. CASE ~(closed \/ broken)
  <2>1. /\ wire' \in [Streams -> Seq(Frame)]
        /\ wire'[x] = Append(wire[x], "RST")
        /\ \A s \in Streams : s # x => wire'[s] = wire[s]
    BY <1>1, <1>3, AppendElements
  <2>2. NoFrameAfterReset'
    <3> SUFFICES ASSUME NEW i \in DOMAIN wire'[x], NEW j \in DOMAIN wire'[x],
                        i < j, wire'[x][i] = "RST"
                 PROVE  wire'[x][j] = "RST"
      BY <2>1, SMTT(30) DEF NoFrameAfterReset
    <3> QED BY <1>1, <2>1, AppendElements, SMTT(30) DEF NoFrameAfterReset
  <2> QED BY <2>1, <2>2
<1> QED BY <1>2, <1>3

\* Another frame, on a stream that was not reset.
LEMMA WireFrame ==
  ASSUME TypeOK, NoFrameAfterReset, NEW x \in Streams, NEW f \in Frame \ {"RST"},
         "RST" \notin Range(wire[x]), wire' = [wire EXCEPT ![x] = Append(@, f)]
  PROVE  /\ wire' \in [Streams -> Seq(Frame)]
         /\ NoFrameAfterReset'
         /\ \A s \in Streams : "RST" \in Range(wire'[s])
                                 => "RST" \in Range(wire[s])
<1>1. wire \in [Streams -> Seq(Frame)]
  BY DEF TypeOK
<1>2. /\ wire' \in [Streams -> Seq(Frame)]
      /\ wire'[x] = Append(wire[x], f)
      /\ \A s \in Streams : s # x => wire'[s] = wire[s]
  BY <1>1, AppendElements
<1>3. "RST" \notin Range(wire'[x])
  BY <1>1, <1>2, AppendElements, SMTT(30)
<1>4. \A i \in DOMAIN wire'[x] : wire'[x][i] # "RST"
  BY <1>3 DEF Range
<1> QED BY <1>2, <1>3, <1>4, SMTT(30) DEF NoFrameAfterReset

-----------------------------------------------------------------------------
(* The application's steps *)

LEMMA AcceptStreamKeeps ==
  ASSUME LifecycleInv, AcceptStream
  PROVE  LifecycleInv'
<1> DEFINE x == Head(acceptCh)
<1>0. /\ TypeOK /\ CallbackInv /\ PcInv /\ QuietInv /\ EofInv /\ QueueInv
      /\ ReleaseOwed /\ ReleasedCancelled /\ NoFrameAfterReset /\ EofIsLast
  BY DEF LifecycleInv
<1> USE <1>0
<1>1. /\ UNCHANGED <<st, live, maxClient, cancelled, log, taken, wire, readerVars,
                     hend, sends, gpc, closed, broken, ndata, peerReset, opened>>
      /\ acceptCh \in Seq(Streams) /\ acceptCh # <<>>
      /\ acceptCh' = Tail(acceptCh)
      /\ hpc' = IF Terminal(st[x]) THEN hpc ELSE [hpc EXCEPT ![x] = "run"]
  BY DEF AcceptStream, eventVars, connVars, histVars, TypeOK
<1>2. /\ x \in Streams /\ x \in opened /\ hpc[x] = "none"
      /\ acceptCh' \in Seq(Streams) /\ Len(acceptCh') = Len(acceptCh) - 1
      /\ \A i \in DOMAIN acceptCh' : i + 1 \in DOMAIN acceptCh /\ i \in Int
                                     /\ acceptCh'[i] = acceptCh[i + 1]
                                     /\ acceptCh[i + 1] # x
  BY <1>1, SMTT(30) DEF QueueInv
<1>3. hpc' \in [Streams -> {"none", "run", "write", "sent", "release", "rst", "done"}]
      /\ \A s \in Streams : s # x => hpc'[s] = hpc[s]
      /\ hpc'[x] \in {"none", "run"}
  BY <1>1, <1>2 DEF TypeOK
<1>4. TypeOK'
  <2>1. Len(acceptCh') <= QueueDepth
    BY <1>1, <1>2, ConstantsAssumption, SMTT(30) DEF TypeOK
  <2> QED BY <1>1, <1>2, <1>3, <2>1 DEF TypeOK, readerVars
<1>5. CallbackInv'
  BY <1>1, ReaderElsewhere
<1>6. PcInv'
  BY <1>1, <1>2, <1>3 DEF PcInv, readerVars
<1>7. QuietInv' /\ EofInv' /\ NoFrameAfterReset' /\ ReleasedCancelled'
  <2>1. QuietInv' /\ ReleasedCancelled'
    BY <1>1 DEF QuietInv, Shut, ReleasedCancelled, readerVars
  <2> QED BY <1>1, <2>1, SameLog, SameWire
<1>8. QueueInv'
  <2>1. \A i \in DOMAIN acceptCh' : acceptCh'[i] \in opened /\ hpc'[acceptCh'[i]] = "none"
    BY <1>1, <1>2, <1>3, SMTT(30) DEF QueueInv
  <2>2. \A i, j \in DOMAIN acceptCh' : i # j => acceptCh'[i] # acceptCh'[j]
    BY <1>2, SMTT(30) DEF QueueInv
  <2> QED BY <1>1, <2>1, <2>2 DEF QueueInv
<1>9. ReleaseOwed'
  <2>1. UNCHANGED <<rs, rtodo>>
    BY <1>1 DEF readerVars
  <2>2. \A s \in live : hpc[s] \in {"release", "rst"} => hpc'[s] = hpc[s]
    BY <1>2, <1>3, StreamsKnown
  <2>3. \A s \in live : Owed(s) => Owed(s)'
    BY <1>1, <2>1, <2>2 DEF Owed, Has
  <2> QED BY <1>1, <2>3, OwedRelease
<1>10. EofIsLast'
  BY <1>1, <1>4 DEF EofIsLast
<1> QED BY <1>4, <1>5, <1>6, <1>7, <1>8, <1>9, <1>10 DEF LifecycleInv

LEMMA RecvKeeps ==
  ASSUME LifecycleInv, NEW x \in Streams, Recv(x)
  PROVE  LifecycleInv'
<1>0. /\ TypeOK /\ CallbackInv /\ PcInv /\ QuietInv /\ EofInv /\ QueueInv
      /\ ReleaseOwed /\ ReleasedCancelled /\ NoFrameAfterReset /\ EofIsLast
  BY DEF LifecycleInv
<1> USE <1>0
<1>1. /\ UNCHANGED <<st, live, maxClient, cancelled, acceptCh, log, wire, readerVars,
                     hpc, hend, sends, gpc, closed, broken, ndata, peerReset, opened>>
      /\ taken' = [taken EXCEPT ![x] = @ + 1] /\ taken[x] < Len(log[x])
  BY DEF Recv, streamVars, handlerVars, connVars, histVars
<1>2. TypeOK'
  <2>1. /\ taken' \in [Streams -> Nat]
        /\ \A s \in Streams : Len(log[s]) - taken'[s] \in 0..EventBuf
    <3>1. /\ taken \in [Streams -> Nat] /\ log \in [Streams -> Seq(Event)]
          /\ \A s \in Streams : Len(log[s]) - taken[s] \in 0..EventBuf
      BY DEF TypeOK
    <3>2. \A s \in Streams : Len(log[s]) \in Nat
      BY <3>1, SMTT(30)
    <3>3. /\ taken' \in [Streams -> Nat] /\ taken'[x] = taken[x] + 1
          /\ \A s \in Streams : s # x => taken'[s] = taken[s]
      BY <1>1, <3>1, SMTT(30)
    <3>4. Len(log[x]) - taken'[x] \in 0..EventBuf
      BY <1>1, <3>1, <3>2, <3>3, ConstantsAssumption, SMTT(30)
    <3> QED BY <3>1, <3>3, <3>4
  <2> QED BY <1>1, <2>1 DEF TypeOK, readerVars
<1>3. CallbackInv'
  BY <1>1, ReaderElsewhere
<1>4. PcInv' /\ QuietInv' /\ EofInv' /\ NoFrameAfterReset' /\ ReleasedCancelled'
  <2>1. PcInv'
    BY <1>1 DEF PcInv, readerVars
  <2>2. QuietInv' /\ ReleasedCancelled'
    BY <1>1 DEF QuietInv, Shut, ReleasedCancelled, readerVars
  <2> QED BY <1>1, <2>1, <2>2, SameLog, SameWire
<1>5. QueueInv' /\ ReleaseOwed'
  BY <1>1 DEF QueueInv, ReleaseOwed, readerVars
<1>6. EofIsLast'
  BY <1>1, <1>2 DEF EofIsLast
<1> QED BY <1>2, <1>3, <1>4, <1>5, <1>6 DEF LifecycleInv

LEMMA SendKeeps ==
  ASSUME LifecycleInv, NEW x \in Streams, NEW end \in BOOLEAN, Send(x, end)
  PROVE  LifecycleInv'
<1>0. /\ TypeOK /\ CallbackInv /\ PcInv /\ QuietInv /\ EofInv /\ QueueInv
      /\ ReleaseOwed /\ ReleasedCancelled /\ NoFrameAfterReset /\ EofIsLast
  BY DEF LifecycleInv
<1> USE <1>0
<1>1. /\ UNCHANGED <<st, live, maxClient, cancelled, acceptCh, log, taken, wire,
                     readerVars, sends, gpc, closed, broken, ndata, peerReset, opened>>
      /\ hpc[x] = "run" /\ hpc' = [hpc EXCEPT ![x] = "write"]
      /\ hend' = [hend EXCEPT ![x] = end] /\ sends[x] < MaxSends
  BY DEF Send, streamVars, eventVars, connVars, histVars
<1>2. /\ hpc' \in [Streams -> {"none", "run", "write", "sent", "release", "rst", "done"}]
      /\ hpc'[x] = "write"
      /\ \A s \in Streams : s # x => hpc'[s] = hpc[s]
  BY <1>1 DEF TypeOK
<1>3. TypeOK'
  <2>1. hend' \in [Streams -> BOOLEAN]
    BY <1>1 DEF TypeOK
  <2> QED BY <1>1, <1>2, <2>1 DEF TypeOK, readerVars
<1>4. CallbackInv'
  BY <1>1, ReaderElsewhere
<1>5. PcInv'
  BY <1>1, <1>2 DEF PcInv, readerVars
<1>6. QuietInv' /\ EofInv' /\ NoFrameAfterReset' /\ ReleasedCancelled'
  <2>1. QuietInv' /\ ReleasedCancelled'
    BY <1>1 DEF QuietInv, Shut, ReleasedCancelled, readerVars
  <2> QED BY <1>1, <2>1, SameLog, SameWire
<1>7. QueueInv'
  BY <1>1, <1>2, QueueElsewhere
<1>8. ReleaseOwed'
  <2>1. \A s \in live : Owed(s) => Owed(s)'
    BY <1>1, <1>2, StreamsKnown DEF Owed, Has, readerVars
  <2> QED BY <1>1, <2>1, OwedRelease
<1>9. EofIsLast'
  BY <1>1, <1>3 DEF EofIsLast
<1> QED BY <1>3, <1>4, <1>5, <1>6, <1>7, <1>8, <1>9 DEF LifecycleInv

LEMMA WriteKeeps ==
  ASSUME LifecycleInv, NEW x \in Streams, Write(x)
  PROVE  LifecycleInv'
<1>0. /\ TypeOK /\ CallbackInv /\ PcInv /\ QuietInv /\ EofInv /\ QueueInv
      /\ ReleaseOwed /\ ReleasedCancelled /\ NoFrameAfterReset /\ EofIsLast
  BY DEF LifecycleInv
<1> USE <1>0
<1>1. /\ UNCHANGED <<st, live, maxClient, cancelled, acceptCh, log, taken, readerVars,
                     hend, gpc, closed, broken, ndata, peerReset, opened>>
      /\ hpc[x] = "write"
      /\ \/ hpc' = [hpc EXCEPT ![x] = "run"] /\ UNCHANGED <<wire, sends>>
         \/ hpc' = [hpc EXCEPT ![x] = "sent"] /\ sends' = [sends EXCEPT ![x] = @ + 1]
  BY DEF Write, streamVars, eventVars, connVars, histVars
<1>2. /\ hpc' \in [Streams -> {"none", "run", "write", "sent", "release", "rst", "done"}]
      /\ hpc'[x] \in {"run", "sent"}
      /\ \A s \in Streams : s # x => hpc'[s] = hpc[s] /\ sends'[s] = sends[s]
  BY <1>1 DEF TypeOK
<1>3. x \in opened
  BY <1>1 DEF PcInv
<1>4. /\ wire' \in [Streams -> Seq(Frame)] /\ NoFrameAfterReset'
      /\ \A s \in Streams : "RST" \in Range(wire'[s]) => "RST" \in Range(wire[s])
  <2>1. CASE UNCHANGED wire
    BY <2>1, SMTT(30) DEF TypeOK, NoFrameAfterReset
  <2>2. CASE ~UNCHANGED wire
    <3>1. PICK f \in Frame \ {"RST"} : wire' = [wire EXCEPT ![x] = Append(@, f)]
      BY <2>2 DEF Write, Frame, Ends
    <3>2. ~closed /\ ~broken /\ Writable(st[x])
      BY <2>2 DEF Write
    <3>3. "RST" \notin Range(wire[x])
      BY <1>3, <3>2 DEF QuietInv, Shut
    <3> QED BY <3>1, <3>3, WireFrame
  <2> QED BY <2>1, <2>2
<1>5. TypeOK'
  <2>1. sends' \in [Streams -> 0..MaxSends]
    <3>1. sends \in [Streams -> 0..MaxSends] /\ sends[x] < MaxSends
      BY <1>1 DEF PcInv, TypeOK
    <3> QED BY <1>1, <3>1, ConstantsAssumption, SMTT(30)
  <2> QED BY <1>1, <1>2, <1>4, <2>1 DEF TypeOK, readerVars
<1>6. CallbackInv'
  BY <1>1, ReaderElsewhere
<1>7. PcInv'
  BY <1>1, <1>2, <1>3 DEF PcInv, readerVars
<1>8. QuietInv'
  BY <1>1, <1>4 DEF QuietInv, Shut, readerVars
<1>9. EofInv' /\ ReleasedCancelled'
  BY <1>1, SameLog DEF ReleasedCancelled, readerVars
<1>10. QueueInv'
  BY <1>1, <1>2, QueueElsewhere
<1>11. ReleaseOwed'
  <2>1. \A s \in live : Owed(s) => Owed(s)'
    BY <1>1, <1>2, StreamsKnown DEF Owed, Has, readerVars
  <2> QED BY <1>1, <2>1, OwedRelease
<1>12. EofIsLast'
  BY <1>1, <1>5, SMTT(30) DEF EofIsLast
<1> QED BY <1>4, <1>5, <1>6, <1>7, <1>8, <1>9, <1>10, <1>11, <1>12 DEF LifecycleInv

\* Sent ends the local half; when the remote one has ended too, the handler owes the
\* release.
LEMMA SentKeeps ==
  ASSUME LifecycleInv, NEW x \in Streams, Sent(x)
  PROVE  LifecycleInv'
<1> DEFINE bits == {"SentFields"} \cup (IF hend[x] THEN {"SentEnded"} ELSE {})
<1>0. /\ TypeOK /\ CallbackInv /\ PcInv /\ QuietInv /\ EofInv /\ QueueInv
      /\ ReleaseOwed /\ ReleasedCancelled /\ NoFrameAfterReset /\ EofIsLast
  BY DEF LifecycleInv
<1> USE <1>0
<1>1. /\ UNCHANGED <<live, maxClient, cancelled, acceptCh, log, taken, wire, readerVars,
                     hend, sends, gpc, closed, broken, ndata, peerReset, opened>>
      /\ hpc[x] = "sent" /\ advance(x, bits)
      /\ hpc' = [hpc EXCEPT ![x] = IF hend[x] /\ "RecvEnded" \in st[x]
                                     THEN "release" ELSE "run"]
  BY DEF Sent, eventVars, connVars, histVars
<1>2. /\ hpc' \in [Streams -> {"none", "run", "write", "sent", "release", "rst", "done"}]
      /\ hpc'[x] = IF hend[x] /\ "RecvEnded" \in st[x] THEN "release" ELSE "run"
      /\ \A s \in Streams : s # x => hpc'[s] = hpc[s]
  BY <1>1 DEF TypeOK
<1>3. x \in opened
  BY <1>1 DEF PcInv
<1>4. /\ st' \in [Streams -> SUBSET Bits]
      /\ st'[x] = st[x] \cup bits
      /\ \A s \in Streams : s # x => st'[s] = st[s]
      /\ \A s \in Streams : st[s] \subseteq st'[s]
  BY <1>1, Advanced DEF Bits
<1>5. TypeOK'
  BY <1>1, <1>2, <1>4 DEF TypeOK, readerVars
<1>6. CallbackInv'
  BY <1>1, <1>4, ReaderElsewhere
<1>7. PcInv'
  <2>1. ~Writable(st[x]) => ~Writable(st'[x])
    BY <1>4, StateWord
  <2>2. hpc'[x] = "release" => ~Writable(st'[x])
    BY <1>2, <1>4, StateWord
  <2>3. UNCHANGED frames
    BY <1>1 DEF readerVars
  <2> QED BY <1>1, <1>2, <1>3, <1>4, <2>1, <2>2, <2>3 DEF PcInv
<1>8. QuietInv'
  <2>1. UNCHANGED rdead
    BY <1>1 DEF readerVars
  <2> QED BY <1>1, <1>4, <2>1, QuietKept
<1>9. EofInv' /\ ReleasedCancelled' /\ NoFrameAfterReset'
  BY <1>1, <1>4, SameLog, SameWire DEF ReleasedCancelled, readerVars
<1>10. QueueInv'
  BY <1>1, <1>2, QueueElsewhere
<1>11. ReleaseOwed'
  <2>1. \A s \in live : s # x /\ Owed(s) => Owed(s)'
    BY <1>1, <1>2, StreamsKnown DEF Owed, Has, readerVars
  <2>2. Owed(x) => Owed(x)'
    BY <1>1, <1>2 DEF Owed, Has, readerVars
  <2>3. Terminal(st'[x]) => Terminal(st[x]) \/ hpc'[x] = "release"
    BY <1>2, <1>4, StateWord, SMTT(30)
  <2>4. hpc'[x] = "release" => Owed(x)'
    BY DEF Owed
  <2> QED BY <1>1, <1>4, <2>1, <2>2, <2>3, <2>4, OwedRelease, StreamsKnown
<1>12. EofIsLast'
  BY <1>1, <1>5 DEF EofIsLast
<1> QED BY <1>5, <1>6, <1>7, <1>8, <1>9, <1>10, <1>11, <1>12 DEF LifecycleInv

\* A stream that leaves the table in a step is cancelled in it.
LEMMA DoneCancels ==
  ASSUME TypeOK, ReleasedCancelled, NEW x \in Streams, markStreamDone(x),
         UNCHANGED <<opened, rs>>, Has("refuse") => Has("refuse")'
  PROVE  ReleasedCancelled' /\ cancelled' \subseteq Streams /\ live' \subseteq live
<1>1. cancelled \subseteq Streams /\ live \subseteq opened
  BY DEF TypeOK
<1> QED BY <1>1 DEF markStreamDone, ReleasedCancelled, Has

LEMMA HandlerReleaseKeeps ==
  ASSUME LifecycleInv, NEW x \in Streams, HandlerRelease(x)
  PROVE  LifecycleInv'
<1>0. /\ TypeOK /\ CallbackInv /\ PcInv /\ QuietInv /\ EofInv /\ QueueInv
      /\ ReleaseOwed /\ ReleasedCancelled /\ NoFrameAfterReset /\ EofIsLast
  BY DEF LifecycleInv
<1> USE <1>0
<1>1. /\ UNCHANGED <<st, maxClient, acceptCh, log, taken, wire, readerVars, hend, sends,
                     gpc, closed, broken, ndata, peerReset, opened>>
      /\ hpc[x] = "release" /\ markStreamDone(x)
      /\ hpc' = [hpc EXCEPT ![x] = "run"]
  BY DEF HandlerRelease, eventVars, connVars, histVars
<1>2. /\ hpc' \in [Streams -> {"none", "run", "write", "sent", "release", "rst", "done"}]
      /\ hpc'[x] = "run"
      /\ \A s \in Streams : s # x => hpc'[s] = hpc[s]
  BY <1>1 DEF TypeOK
<1>3. UNCHANGED <<rtodo, rs, rdead, frames>>
  BY <1>1 DEF readerVars
<1>4. ReleasedCancelled' /\ cancelled' \subseteq Streams /\ live' = live \ {x}
  BY <1>1, <1>3, DoneCancels DEF Has, markStreamDone
<1>5. TypeOK'
  BY <1>1, <1>2, <1>4 DEF TypeOK, readerVars
<1>6. CallbackInv'
  BY <1>1, <1>4, ReaderElsewhere
<1>7. PcInv'
  BY <1>1, <1>2, <1>3 DEF PcInv
<1>8. QuietInv'
  <2>1. Shut(x)'
    BY <1>1 DEF PcInv, Shut
  <2> QED BY <1>1, <1>3, <1>4, <2>1, QuietKept
<1>9. EofInv' /\ NoFrameAfterReset'
  BY <1>1, SameLog, SameWire
<1>10. QueueInv'
  BY <1>1, <1>2, QueueElsewhere
<1>11. ReleaseOwed'
  <2>1. \A s \in live' : Owed(s) => Owed(s)'
    BY <1>1, <1>2, <1>3, <1>4, StreamsKnown DEF Owed, Has
  <2> QED BY <1>1, <1>4, <2>1, OwedRelease
<1>12. EofIsLast'
  BY <1>1, <1>5 DEF EofIsLast
<1> QED BY <1>4, <1>5, <1>6, <1>7, <1>8, <1>9, <1>10, <1>11, <1>12 DEF LifecycleInv

\* Close on a stream that has not ended owes its reset; one that has ended is owed
\* by somebody else already.
LEMMA CloseKeeps ==
  ASSUME LifecycleInv, NEW x \in Streams, Close(x)
  PROVE  LifecycleInv'
<1>0. /\ TypeOK /\ CallbackInv /\ PcInv /\ QuietInv /\ EofInv /\ QueueInv
      /\ ReleaseOwed /\ ReleasedCancelled /\ NoFrameAfterReset /\ EofIsLast
  BY DEF LifecycleInv
<1> USE <1>0
<1>1. /\ UNCHANGED <<live, maxClient, cancelled, acceptCh, log, taken, wire, readerVars,
                     hend, sends, gpc, closed, broken, ndata, peerReset, opened>>
      /\ hpc[x] = "run" /\ advance(x, {"Reset"})
      /\ hpc' = [hpc EXCEPT ![x] = IF Terminal(st[x]) THEN "done" ELSE "rst"]
  BY DEF Close, eventVars, connVars, histVars
<1>2. /\ hpc' \in [Streams -> {"none", "run", "write", "sent", "release", "rst", "done"}]
      /\ hpc'[x] = IF Terminal(st[x]) THEN "done" ELSE "rst"
      /\ \A s \in Streams : s # x => hpc'[s] = hpc[s]
  BY <1>1 DEF TypeOK
<1>3. UNCHANGED <<rtodo, rs, rdead, frames>>
  BY <1>1 DEF readerVars
<1>4. /\ st' \in [Streams -> SUBSET Bits]
      /\ st'[x] = st[x] \cup {"Reset"}
      /\ \A s \in Streams : s # x => st'[s] = st[s]
      /\ \A s \in Streams : st[s] \subseteq st'[s]
  BY <1>1, Advanced DEF Bits
<1>5. TypeOK'
  BY <1>1, <1>2, <1>4 DEF TypeOK, readerVars
<1>6. CallbackInv'
  BY <1>1, <1>4, ReaderElsewhere
<1>7. PcInv'
  <2>1. x \in opened
    BY <1>1 DEF PcInv
  <2> QED BY <1>1, <1>2, <1>3, <1>4, <2>1, SMTT(30) DEF PcInv
<1>8. QuietInv'
  BY <1>1, <1>3, <1>4, QuietKept
<1>9. EofInv' /\ NoFrameAfterReset' /\ ReleasedCancelled'
  BY <1>1, <1>3, <1>4, SameLog, SameWire DEF ReleasedCancelled
<1>10. QueueInv'
  BY <1>1, <1>2, QueueElsewhere
<1>11. ReleaseOwed'
  <2>1. \A s \in live : Owed(s) => Owed(s)'
    BY <1>1, <1>2, <1>3, StreamsKnown DEF Owed, Has
  <2>2. Terminal(st[x]) \/ Owed(x)'
    BY <1>2 DEF Owed
  <2> QED BY <1>1, <1>4, <2>1, <2>2, OwedRelease, StreamsKnown
<1>12. EofIsLast'
  BY <1>1, <1>5 DEF EofIsLast
<1> QED BY <1>5, <1>6, <1>7, <1>8, <1>9, <1>10, <1>11, <1>12 DEF LifecycleInv

LEMMA HandlerRSTKeeps ==
  ASSUME LifecycleInv, NEW x \in Streams, HandlerRST(x)
  PROVE  LifecycleInv'
<1>0. /\ TypeOK /\ CallbackInv /\ PcInv /\ QuietInv /\ EofInv /\ QueueInv
      /\ ReleaseOwed /\ ReleasedCancelled /\ NoFrameAfterReset /\ EofIsLast
  BY DEF LifecycleInv
<1> USE <1>0
<1>1. /\ UNCHANGED <<st, maxClient, acceptCh, log, taken, readerVars, hend, sends, gpc,
                     closed, broken, ndata, peerReset, opened>>
      /\ hpc[x] = "rst" /\ writeRST(x) /\ markStreamDone(x)
      /\ hpc' = [hpc EXCEPT ![x] = "done"]
  BY DEF HandlerRST, writeRST, eventVars, connVars, histVars
<1>2. /\ hpc' \in [Streams -> {"none", "run", "write", "sent", "release", "rst", "done"}]
      /\ hpc'[x] = "done"
      /\ \A s \in Streams : s # x => hpc'[s] = hpc[s]
  BY <1>1 DEF TypeOK
<1>3. UNCHANGED <<rtodo, rs, rdead, frames>>
  BY <1>1 DEF readerVars
<1>4. ReleasedCancelled' /\ cancelled' \subseteq Streams /\ live' = live \ {x}
  BY <1>1, <1>3, DoneCancels DEF Has, markStreamDone
<1>5. /\ wire' \in [Streams -> Seq(Frame)] /\ NoFrameAfterReset'
      /\ \A s \in Streams : "RST" \in Range(wire'[s]) => s = x \/ "RST" \in Range(wire[s])
  BY <1>1, WireRST DEF writeRST
<1>6. TypeOK'
  BY <1>1, <1>2, <1>4, <1>5 DEF TypeOK, readerVars
<1>7. CallbackInv'
  BY <1>1, <1>4, ReaderElsewhere
<1>8. PcInv' /\ x \in opened
  BY <1>1, <1>2, <1>3 DEF PcInv
<1>9. QuietInv'
  <2>1. Shut(x)' /\ x <= maxClient
    BY <1>1, <1>8, StateWord, SMTT(30) DEF PcInv, Shut, TypeOK
  <2>2. \A s \in Streams : "RST" \in Range(wire'[s]) =>
          "RST" \in Range(wire[s]) \/ (s <= maxClient' /\ Shut(s)')
    BY <1>1, <1>5, <2>1
  <2> QED BY <1>1, <1>3, <1>4, <2>1, <2>2, QuietKept
<1>10. EofInv'
  BY <1>1, SameLog
<1>11. QueueInv'
  BY <1>1, <1>2, QueueElsewhere
<1>12. ReleaseOwed'
  <2>1. \A s \in live' : Owed(s) => Owed(s)'
    BY <1>1, <1>2, <1>3, <1>4, StreamsKnown DEF Owed, Has
  <2> QED BY <1>1, <1>4, <2>1, OwedRelease
<1>13. EofIsLast'
  BY <1>1, <1>6 DEF EofIsLast
<1> QED BY <1>4, <1>5, <1>6, <1>7, <1>8, <1>9, <1>10, <1>11, <1>12, <1>13 DEF LifecycleInv

LEMMA OverflowRSTKeeps ==
  ASSUME LifecycleInv, NEW x \in Streams, OverflowRST(x)
  PROVE  LifecycleInv'
<1>0. /\ TypeOK /\ CallbackInv /\ PcInv /\ QuietInv /\ EofInv /\ QueueInv
      /\ ReleaseOwed /\ ReleasedCancelled /\ NoFrameAfterReset /\ EofIsLast
  BY DEF LifecycleInv
<1> USE <1>0
<1>1. /\ UNCHANGED <<st, maxClient, acceptCh, log, taken, readerVars, hpc, hend, sends,
                     closed, broken, ndata, peerReset, opened>>
      /\ gpc[x] = "rst" /\ writeRST(x) /\ markStreamDone(x)
      /\ gpc' = [gpc EXCEPT ![x] = "done"]
  BY DEF OverflowRST, writeRST, eventVars, connVars, histVars
<1>2. /\ gpc' \in [Streams -> {"none", "rst", "done"}]
      /\ gpc'[x] = "done"
      /\ \A s \in Streams : s # x => gpc'[s] = gpc[s]
  BY <1>1 DEF TypeOK
<1>3. UNCHANGED <<rtodo, rs, rdead, frames>>
  BY <1>1 DEF readerVars
<1>4. ReleasedCancelled' /\ cancelled' \subseteq Streams /\ live' = live \ {x}
  BY <1>1, <1>3, DoneCancels DEF Has, markStreamDone
<1>5. /\ wire' \in [Streams -> Seq(Frame)] /\ NoFrameAfterReset'
      /\ \A s \in Streams : "RST" \in Range(wire'[s]) => s = x \/ "RST" \in Range(wire[s])
  BY <1>1, WireRST DEF writeRST
<1>6. TypeOK'
  BY <1>1, <1>2, <1>4, <1>5 DEF TypeOK, readerVars
<1>7. CallbackInv'
  BY <1>1, <1>4, ReaderElsewhere
<1>8. PcInv' /\ x \in opened
  BY <1>1, <1>2, <1>3 DEF PcInv
<1>9. QuietInv'
  <2>1. Shut(x)' /\ x <= maxClient
    BY <1>1, <1>8, StateWord, SMTT(30) DEF PcInv, Shut, TypeOK
  <2>2. \A s \in Streams : "RST" \in Range(wire'[s]) =>
          "RST" \in Range(wire[s]) \/ (s <= maxClient' /\ Shut(s)')
    BY <1>1, <1>5, <2>1
  <2> QED BY <1>1, <1>3, <1>4, <2>1, <2>2, QuietKept
<1>10. EofInv'
  BY <1>1, SameLog
<1>11. QueueInv'
  BY <1>1, SameQueue
<1>12. ReleaseOwed'
  <2>1. \A s \in live' : Owed(s) => Owed(s)'
    BY <1>1, <1>2, <1>3, <1>4, StreamsKnown DEF Owed, Has
  <2> QED BY <1>1, <1>4, <2>1, OwedRelease
<1>13. EofIsLast'
  BY <1>1, <1>6 DEF EofIsLast
<1> QED BY <1>4, <1>5, <1>6, <1>7, <1>8, <1>9, <1>10, <1>11, <1>12, <1>13 DEF LifecycleInv

\* ServerConn.Close takes the connection away from every stream at once.
LEMMA CloseConnKeeps ==
  ASSUME LifecycleInv, CloseConn
  PROVE  LifecycleInv'
<1>0. /\ TypeOK /\ CallbackInv /\ PcInv /\ QuietInv /\ EofInv /\ QueueInv
      /\ ReleaseOwed /\ ReleasedCancelled /\ NoFrameAfterReset /\ EofIsLast
  BY DEF LifecycleInv
<1> USE <1>0
<1>1. /\ UNCHANGED <<st, live, maxClient, acceptCh, log, taken, wire, readerVars, hpc,
                     hend, sends, gpc, ndata, peerReset, opened>>
      /\ closed' = TRUE /\ broken' = TRUE /\ cancelled' = Streams
  BY DEF CloseConn, eventVars, handlerVars, histVars
<1>2. TypeOK'
  BY <1>1 DEF TypeOK, readerVars
<1>3. UNCHANGED <<rtodo, rs, rdead, frames>>
  BY <1>1 DEF readerVars
<1>4. CallbackInv'
  BY <1>1, ReaderElsewhere
<1>5. PcInv' /\ EofInv' /\ NoFrameAfterReset' /\ QueueInv' /\ ReleaseOwed'
  <2>1. PcInv'
    BY <1>1, <1>3 DEF PcInv
  <2>2. ReleaseOwed'
    BY <1>1, <1>3 DEF ReleaseOwed
  <2> QED BY <1>1, <2>1, <2>2, SameLog, SameWire, SameQueue
<1>6. QuietInv' /\ ReleasedCancelled'
  BY <1>1, StreamsKnown DEF QuietInv, Shut, ReleasedCancelled
<1>7. EofIsLast'
  BY <1>1, <1>2 DEF EofIsLast
<1> QED BY <1>2, <1>4, <1>5, <1>6, <1>7 DEF LifecycleInv

-----------------------------------------------------------------------------
(* The reader's steps *)

LEMMA CallbackType == Callbacks \subseteq Seq(Phase)
BY SMTT(30) DEF Callbacks, Phase

\* A step of the reader that touches no stream.
LEMMA StreamsElsewhere ==
  ASSUME LifecycleInv, frames' \in Nat, frames <= frames', broken => broken',
         UNCHANGED <<st, live, maxClient, acceptCh, log, wire, handlerVars, closed,
                     histVars, rdead>>
  PROVE  /\ PcInv' /\ QuietInv' /\ EofInv' /\ QueueInv' /\ NoFrameAfterReset'
         /\ TypeOK' => EofIsLast'
<1>0. /\ TypeOK /\ CallbackInv /\ PcInv /\ QuietInv /\ EofInv /\ QueueInv
      /\ ReleaseOwed /\ ReleasedCancelled /\ NoFrameAfterReset /\ EofIsLast
  BY DEF LifecycleInv
<1> USE <1>0
<1>1. /\ UNCHANGED <<st, live, maxClient, acceptCh, log, wire, hpc, hend, sends, gpc,
                     closed, ndata, peerReset, opened, rdead>>
  BY DEF handlerVars, histVars
<1>2. PcInv'
  <2>1. \A s \in Streams : ndata[s] <= frames'
    BY FramesGrow
  <2> QED BY <1>1, <2>1 DEF PcInv
<1>3. QuietInv' /\ EofInv' /\ QueueInv' /\ NoFrameAfterReset'
  <2>1. QuietInv'
    BY <1>1, SMTT(30) DEF QuietInv, Shut
  <2> QED BY <1>1, <2>1, SameLog, SameWire, SameQueue
<1>4. TypeOK' => EofIsLast'
  BY <1>1 DEF EofIsLast
<1> QED BY <1>2, <1>3, <1>4

\* A step that leaves the table alone and starts from a callback which owes nothing.
LEMMA NothingOwed ==
  ASSUME LifecycleInv, UNCHANGED <<st, live, handlerVars, cancelled, opened>>,
         Range(rtodo) \cap {"release", "rst", "refuse", "die", "shutdown"} = {}
  PROVE  ReleaseOwed' /\ ReleasedCancelled'
<1>0. /\ TypeOK /\ CallbackInv /\ PcInv /\ QuietInv /\ EofInv /\ QueueInv
      /\ ReleaseOwed /\ ReleasedCancelled /\ NoFrameAfterReset /\ EofIsLast
  BY DEF LifecycleInv
<1> USE <1>0
<1>1. UNCHANGED <<st, live, hpc, gpc, cancelled, opened>>
  BY DEF handlerVars
<1>2. \A s \in live : Owed(s) => Owed(s)'
  BY <1>1 DEF Owed, Has
<1>3. ReleaseOwed'
  BY <1>1, <1>2, OwedRelease
<1>4. ReleasedCancelled'
  BY <1>1 DEF ReleasedCancelled
<1> QED BY <1>3, <1>4

LEMMA ReceiveFacts ==
  ASSUME TypeOK, Receive
  PROVE  /\ rtodo = <<>> /\ Range(rtodo) = {} /\ ~rdead
         /\ frames' \in 0..MaxFrames /\ frames' \in Nat /\ frames <= frames'
         /\ frames' = frames + 1
<1>1. frames \in 0..MaxFrames /\ frames < MaxFrames /\ frames' = frames + 1
  BY DEF TypeOK, Receive
<1>2. rtodo = <<>> /\ Range(rtodo) = {} /\ ~rdead
  BY RangeTuples DEF Receive, ReaderIdle
<1> QED BY <1>1, <1>2, ConstantsAssumption, SMTT(30)

LEMMA ConnectionErrorKeeps ==
  ASSUME LifecycleInv, ConnectionError
  PROVE  LifecycleInv'
<1>0. /\ TypeOK /\ CallbackInv /\ PcInv /\ QuietInv /\ EofInv /\ QueueInv
      /\ ReleaseOwed /\ ReleasedCancelled /\ NoFrameAfterReset /\ EofIsLast
  BY DEF LifecycleInv
<1> USE <1>0
<1>1. /\ UNCHANGED <<st, live, maxClient, cancelled, acceptCh, log, taken, wire, pending,
                     rs, rblk, rev, rdead, undecoded, rapidResetCount, handlerVars,
                     closed, broken, histVars>>
      /\ Receive /\ rtodo' = <<"die">>
  BY DEF ConnectionError, streamVars, eventVars, connVars
<1>2. /\ rtodo = <<>> /\ Range(rtodo) = {} /\ Range(rtodo') = {"die"} /\ ~rdead
      /\ rtodo' \in Callbacks /\ frames' \in 0..MaxFrames /\ frames' \in Nat
      /\ frames <= frames'
  BY <1>1, ReceiveFacts, RangeTuples DEF Callbacks
<1>3. TypeOK'
  BY <1>1, <1>2, CallbackType DEF TypeOK, handlerVars, histVars
<1>4. CallbackInv'
  BY <1>1, <1>2 DEF CallbackInv, Has, histVars
<1>5. ReleaseOwed' /\ ReleasedCancelled'
  BY <1>1, <1>2, NothingOwed DEF histVars
<1> QED BY <1>1, <1>2, <1>3, <1>4, <1>5, StreamsElsewhere DEF LifecycleInv

LEMMA ReadErrorKeeps ==
  ASSUME LifecycleInv, ReadError
  PROVE  LifecycleInv'
<1>0. /\ TypeOK /\ CallbackInv /\ PcInv /\ QuietInv /\ EofInv /\ QueueInv
      /\ ReleaseOwed /\ ReleasedCancelled /\ NoFrameAfterReset /\ EofIsLast
  BY DEF LifecycleInv
<1> USE <1>0
<1>1. /\ UNCHANGED <<st, live, maxClient, cancelled, acceptCh, log, taken, wire, pending,
                     rs, rblk, rev, rdead, undecoded, rapidResetCount, frames,
                     handlerVars, closed, broken, histVars>>
      /\ rtodo = <<>> /\ ~rdead /\ rtodo' = <<"shutdown">>
  BY DEF ReadError, ReaderIdle, streamVars, eventVars, connVars
<1>2. /\ Range(rtodo) = {} /\ Range(rtodo') = {"shutdown"} /\ rtodo' \in Callbacks
      /\ frames' \in Nat /\ frames <= frames'
  BY <1>1, RangeTuples, SMTT(30) DEF Callbacks, TypeOK
<1>3. TypeOK'
  BY <1>1, <1>2, CallbackType DEF TypeOK, handlerVars, histVars
<1>4. CallbackInv'
  BY <1>1, <1>2 DEF CallbackInv, Has, histVars
<1>5. ReleaseOwed' /\ ReleasedCancelled'
  BY <1>1, <1>2, NothingOwed DEF histVars
<1> QED BY <1>1, <1>2, <1>3, <1>4, <1>5, StreamsElsewhere DEF LifecycleInv

\* An open block is of a stream that was registered, so the callback that completes
\* it is too.
LEMMA OnContinuationKeeps ==
  ASSUME LifecycleInv, NEW kind \in Blocks, OnContinuation(kind)
  PROVE  LifecycleInv'
<1>0. /\ TypeOK /\ CallbackInv /\ PcInv /\ QuietInv /\ EofInv /\ QueueInv
      /\ ReleaseOwed /\ ReleasedCancelled /\ NoFrameAfterReset /\ EofIsLast
  BY DEF LifecycleInv
<1> USE <1>0
<1>1. /\ UNCHANGED <<st, live, maxClient, cancelled, acceptCh, log, taken, wire, pending,
                     rev, rdead, rapidResetCount, handlerVars, closed, broken,
                     histVars>>
      /\ Receive /\ pending.s # 0 /\ rs' = pending.s
      /\ rblk' = [end |-> pending.end, trailer |-> pending.trailer, kind |-> kind]
      /\ \/ /\ rtodo' \in {<<"write431", "release", "die">>, <<"die">>}
            /\ undecoded' = undecoded
         \/ /\ rtodo' \in {<<"discard">>, <<"emit">>}
            /\ undecoded' = undecoded + 1
  BY DEF OnContinuation, streamVars, eventVars, connVars
<1>2. /\ rtodo = <<>> /\ Range(rtodo) = {} /\ ~rdead
      /\ frames' \in 0..MaxFrames /\ frames' \in Nat /\ frames <= frames'
  BY <1>1, ReceiveFacts
<1>3. /\ rtodo' \in Callbacks /\ undecoded = 0
      /\ \/ Range(rtodo') \in {{"write431", "release", "die"}, {"die"}} /\ undecoded' = 0
         \/ Range(rtodo') \in {{"discard"}, {"emit"}} /\ undecoded' = 1
  <2>1. undecoded = 0 /\ 0 + 1 = 1
    BY <1>2, SMTT(30) DEF CallbackInv, Has
  <2>2. CASE rtodo' \in {<<"write431", "release", "die">>, <<"die">>} /\ undecoded' = undecoded
    <3>1. rtodo' \in Callbacks /\ undecoded' = 0
      BY <2>1, <2>2 DEF Callbacks
    <3>2. Range(<<"write431", "release", "die">>) = {"write431", "release", "die"}
          /\ Range(<<"die">>) = {"die"}
      BY RangeTuples, SMTT(30)
    <3> QED BY <2>1, <2>2, <3>1, <3>2
  <2>3. CASE rtodo' \in {<<"discard">>, <<"emit">>} /\ undecoded' = undecoded + 1
    BY <2>1, <2>3, RangeTuples DEF Callbacks
  <2> QED BY <1>1, <2>2, <2>3
<1>4. rs' \in opened /\ rs' \in 0..N /\ rs' <= maxClient
  BY <1>1, SMTT(30) DEF CallbackInv, TypeOK
<1>5. TypeOK'
  <2>1. rblk' \in [end : BOOLEAN, trailer : BOOLEAN, kind : Blocks \cup {"good"}]
    BY <1>1 DEF TypeOK
  <2>2. rtodo' \in Seq(Phase) /\ undecoded' \in 0..1
    BY <1>3, CallbackType, SMTT(30)
  <2> QED
    BY <1>1, <1>2, <1>4, <2>1, <2>2 DEF TypeOK, handlerVars, histVars
<1>6. CallbackInv'
  BY <1>1, <1>2, <1>3, <1>4 DEF CallbackInv, Has, histVars
<1>7. ReleaseOwed' /\ ReleasedCancelled'
  BY <1>1, <1>2, NothingOwed DEF histVars
<1> QED BY <1>1, <1>2, <1>5, <1>6, <1>7, StreamsElsewhere DEF LifecycleInv

\* What a fragment leaves the reader to do.
LEMMA FragmentFacts ==
  ASSUME LifecycleInv, Receive, NEW x \in Streams, NEW end \in BOOLEAN,
         NEW last \in BOOLEAN, NEW kind \in Blocks, NEW trailer \in BOOLEAN,
         NEW refused \in BOOLEAN, Fragment(x, end, last, kind, trailer, refused)
  PROVE  /\ rs' = x
         /\ rblk' \in [end : BOOLEAN, trailer : BOOLEAN, kind : Blocks \cup {"good"}]
         /\ pending' \in [s : 0..N, end : BOOLEAN, trailer : BOOLEAN,
                          discard : BOOLEAN]
         /\ pending'.s \in {pending.s, x}
         /\ rtodo' \in Callbacks /\ undecoded' \in 0..1
         /\ undecoded' = 1 <=> Has("emit")' \/ Has("discard")'
         /\ Has("refuse")' <=> refused
         /\ Has("release")' => Has("write431")'
         /\ ~Has("rst")' /\ ~Has("push")' /\ ~Has("overflow")' /\ ~Has("sent431")'
         /\ ~Has("countRapid")' /\ ~Has("shutdown")'
<1>0. /\ TypeOK /\ CallbackInv /\ PcInv /\ QuietInv /\ EofInv /\ QueueInv
      /\ ReleaseOwed /\ ReleasedCancelled /\ NoFrameAfterReset /\ EofIsLast
  BY DEF LifecycleInv
<1> USE <1>0
<1>1. undecoded = 0
  BY ReceiveFacts DEF CallbackInv, Has
<1>2. \/ /\ last /\ rtodo' = (IF refused THEN <<"refuse">> ELSE <<>>)
                            \o (IF refused THEN <<"discard">> ELSE <<"emit">>)
         /\ undecoded' = 1 /\ pending' = pending
      \/ /\ ~last /\ kind = "huge"
         /\ rtodo' = (IF refused THEN <<"refuse">> ELSE <<>>)
                       \o <<"write431", "release", "die">>
         /\ undecoded' = 0 /\ pending' = pending
      \/ /\ ~last /\ kind # "huge"
         /\ rtodo' = (IF refused THEN <<"refuse">> ELSE <<>>)
         /\ undecoded' = 0
         /\ pending' = [s |-> x, end |-> end, trailer |-> trailer, discard |-> refused]
  <2>1. CASE last
    BY <1>1, <2>1, SMTT(30) DEF Fragment
  <2>2. CASE ~last /\ kind = "huge"
    BY <1>1, <2>2 DEF Fragment
  <2>3. CASE ~last /\ kind # "huge"
    BY <1>1, <2>3 DEF Fragment
  <2> QED BY <2>1, <2>2, <2>3
<1>3. \/ last /\ rtodo' = IF refused THEN <<"refuse", "discard">> ELSE <<"emit">>
      \/ ~last /\ rtodo' = IF refused THEN <<"refuse", "write431", "release", "die">>
                           ELSE <<"write431", "release", "die">>
      \/ ~last /\ rtodo' = IF refused THEN <<"refuse">> ELSE <<>>
  <2>1. /\ <<"refuse">> \o <<"discard">> = <<"refuse", "discard">>
        /\ <<"refuse">> \o <<"write431", "release", "die">>
             = <<"refuse", "write431", "release", "die">>
    BY ConcatTuples, SMTT(30)
  <2>2. /\ <<>> \o <<"emit">> = <<"emit">>
        /\ <<>> \o <<"write431", "release", "die">> = <<"write431", "release", "die">>
    BY SMTT(30)
  <2>3. CASE refused
    BY <1>2, <2>1, <2>3
  <2>4. CASE ~refused
    BY <1>2, <2>2, <2>4
  <2> QED BY <2>3, <2>4
<1>4. /\ rs' = x
      /\ rblk' = [end |-> end, trailer |-> trailer, kind |-> kind]
  BY DEF Fragment
<1>5. rblk' \in [end : BOOLEAN, trailer : BOOLEAN, kind : Blocks \cup {"good"}]
  BY <1>4
<1>6. pending' \in [s : 0..N, end : BOOLEAN, trailer : BOOLEAN, discard : BOOLEAN]
      /\ pending'.s \in {pending.s, x}
  BY <1>2, SMTT(30) DEF TypeOK, Streams
<1>7. rtodo' \in Callbacks
  BY <1>3 DEF Callbacks
<1>8. \/ last /\ Range(rtodo') = IF refused THEN {"refuse", "discard"} ELSE {"emit"}
      \/ ~last /\ Range(rtodo') = IF refused THEN {"refuse", "write431", "release", "die"}
                                  ELSE {"write431", "release", "die"}
      \/ ~last /\ Range(rtodo') = IF refused THEN {"refuse"} ELSE {}
  BY <1>3, RangeTuples, SMTT(30)
<1>9. undecoded' = IF last THEN 1 ELSE 0
  BY <1>2
<1> QED BY <1>4, <1>5, <1>6, <1>7, <1>8, <1>9, SMTT(30) DEF Has

LEMMA OnHeadersLiveKeeps ==
  ASSUME LifecycleInv, NEW x \in Streams, NEW end \in BOOLEAN, NEW last \in BOOLEAN,
         NEW kind \in Blocks, OnHeadersLive(x, end, last, kind)
  PROVE  LifecycleInv'
<1>0. /\ TypeOK /\ CallbackInv /\ PcInv /\ QuietInv /\ EofInv /\ QueueInv
      /\ ReleaseOwed /\ ReleasedCancelled /\ NoFrameAfterReset /\ EofIsLast
  BY DEF LifecycleInv
<1> USE <1>0
<1>1. /\ UNCHANGED <<st, live, maxClient, cancelled, acceptCh, log, taken, wire, rev,
                     rdead, rapidResetCount, handlerVars, closed, broken, histVars>>
      /\ Receive /\ x \in live
      /\ Fragment(x, end, last, kind, "RecvFields" \in st[x], FALSE)
  BY DEF OnHeadersLive, streamVars, eventVars, connVars
<1>2. /\ rtodo = <<>> /\ Range(rtodo) = {} /\ ~rdead
      /\ frames' \in 0..MaxFrames /\ frames' \in Nat /\ frames <= frames'
  BY <1>1, ReceiveFacts
<1>3. /\ rs' = x
      /\ rblk' \in [end : BOOLEAN, trailer : BOOLEAN, kind : Blocks \cup {"good"}]
      /\ pending' \in [s : 0..N, end : BOOLEAN, trailer : BOOLEAN, discard : BOOLEAN]
      /\ pending'.s \in {pending.s, x}
      /\ rtodo' \in Callbacks /\ undecoded' \in 0..1
      /\ undecoded' = 1 <=> Has("emit")' \/ Has("discard")'
      /\ ~Has("refuse")'
      /\ Has("release")' => Has("write431")'
      /\ ~Has("rst")' /\ ~Has("push")' /\ ~Has("overflow")' /\ ~Has("sent431")'
  <2> DEFINE trailer == "RecvFields" \in st[x]
             refused == FALSE
  <2>1. Fragment(x, end, last, kind, trailer, refused)
    BY <1>1
  <2>2. trailer \in BOOLEAN /\ refused \in BOOLEAN /\ (refused <=> FALSE)
    BY SMTT(30)
  <2> HIDE DEF trailer, refused
  <2> QED BY <1>1, <2>1, <2>2, FragmentFacts, SMTT(30)
<1>4. TypeOK'
  <2>1. rtodo' \in Seq(Phase) /\ rs' \in 0..N
    BY <1>3, CallbackType, SMTT(30) DEF Streams
  <2> QED
    BY <1>1, <1>2, <1>3, <2>1 DEF TypeOK, handlerVars, histVars
<1>5. CallbackInv'
  <2>1. rapidResetCount <= Budget /\ pending.s \in opened \cup {0}
    BY <1>2 DEF CallbackInv, Has
  <2>2. x \in opened /\ x <= maxClient /\ undecoded' = IF Has("emit")' \/ Has("discard")'
                                                         THEN 1 ELSE 0
    BY <1>1, <1>3, SMTT(30) DEF TypeOK
  <2> QED BY <1>1, <1>2, <1>3, <2>1, <2>2 DEF CallbackInv, histVars
<1>6. ReleaseOwed' /\ ReleasedCancelled'
  BY <1>1, <1>2, NothingOwed DEF histVars
<1> QED BY <1>1, <1>2, <1>4, <1>5, <1>6, StreamsElsewhere DEF LifecycleInv

\* registerStream: a stream that is refused is reset in the step that opens it, so
\* only one that waits in acceptCh can take frames.
LEMMA OnHeadersNewKeeps ==
  ASSUME LifecycleInv, NEW x \in Streams, NEW end \in BOOLEAN, NEW last \in BOOLEAN,
         NEW kind \in Blocks, OnHeadersNew(x, end, last, kind)
  PROVE  LifecycleInv'
<1> DEFINE room == MaxConcurrent = 0 \/ Cardinality(live) < MaxConcurrent
           queued == room /\ Len(acceptCh) < QueueDepth
           refused == ~queued
           trailer == FALSE
           bits == IF queued THEN {} ELSE {"Reset"}
<1>0. /\ TypeOK /\ CallbackInv /\ PcInv /\ QuietInv /\ EofInv /\ QueueInv
      /\ ReleaseOwed /\ ReleasedCancelled /\ NoFrameAfterReset /\ EofIsLast
  BY DEF LifecycleInv
<1> USE <1>0
<1>1. /\ UNCHANGED <<cancelled, log, taken, wire, rev, rdead, rapidResetCount, hpc, hend,
                     sends, gpc, closed, broken, ndata, peerReset>>
      /\ Receive /\ x > maxClient /\ pending.s = 0
      /\ maxClient' = x /\ opened' = opened \cup {x}
      /\ live' = IF room THEN live \cup {x} ELSE live
      /\ acceptCh' = IF queued THEN Append(acceptCh, x) ELSE acceptCh
      /\ advance(x, bits)
      /\ Fragment(x, end, last, kind, trailer, refused)
  BY DEF OnHeadersNew, idle, eventVars, handlerVars, connVars
<1>2. /\ trailer \in BOOLEAN /\ refused \in BOOLEAN /\ bits \in SUBSET Bits
      /\ (queued => room) /\ (refused <=> ~queued)
      /\ (queued => bits = {} /\ Len(acceptCh) < QueueDepth)
      /\ (~queued => bits = {"Reset"})
  BY DEF Bits
<1> HIDE DEF room, queued, refused, trailer, bits
<1>3. /\ rtodo = <<>> /\ Range(rtodo) = {} /\ ~rdead
      /\ frames' \in 0..MaxFrames /\ frames' \in Nat /\ frames <= frames'
  BY <1>1, ReceiveFacts
<1>4. /\ rs' = x
      /\ rblk' \in [end : BOOLEAN, trailer : BOOLEAN, kind : Blocks \cup {"good"}]
      /\ pending' \in [s : 0..N, end : BOOLEAN, trailer : BOOLEAN, discard : BOOLEAN]
      /\ pending'.s \in {pending.s, x}
      /\ rtodo' \in Callbacks /\ undecoded' \in 0..1
      /\ undecoded' = 1 <=> Has("emit")' \/ Has("discard")'
      /\ Has("refuse")' <=> refused
      /\ Has("release")' => Has("write431")'
      /\ ~Has("rst")' /\ ~Has("push")' /\ ~Has("overflow")' /\ ~Has("sent431")'
  BY <1>1, <1>2, FragmentFacts, SMTT(30)
<1>5. /\ st' \in [Streams -> SUBSET Bits]
      /\ st'[x] = st[x] \cup bits
      /\ \A s \in Streams : s # x => st'[s] = st[s]
      /\ \A s \in Streams : st[s] \subseteq st'[s]
  BY <1>1, <1>2, Advanced
<1>6. /\ maxClient \in 0..N /\ opened \subseteq 1..maxClient /\ live \subseteq opened
      /\ x \in 1..N /\ acceptCh \in Seq(Streams) /\ Len(acceptCh) <= QueueDepth
      /\ Len(acceptCh) \in Nat
  BY SMTT(30) DEF TypeOK, Streams
<1>7. /\ x \notin opened /\ x \notin live /\ st[x] = {}
      /\ \A s \in opened : s <= maxClient
  <2>1. x \notin opened /\ x \notin live /\ \A s \in opened : s <= maxClient
    BY <1>1, <1>6, SMTT(30)
  <2> QED BY <2>1 DEF PcInv
<1>8. TypeOK'
  <2>1. rtodo' \in Seq(Phase) /\ rs' \in 0..N
    BY <1>4, <1>6, CallbackType, SMTT(30)
  <2>2. live' \subseteq opened' /\ opened' \subseteq 1..maxClient' /\ maxClient' \in 0..N
        /\ peerReset' \subseteq opened'
    <3>1. live' \subseteq opened' /\ peerReset' \subseteq opened'
      BY <1>1, <1>6 DEF TypeOK
    <3>2. opened' \subseteq 1..x /\ x \in 0..N
      BY <1>1, <1>6, ConstantsAssumption, SMTT(30)
    <3> QED BY <1>1, <3>1, <3>2
  <2>3. acceptCh' \in Seq(Streams) /\ Len(acceptCh') <= QueueDepth
    BY <1>1, <1>2, <1>6, AppendElements, ConstantsAssumption, SMTT(30)
  <2> QED
    BY <1>1, <1>3, <1>4, <1>5, <2>1, <2>2, <2>3 DEF TypeOK
<1>9. CallbackInv'
  <2>1. rapidResetCount <= Budget
    BY <1>3 DEF CallbackInv, Has
  <2>2. undecoded' = IF Has("emit")' \/ Has("discard")' THEN 1 ELSE 0
    BY <1>4, SMTT(30)
  <2>3. pending'.s \in opened' \cup {0}
    BY <1>1, <1>4
  <2>4. Has("refuse")' => ~Writable(st'[rs'])
    BY <1>2, <1>4, <1>5, StateWord
  <2>5. x <= x
    BY <1>6, SMTT(30)
  <2> QED BY <1>1, <1>3, <1>4, <2>1, <2>2, <2>3, <2>4, <2>5 DEF CallbackInv
<1>10. PcInv'
  <2>1. \A s \in Streams : ndata[s] <= frames'
    BY <1>3, FramesGrow
  <2> QED BY <1>1, <1>5, <1>7, <2>1 DEF PcInv
<1>11. QuietInv'
  <2>1. ~queued => Shut(x)'
    BY <1>2, <1>5, StateWord DEF Shut
  <2>2. x \notin live' => ~queued
    BY <1>1, <1>2
  <2>3. maxClient <= maxClient' /\ maxClient' \in Int
    BY <1>1, <1>6, SMTT(30)
  <2>4. \A s \in Streams : s \in opened' /\ s <= maxClient => s \in opened
    BY <1>1, <1>6, SMTT(30)
  <2>5. \A s \in Streams : s \in opened' \ live' => s \in opened \ live \/ s = x
    BY <1>1
  <2>6. \A s \in Streams : s \in opened' \ live' => s \in opened \ live \/ Shut(s)'
    BY <2>1, <2>2, <2>5
  <2> QED BY <1>1, <1>5, <2>3, <2>4, <2>6, QuietKept
<1>12. EofInv' /\ NoFrameAfterReset' /\ EofIsLast'
  BY <1>1, <1>5, <1>8, SameLog, SameWire
<1>13. QueueInv'
  <2>1. CASE ~queued
    BY <1>1, <2>1 DEF QueueInv
  <2>2. CASE queued
    <3>1. hpc[x] = "none"
      BY <1>7 DEF PcInv
    <3>2. acceptCh' = Append(acceptCh, x) /\ \A i \in DOMAIN acceptCh : acceptCh[i] # x
      BY <1>1, <1>7, <2>2 DEF QueueInv
    <3>3. /\ DOMAIN acceptCh' = DOMAIN acceptCh \cup {Len(acceptCh) + 1}
          /\ \A i \in DOMAIN acceptCh : acceptCh'[i] = acceptCh[i]
          /\ acceptCh'[Len(acceptCh) + 1] = x
      BY <1>6, <3>2, AppendElements, SMTT(30)
    <3> QED BY <1>1, <3>1, <3>2, <3>3 DEF QueueInv
  <2> QED BY <2>1, <2>2
<1>14. ReleaseOwed'
  <2>1. \A s \in live : Owed(s) => Owed(s)'
    BY <1>1, <1>3 DEF Owed, Has
  <2>2. Terminal(st'[x]) => Owed(x)'
    BY <1>2, <1>4, <1>5, <1>7, StateWord DEF Owed
  <2>3. \A s \in live' : s = x \/ (s \in live /\ st'[s] = st[s])
    BY <1>1, <1>5, StreamsKnown
  <2> QED BY <2>1, <2>2, <2>3, OwedRelease
<1>15. ReleasedCancelled'
  <2>1. \A s \in opened' \ live' : s # x => s \in cancelled
    BY <1>1, <1>3 DEF ReleasedCancelled
  <2>2. x \notin live' => rs' = x /\ "refuse" \in Range(rtodo')
    BY <1>1, <1>2, <1>4 DEF Has
  <2> QED BY <1>1, <2>1, <2>2 DEF ReleasedCancelled
<1> QED
  BY <1>8, <1>9, <1>10, <1>11, <1>12, <1>13, <1>14, <1>15 DEF LifecycleInv

\* OnData on a live stream that has not ended: the first EOF, and the release when
\* the local half has ended before.
LEMMA OnDataDelivers ==
  ASSUME LifecycleInv, NEW x \in Streams, NEW end \in BOOLEAN, OnData(x, end),
         x \in live, "RecvEnded" \notin st[x]
  PROVE  LifecycleInv'
<1> DEFINE bits == IF end THEN {"RecvEnded"} ELSE {}
<1>0. /\ TypeOK /\ CallbackInv /\ PcInv /\ QuietInv /\ EofInv /\ QueueInv
      /\ ReleaseOwed /\ ReleasedCancelled /\ NoFrameAfterReset /\ EofIsLast
  BY DEF LifecycleInv
<1> USE <1>0
<1>1. /\ UNCHANGED <<live, maxClient, cancelled, acceptCh, log, taken, wire, pending,
                     rblk, rdead, undecoded, rapidResetCount, hpc, hend, sends, gpc,
                     closed, broken, peerReset, opened>>
      /\ Receive /\ rs' = x /\ advance(x, bits)
      /\ ndata' = [ndata EXCEPT ![x] = @ + 1]
      /\ rev' = [type |-> "data", n |-> ndata[x] + 1, end |-> end]
      /\ rtodo' = IF end /\ "SentEnded" \in st[x] THEN <<"push", "release">>
                  ELSE <<"push">>
  BY DEF OnData, eventVars, handlerVars, connVars
<1>2. bits \in SUBSET Bits /\ (end => bits = {"RecvEnded"}) /\ (~end => bits = {})
  BY DEF Bits
<1> HIDE DEF bits
<1>3. /\ rtodo = <<>> /\ Range(rtodo) = {} /\ ~rdead
      /\ frames' \in 0..MaxFrames /\ frames' \in Nat /\ frames <= frames'
      /\ frames' = frames + 1
  BY <1>1, ReceiveFacts
<1>4. /\ rtodo' \in Callbacks
      /\ Range(rtodo') = IF end /\ "SentEnded" \in st[x] THEN {"push", "release"}
                         ELSE {"push"}
  BY <1>1, RangeTuples DEF Callbacks
<1>5. /\ st' \in [Streams -> SUBSET Bits]
      /\ st'[x] = st[x] \cup bits
      /\ \A s \in Streams : s # x => st'[s] = st[s]
      /\ \A s \in Streams : st[s] \subseteq st'[s]
  BY <1>1, <1>2, Advanced
<1>6. /\ ndata' \in [Streams -> 0..MaxFrames] /\ rev' \in Event
      /\ \A s \in Streams : ndata'[s] <= frames'
  <2>1. ndata \in [Streams -> 0..MaxFrames] /\ frames \in 0..MaxFrames
    BY DEF TypeOK
  <2>2. \A s \in Streams : ndata'[s] \in Nat /\ ndata'[s] <= frames'
    BY <1>1, <1>3, <2>1, ConstantsAssumption, SMTT(30) DEF PcInv
  <2>3. ndata' \in [Streams -> 0..MaxFrames]
    BY <1>1, <1>3, <2>1, <2>2, ConstantsAssumption, SMTT(30)
  <2>4. rev' \in Event
    BY <1>1, <2>1, SMTT(30) DEF Event, EventTypes
  <2> QED BY <2>2, <2>3, <2>4
<1>7. x \in opened /\ x <= maxClient /\ x \in 0..N
  BY SMTT(30) DEF TypeOK, Streams
<1>8. TypeOK'
  <2>1. rtodo' \in Seq(Phase)
    BY <1>4, CallbackType
  <2> QED BY <1>1, <1>3, <1>5, <1>6, <1>7, <2>1 DEF TypeOK
<1>9. CallbackInv'
  <2>1. undecoded = 0 /\ rapidResetCount <= Budget /\ pending.s \in opened \cup {0}
    BY <1>3 DEF CallbackInv, Has
  <2>2. ~EofLogged(x)' /\ (end => "RecvEnded" \in st'[x])
    BY <1>1, <1>2, <1>5 DEF EofInv, EofLogged, Eof
  <2>3. rev'.end = end
    BY <1>1
  <2>4. Has("release")' => Shut(x)'
    BY <1>4, <1>5, StateWord, SMTT(30) DEF Has, Shut
  <2>5. ~Has("emit")' /\ ~Has("discard")' /\ ~Has("rst")' /\ ~Has("refuse")'
    BY <1>4, SMTT(30) DEF Has
  <2> QED
    BY <1>1, <1>3, <1>4, <1>7, <2>1, <2>2, <2>3, <2>4, <2>5 DEF CallbackInv
<1>10. PcInv'
  <2>1. ~Writable(st[x]) => ~Writable(st'[x])
    BY <1>5, StateWord
  <2> QED BY <1>1, <1>5, <1>6, <1>7, <2>1 DEF PcInv
<1>11. QuietInv'
  BY <1>1, <1>5, QuietKept
<1>12. EofInv' /\ NoFrameAfterReset' /\ QueueInv' /\ EofIsLast'
  BY <1>1, <1>5, <1>8, SameLog, SameWire, SameQueue
<1>13. ReleaseOwed'
  <2>1. \A s \in live : Owed(s) => Owed(s)'
    BY <1>1, <1>3 DEF Owed, Has
  <2>2. Terminal(st'[x]) => Terminal(st[x]) \/ Owed(x)'
    BY <1>1, <1>2, <1>4, <1>5, StateWord DEF Owed, Has
  <2> QED BY <1>1, <1>5, <2>1, <2>2, OwedRelease, StreamsKnown
<1>14. ReleasedCancelled'
  BY <1>1, <1>3 DEF ReleasedCancelled
<1> QED
  BY <1>8, <1>9, <1>10, <1>11, <1>12, <1>13, <1>14 DEF LifecycleInv

\* A callback that resets a live stream, and may push the reset: OnData past the EOF,
\* RST_STREAM, a WINDOW_UPDATE that overflows and a malformed PRIORITY.
LEMMA ReaderResets ==
  ASSUME LifecycleInv, Receive, NEW x \in live, NEW bits \in SUBSET Bits,
         "Reset" \in bits, advance(x, bits), rs' = x, rev' \in {rev, ResetEvent},
         rtodo' \in {<<"rst">>, <<"push", "rst">>, <<"push", "release">>,
                     <<"push", "release", "countRapid">>},
         rtodo' # <<"rst">> => rev' = ResetEvent,
         peerReset' \subseteq peerReset \cup {x},
         UNCHANGED <<live, maxClient, cancelled, acceptCh, log, taken, wire, pending,
                     rblk, rdead, undecoded, rapidResetCount, handlerVars, closed,
                     broken, ndata, opened>>
  PROVE  LifecycleInv'
<1>0. /\ TypeOK /\ CallbackInv /\ PcInv /\ QuietInv /\ EofInv /\ QueueInv
      /\ ReleaseOwed /\ ReleasedCancelled /\ NoFrameAfterReset /\ EofIsLast
  BY DEF LifecycleInv
<1> USE <1>0
<1>1. /\ UNCHANGED <<live, maxClient, cancelled, acceptCh, log, taken, wire, pending,
                     rblk, rdead, undecoded, rapidResetCount, hpc, hend, sends, gpc,
                     closed, broken, ndata, opened>>
  BY DEF handlerVars
<1>2. x \in opened /\ x \in Streams /\ x <= maxClient /\ x \in 0..N
  <2>1. x \in opened /\ x \in Streams
    BY StreamsKnown DEF TypeOK
  <2> QED BY <2>1, SMTT(30) DEF TypeOK, Streams
<1>3. /\ rtodo = <<>> /\ Range(rtodo) = {} /\ ~rdead
      /\ frames' \in 0..MaxFrames /\ frames' \in Nat /\ frames <= frames'
      /\ frames' = frames + 1
  BY <1>1, ReceiveFacts
<1>4. /\ rtodo' \in Callbacks
      /\ Range(rtodo') \in {{"rst"}, {"push", "rst"}, {"push", "release"},
                            {"push", "release", "countRapid"}}
  BY RangeTuples, SMTT(30) DEF Callbacks
<1>5. /\ st' \in [Streams -> SUBSET Bits]
      /\ st'[x] = st[x] \cup bits
      /\ \A s \in Streams : s # x => st'[s] = st[s]
      /\ \A s \in Streams : st[s] \subseteq st'[s]
      /\ "Reset" \in st'[x]
  <2>1. /\ st' \in [Streams -> SUBSET Bits]
        /\ st'[x] = st[x] \cup bits
        /\ \A s \in Streams : s # x => st'[s] = st[s]
        /\ \A s \in Streams : st[s] \subseteq st'[s]
    BY <1>2, Advanced
  <2>2. "Reset" \in st'[x]
    BY <2>1
  <2> QED BY <2>1, <2>2
<1>6. rev' \in Event /\ (Has("push")' => rev'.type = "reset")
  <2>1. ResetEvent \in Event /\ ResetEvent.type = "reset" /\ rev \in Event
    BY DEF ResetEvent, Event, EventTypes, TypeOK
  <2>2. Has("push")' => rtodo' # <<"rst">>
    BY RangeTuples, SMTT(30) DEF Has
  <2> QED BY <2>1, <2>2
<1>7. TypeOK'
  <2>1. rtodo' \in Seq(Phase)
    BY <1>4, CallbackType
  <2>2. peerReset' \subseteq opened
    BY <1>2 DEF TypeOK
  <2> QED BY <1>1, <1>2, <1>3, <1>5, <1>6, <2>1, <2>2 DEF TypeOK
<1>8. CallbackInv'
  <2>1. undecoded = 0 /\ rapidResetCount <= Budget /\ pending.s \in opened \cup {0}
    BY <1>3 DEF CallbackInv, Has
  <2>2. Shut(x)'
    BY <1>5, StateWord DEF Shut
  <2>3. ~Has("emit")' /\ ~Has("discard")' /\ ~Has("refuse")'
    BY <1>4 DEF Has
  <2> QED
    BY <1>1, <1>2, <1>3, <1>4, <1>6, <2>1, <2>2, <2>3, SMTT(30) DEF CallbackInv
<1>9. PcInv'
  <2>1. ~Writable(st'[x])
    BY <1>5, StateWord
  <2>2. \A s \in Streams : ndata[s] <= frames'
    BY <1>3, FramesGrow
  <2> QED BY <1>1, <1>2, <1>5, <2>1, <2>2 DEF PcInv
<1>10. QuietInv'
  BY <1>1, <1>5, QuietGrown
<1>11. EofInv' /\ NoFrameAfterReset' /\ QueueInv' /\ EofIsLast'
  BY <1>1, <1>5, <1>7, SameLog, SameWire, SameQueue
<1>12. ReleaseOwed'
  <2>1. \A s \in live : Owed(s) => Owed(s)'
    BY <1>1, <1>3 DEF Owed, Has
  <2>2. Owed(x)'
    BY <1>4 DEF Owed, Has
  <2> QED BY <1>1, <1>5, <2>1, <2>2, OwedRelease, StreamsKnown
<1>13. ReleasedCancelled'
  BY <1>1, <1>3 DEF ReleasedCancelled
<1> QED
  BY <1>7, <1>8, <1>9, <1>10, <1>11, <1>12, <1>13 DEF LifecycleInv

\* A callback for a stream that is gone does nothing to any stream.
LEMMA ReaderPasses ==
  ASSUME LifecycleInv, Receive, NEW x \in Streams, rs' \in {rs, x}, x <= maxClient,
         rtodo' \in {<<>>, <<"countRapid">>, <<"rst">>},
         rtodo' = <<"rst">> => rs' = x /\ x \notin live,
         UNCHANGED <<st, live, maxClient, cancelled, acceptCh, log, taken, wire, pending,
                     rblk, rev, rdead, undecoded, rapidResetCount, handlerVars, closed,
                     broken, histVars>>
  PROVE  LifecycleInv'
<1>0. /\ TypeOK /\ CallbackInv /\ PcInv /\ QuietInv /\ EofInv /\ QueueInv
      /\ ReleaseOwed /\ ReleasedCancelled /\ NoFrameAfterReset /\ EofIsLast
  BY DEF LifecycleInv
<1> USE <1>0
<1>1. /\ rtodo = <<>> /\ Range(rtodo) = {} /\ ~rdead
      /\ frames' \in 0..MaxFrames /\ frames' \in Nat /\ frames <= frames'
  BY ReceiveFacts
<1>2. /\ rtodo' \in Callbacks /\ Range(rtodo') \in {{}, {"countRapid"}, {"rst"}}
      /\ Has("rst")' => rtodo' = <<"rst">>
  BY RangeTuples DEF Callbacks, Has
<1>3. TypeOK'
  <2>1. rtodo' \in Seq(Phase) /\ x \in 0..N
    BY <1>2, CallbackType, SMTT(30) DEF Streams
  <2>2. rs' \in 0..N
    BY <2>1 DEF TypeOK
  <2> QED BY <1>1, <2>1, <2>2 DEF TypeOK, handlerVars, histVars
<1>4. CallbackInv'
  <2>1. undecoded = 0 /\ rapidResetCount <= Budget /\ pending.s \in opened \cup {0}
        /\ rs <= maxClient
    BY <1>1 DEF CallbackInv, Has
  <2>2. x \notin live => Shut(x)'
    BY <1>1 DEF QuietInv, Shut, histVars
  <2>3. /\ ~Has("emit")' /\ ~Has("discard")' /\ ~Has("refuse")' /\ ~Has("push")'
        /\ ~Has("release")' /\ ~Has("write431")' /\ ~Has("sent431")'
        /\ ~Has("overflow")'
    BY <1>2 DEF Has
  <2> QED BY <1>1, <1>2, <2>1, <2>2, <2>3 DEF CallbackInv, histVars
<1>5. ReleaseOwed' /\ ReleasedCancelled'
  BY <1>1, NothingOwed DEF histVars
<1> QED BY <1>1, <1>3, <1>4, <1>5, StreamsElsewhere DEF LifecycleInv

LEMMA OnDataKeeps ==
  ASSUME LifecycleInv, NEW x \in Streams, NEW end \in BOOLEAN, OnData(x, end)
  PROVE  LifecycleInv'
<1>1. /\ Receive /\ x <= maxClient
      /\ UNCHANGED <<live, maxClient, cancelled, acceptCh, log, taken, wire, pending,
                     rblk, rdead, undecoded, rapidResetCount, handlerVars, closed,
                     broken, peerReset, opened>>
  BY SMTT(30) DEF OnData, idle, eventVars, connVars, LifecycleInv, TypeOK, Streams
<1>2. CASE x \notin live
  <2>1. UNCHANGED <<st, rs, rev, ndata, rtodo>> /\ rtodo = <<>>
    BY <1>2 DEF OnData, Receive, ReaderIdle
  <2> QED BY <1>1, <1>2, <2>1, ReaderPasses DEF histVars
<1>3. CASE x \in live /\ "RecvEnded" \in st[x]
  <2>1. rs' = x /\ advance(x, {"Reset"}) /\ rtodo' = <<"rst">> /\ UNCHANGED <<rev, ndata>>
    BY <1>3 DEF OnData
  <2>2. {"Reset"} \in SUBSET Bits /\ "Reset" \in {"Reset"}
    BY DEF Bits
  <2> QED BY <1>1, <1>3, <2>1, <2>2, ReaderResets
<1>4. CASE x \in live /\ "RecvEnded" \notin st[x]
  BY <1>4, OnDataDelivers
<1> QED BY <1>2, <1>3, <1>4

LEMMA OnRSTStreamKeeps ==
  ASSUME LifecycleInv, NEW x \in Streams, OnRSTStream(x)
  PROVE  LifecycleInv'
<1>1. /\ Receive /\ x <= maxClient /\ rs' = x
      /\ UNCHANGED <<live, maxClient, cancelled, acceptCh, log, taken, wire, pending,
                     rblk, rdead, undecoded, rapidResetCount, handlerVars, closed,
                     broken, ndata, opened>>
  BY SMTT(30) DEF OnRSTStream, idle, eventVars, connVars, LifecycleInv, TypeOK, Streams
<1>2. CASE x \notin live
  <2>1. UNCHANGED <<st, rev, peerReset>> /\ rtodo' = <<"countRapid">>
    BY <1>2 DEF OnRSTStream
  <2> QED BY <1>1, <1>2, <2>1, ReaderPasses DEF histVars
<1>3. CASE x \in live
  <2> DEFINE bits == {"RecvEnded", "Reset"}
  <2>1. /\ advance(x, bits) /\ rev' = ResetEvent /\ peerReset' = peerReset \cup {x}
        /\ rtodo' = <<"push", "release">> \o (IF "RecvEnded" \in st[x] THEN <<>>
                                               ELSE <<"countRapid">>)
    BY <1>3 DEF OnRSTStream
  <2>2. bits \in SUBSET Bits /\ "Reset" \in bits
    BY DEF Bits
  <2>3. rtodo' \in {<<"push", "release">>, <<"push", "release", "countRapid">>}
    <3>1. <<"push", "release">> \o <<>> = <<"push", "release">>
      BY SMTT(30)
    <3>2. <<"push", "release">> \o <<"countRapid">> = <<"push", "release", "countRapid">>
      BY ConcatTuples
    <3> QED BY <2>1, <3>1, <3>2
  <2> HIDE DEF bits
  <2> QED BY <1>1, <1>3, <2>1, <2>2, <2>3, ReaderResets
<1> QED BY <1>2, <1>3

LEMMA WindowOverflowKeeps ==
  ASSUME LifecycleInv, NEW x \in Streams, WindowOverflow(x)
  PROVE  LifecycleInv'
<1> DEFINE bits == {"Reset"}
<1>1. /\ Receive /\ rs' = x /\ x \in live /\ advance(x, bits) /\ rev' = ResetEvent
      /\ rtodo' = <<"push", "rst">>
      /\ UNCHANGED <<live, maxClient, cancelled, acceptCh, log, taken, wire, pending,
                     rblk, rdead, undecoded, rapidResetCount, handlerVars, closed,
                     broken, ndata, opened, peerReset>>
  BY DEF WindowOverflow, eventVars, connVars, histVars
<1>2. bits \in SUBSET Bits /\ "Reset" \in bits
  BY DEF Bits
<1> HIDE DEF bits
<1> QED BY <1>1, <1>2, ReaderResets

LEMMA writeRSTStreamIDKeeps ==
  ASSUME LifecycleInv, NEW x \in Streams, writeRSTStreamID(x)
  PROVE  LifecycleInv'
<1>1. /\ Receive /\ x <= maxClient /\ rs' = x /\ rtodo' = <<"rst">>
      /\ advance(x, IF x \in live THEN {"Reset"} ELSE {})
      /\ UNCHANGED <<live, maxClient, cancelled, acceptCh, log, taken, wire, pending,
                     rblk, rev, rdead, undecoded, rapidResetCount, handlerVars, closed,
                     broken, ndata, opened, peerReset>>
  BY SMTT(30) DEF writeRSTStreamID, idle, eventVars, connVars, histVars, LifecycleInv, TypeOK,
         Streams
<1>2. CASE x \notin live
  <2>1. st' = st
    BY <1>1, <1>2, SMTT(30) DEF advance, LifecycleInv, TypeOK
  <2> QED BY <1>1, <1>2, <2>1, ReaderPasses DEF histVars
<1>3. CASE x \in live
  <2> DEFINE bits == {"Reset"}
  <2>1. advance(x, bits) /\ bits \in SUBSET Bits /\ "Reset" \in bits
    BY <1>1, <1>3 DEF Bits
  <2> HIDE DEF bits
  <2> QED BY <1>1, <1>3, <2>1, ReaderResets
<1> QED BY <1>2, <1>3

\* A callback goes through its phases in order and comes to each once.
LEMMA PopPhase ==
  ASSUME rtodo \in Callbacks, rtodo # <<>>
  PROVE  /\ Tail(rtodo) \in Callbacks
         /\ Range(rtodo) = {Head(rtodo)} \cup Range(Tail(rtodo))
         /\ Head(rtodo) \notin Range(Tail(rtodo))
         /\ "push" \notin Range(Tail(rtodo)) /\ "overflow" \notin Range(Tail(rtodo))
         /\ "emit" \notin Range(Tail(rtodo)) /\ "refuse" \notin Range(Tail(rtodo))
<1> DEFINE Popped == /\ Tail(rtodo) \in Callbacks
                     /\ Range(rtodo) = {Head(rtodo)} \cup Range(Tail(rtodo))
                     /\ Head(rtodo) \notin Range(Tail(rtodo))
                     /\ Range(Tail(rtodo)) \cap {"push", "overflow", "emit", "refuse"}
                          = {}
<1>1. CASE rtodo \in {<<"die">>, <<"shutdown">>, <<"emit">>, <<"discard">>,
                      <<"refuse">>, <<"rst">>, <<"push">>, <<"overflow">>,
                      <<"release">>, <<"countRapid">>}
  <2>1. PICK a : rtodo = <<a>>
    BY <1>1
  <2>2. Tail(rtodo) = <<>> /\ Range(<<>>) = {} /\ Range(rtodo) = {a} /\ Head(rtodo) = a
    BY <2>1, TailTuples, RangeTuples
  <2>3. <<>> \in Callbacks
    BY DEF Callbacks
  <2> QED BY <2>2, <2>3
<1>2. CASE rtodo \in {<<"refuse", "discard">>, <<"release", "die">>,
                      <<"write431", "release">>, <<"sent431", "release">>,
                      <<"push", "rst">>, <<"overflow", "rst">>,
                      <<"push", "release">>, <<"overflow", "release">>,
                      <<"release", "countRapid">>}
  <2>1. PICK a, b : /\ rtodo = <<a, b>> /\ a # b
                    /\ b \in {"discard", "die", "release", "rst", "countRapid"}
    BY <1>2
  <2>2. Head(rtodo) = a /\ Tail(rtodo) = <<b>> /\ Range(rtodo) = {a, b} /\ Range(<<b>>) = {b}
    BY <2>1, TailTuples, RangeTuples
  <2>3. <<b>> \in Callbacks
    BY <2>1 DEF Callbacks
  <2> QED BY <2>1, <2>2, <2>3, SMTT(30)
<1>3. CASE rtodo \in {<<"write431", "release", "die">>, <<"sent431", "release", "die">>,
                      <<"push", "release", "countRapid">>,
                      <<"overflow", "release", "countRapid">>}
  <2>1. PICK a, b : /\ rtodo = <<a, "release", b>> /\ a # "release" /\ a # b
                    /\ b \in {"die", "countRapid"}
    BY <1>3
  <2>2. /\ Head(rtodo) = a /\ Tail(rtodo) = <<"release", b>>
        /\ Range(rtodo) = {a, "release", b} /\ Range(<<"release", b>>) = {"release", b}
    BY <2>1, TailTuples, RangeTuples, SMTT(30)
  <2>3. <<"release", b>> \in Callbacks
    BY <2>1 DEF Callbacks
  <2> QED BY <2>1, <2>2, <2>3, SMTT(30)
<1>4. CASE rtodo = <<"refuse", "write431", "release", "die">>
  <2>1. /\ Head(rtodo) = "refuse" /\ Tail(rtodo) = <<"write431", "release", "die">>
        /\ Range(rtodo) = {"refuse", "write431", "release", "die"}
        /\ Range(<<"write431", "release", "die">>) = {"write431", "release", "die"}
    BY <1>4, TailTuples, RangeTuples, SMTT(30)
  <2>2. <<"write431", "release", "die">> \in Callbacks
    BY DEF Callbacks
  <2>3. Range(Tail(rtodo)) = {"write431", "release", "die"}
    BY <2>1
  <2>4. Range(rtodo) = {Head(rtodo)} \cup Range(Tail(rtodo))
    BY <2>1, <2>3
  <2> QED BY <2>1, <2>2, <2>3, <2>4
<1>5. Popped
  BY <1>1, <1>2, <1>3, <1>4 DEF Callbacks
<1> QED BY <1>5

\* What the rest of the callback relies on is still there after a phase of it.
LEMMA TailKeepsCallback ==
  ASSUME TypeOK, CallbackInv, rtodo # <<>>, rtodo' = Tail(rtodo),
         Head(rtodo) \notin {"emit", "discard", "die", "shutdown"},
         UNCHANGED <<pending, rs, rev, rdead, undecoded, rapidResetCount, opened,
                     maxClient>>,
         live' \subseteq live, \A s \in Streams : st[s] \subseteq st'[s],
         closed => closed', broken => broken',
         Head(rtodo) \in {"write431", "sent431"} => Shut(rs)'
  PROVE  CallbackInv'
<1>1. /\ rtodo' \in Callbacks /\ ~Has("push")' /\ ~Has("overflow")' /\ ~Has("emit")'
      /\ ~Has("refuse")'
      /\ \A p : Has(p)' => Has(p)
      /\ \A p : Has(p) => Has(p)' \/ p = Head(rtodo)
  BY PopPhase DEF CallbackInv, Has
<1>2. Shut(rs) /\ rs \in Streams => Shut(rs)'
  BY ShutLasts DEF Shut
<1>3. rs \in opened => rs \in Streams
  BY StreamsKnown
<1>4. ~rdead
  BY DEF CallbackInv
<1>5. (Has("release")' \/ Has("rst")') /\ ~Has("write431")' /\ ~Has("sent431")'
        => Shut(rs)'
  BY <1>1, <1>2, <1>3 DEF CallbackInv
<1>6. undecoded' = IF Has("emit")' \/ Has("discard")' THEN 1 ELSE 0
  BY <1>1 DEF CallbackInv
<1>7. rapidResetCount' <= Budget \/ Has("die")' \/ Has("shutdown")'
  BY <1>1, <1>4 DEF CallbackInv
<1>8. Has("write431")' \/ Has("sent431")' \/ Has("release")' => rs' \in opened'
  BY <1>1 DEF CallbackInv
<1> QED BY <1>1, <1>4, <1>5, <1>6, <1>7, <1>8 DEF CallbackInv

\* Owed survives a phase that is not the release itself.
LEMMA TailKeepsOwed ==
  ASSUME CallbackInv, rtodo # <<>>, rtodo' = Tail(rtodo), NEW s, Owed(s),
         UNCHANGED <<rs, hpc>>, gpc[s] = "rst" => gpc'[s] = "rst",
         Head(rtodo) \notin {"die", "shutdown"},
         Head(rtodo) \in {"release", "rst", "refuse"} => s # rs
  PROVE  Owed(s)'
<1>1. \A p : Has(p) => Has(p)' \/ p = Head(rtodo)
  BY PopPhase DEF CallbackInv, Has
<1> QED BY <1>1 DEF Owed

\* An event put on a stream's channel.
LEMMA LogAppend ==
  ASSUME TypeOK, EofIsLast, NEW x \in Streams, NEW e \in Event, EventRoom(x),
         log' = [log EXCEPT ![x] = Append(@, e)], UNCHANGED taken,
         EofLogged(x) => e.type = "reset"
  PROVE  /\ log' \in [Streams -> Seq(Event)]
         /\ \A s \in Streams : Len(log'[s]) - taken'[s] \in 0..EventBuf
         /\ TypeOK' => EofIsLast'
         /\ \A s \in Streams : EofLogged(s)' => EofLogged(s) \/ (s = x /\ Eof(e))
<1>1. /\ log \in [Streams -> Seq(Event)] /\ taken \in [Streams -> Nat]
      /\ \A s \in Streams : Len(log[s]) - taken[s] \in 0..EventBuf
  BY DEF TypeOK
<1>2. /\ log' \in [Streams -> Seq(Event)]
      /\ log'[x] = Append(log[x], e)
      /\ \A s \in Streams : s # x => log'[s] = log[s]
  BY <1>1, AppendElements
<1>3. /\ DOMAIN log'[x] = DOMAIN log[x] \cup {Len(log[x]) + 1}
      /\ \A i \in DOMAIN log[x] : log'[x][i] = log[x][i] /\ i < Len(log[x]) + 1
      /\ log'[x][Len(log[x]) + 1] = e
      /\ Len(log'[x]) = Len(log[x]) + 1
  <2>1. log[x] \in Seq(Event)
    BY <1>1
  <2>2. Extends(log'[x], log[x], e)
    BY <1>2, <2>1, Appended
  <2> QED BY <2>2 DEF Extends
<1>4. \A s \in Streams : Len(log'[s]) - taken'[s] \in 0..EventBuf
  <2>1. Len(log[x]) \in Nat /\ taken[x] \in Nat
    BY <1>1, LenNat
  <2> QED BY <1>1, <1>2, <1>3, <2>1, ConstantsAssumption, SMTT(30) DEF EventRoom
<1>5. \A s \in Streams : EofLogged(s)' => EofLogged(s) \/ (s = x /\ Eof(e))
  BY <1>2, <1>3, SMTT(30) DEF EofLogged, Eof
<1>6. ASSUME NEW s \in Streams, NEW i \in DOMAIN log'[s], NEW j \in DOMAIN log'[s],
             i < j, Eof(log'[s][i])
      PROVE  log'[s][j].type = "reset"
  <2>1. CASE s # x
    BY <1>2, <1>6, <2>1 DEF EofIsLast, Eof
  <2>2. CASE s = x
    <3>1. i \in DOMAIN log[x] /\ Eof(log[x][i])
      BY <1>1, <1>3, <1>6, <2>2, SMTT(30)
    <3>2. EofLogged(x)
      BY <3>1 DEF EofLogged
    <3>3. CASE j \in DOMAIN log[x]
      <4>1. log[x][j].type = "reset"
        BY <1>6, <3>1, <3>3 DEF EofIsLast, Eof
      <4>2. log'[x][j] = log[x][j]
        BY <1>3, <3>3
      <4> QED BY <2>2, <4>1, <4>2
    <3>4. CASE j = Len(log[x]) + 1
      BY <1>3, <2>2, <3>2, <3>4
    <3> QED BY <1>3, <1>6, <2>2, <3>3, <3>4
  <2> QED BY <2>1, <2>2
<1>7. TypeOK' => EofIsLast'
  BY <1>6 DEF EofIsLast, Eof
<1> QED BY <1>2, <1>4, <1>5, <1>7

LEMMA discardHeaderBlockKeeps ==
  ASSUME LifecycleInv, discardHeaderBlock
  PROVE  LifecycleInv'
<1>0. /\ TypeOK /\ CallbackInv /\ PcInv /\ QuietInv /\ EofInv /\ QueueInv
      /\ ReleaseOwed /\ ReleasedCancelled /\ NoFrameAfterReset /\ EofIsLast
  BY DEF LifecycleInv
<1> USE <1>0
<1>1. /\ UNCHANGED <<st, live, maxClient, cancelled, acceptCh, log, taken, wire, rs,
                     rblk, rev, rdead, rapidResetCount, frames, handlerVars, closed,
                     broken, histVars>>
      /\ At("discard") /\ undecoded' = undecoded - 1 /\ pending' = NoBlock
      /\ rtodo' = IF rblk.kind = "undecodable" THEN <<"die">> ELSE Tail(rtodo)
  BY DEF discardHeaderBlock, streamVars, eventVars, connVars
<1>2. /\ rtodo = <<"discard">> /\ Range(rtodo) = {"discard"}
      /\ rtodo' \in {<<"die">>, <<>>} /\ Range(rtodo') \in {{"die"}, {}}
      /\ rtodo' \in Callbacks
  <2>1. rtodo = <<"discard">>
    BY <1>1, AtPhase DEF CallbackInv
  <2>2. rtodo' \in {<<"die">>, <<>>}
    BY <1>1, <2>1, TailTuples
  <2> QED BY <2>1, <2>2, RangeTuples DEF Callbacks
<1>3. undecoded = 1 /\ ~rdead /\ rapidResetCount <= Budget /\ rs <= maxClient
  BY <1>2 DEF CallbackInv, Has
<1>4. /\ pending' \in [s : 0..N, end : BOOLEAN, trailer : BOOLEAN, discard : BOOLEAN]
      /\ pending'.s = 0
  BY <1>1, ConstantsAssumption, SMTT(30) DEF NoBlock
<1>5. TypeOK'
  <2>1. rtodo' \in Seq(Phase) /\ undecoded' \in 0..1
    BY <1>1, <1>2, <1>3, CallbackType, SMTT(30)
  <2> QED BY <1>1, <1>4, <2>1 DEF TypeOK, handlerVars, histVars
<1>6. CallbackInv'
  <2>1. \A p : Has(p)' => p = "die"
    BY <1>2 DEF Has
  <2>2. undecoded' = 0
    BY <1>1, <1>3, SMTT(30)
  <2> QED BY <1>1, <1>2, <1>3, <1>4, <2>1, <2>2 DEF CallbackInv, histVars
<1>7. ReleaseOwed' /\ ReleasedCancelled'
  BY <1>1, <1>2, NothingOwed DEF histVars
<1>8. frames' \in Nat /\ frames <= frames'
  BY <1>1, SMTT(30) DEF TypeOK
<1> QED BY <1>1, <1>5, <1>6, <1>7, <1>8, StreamsElsewhere DEF LifecycleInv

LEMMA onClientRSTStreamKeeps ==
  ASSUME LifecycleInv, onClientRSTStream
  PROVE  LifecycleInv'
<1>0. /\ TypeOK /\ CallbackInv /\ PcInv /\ QuietInv /\ EofInv /\ QueueInv
      /\ ReleaseOwed /\ ReleasedCancelled /\ NoFrameAfterReset /\ EofIsLast
  BY DEF LifecycleInv
<1> USE <1>0
<1>1. /\ UNCHANGED <<st, live, maxClient, cancelled, acceptCh, log, taken, wire, pending,
                     rs, rblk, rev, rdead, undecoded, frames, handlerVars, closed,
                     broken, histVars>>
      /\ At("countRapid")
  BY DEF onClientRSTStream, streamVars, eventVars, connVars
<1>2. rtodo = <<"countRapid">> /\ Range(rtodo) = {"countRapid"} /\ Tail(rtodo) = <<>>
  BY <1>1, AtPhase, RangeTuples, TailTuples DEF CallbackInv
<1>3. /\ undecoded = 0 /\ ~rdead /\ rapidResetCount <= Budget /\ rs <= maxClient
      /\ pending.s \in opened \cup {0}
  BY <1>2 DEF CallbackInv, Has
<1>4. /\ rapidResetCount' \in 0..Budget + 1
      /\ rtodo' \in {<<"die">>, <<>>}
      /\ rtodo' = <<>> => rapidResetCount' <= Budget
  <2>1. rapidResetCount \in 0..Budget + 1
    BY DEF TypeOK
  <2> QED BY <1>2, <1>3, <2>1, ConstantsAssumption, SMTT(30) DEF onClientRSTStream
<1>5. /\ Range(rtodo') \in {{"die"}, {}} /\ rtodo' \in Callbacks
      /\ rtodo' = <<"die">> => Has("die")'
  BY <1>4, RangeTuples DEF Callbacks, Has
<1>6. TypeOK'
  <2>1. rtodo' \in Seq(Phase)
    BY <1>5, CallbackType
  <2> QED BY <1>1, <1>4, <2>1 DEF TypeOK, handlerVars, histVars
<1>7. CallbackInv'
  BY <1>1, <1>3, <1>4, <1>5 DEF CallbackInv, Has, histVars
<1>8. ReleaseOwed' /\ ReleasedCancelled'
  BY <1>1, <1>2, NothingOwed DEF histVars
<1>9. frames' \in Nat /\ frames <= frames'
  BY <1>1, SMTT(30) DEF TypeOK
<1> QED BY <1>1, <1>6, <1>7, <1>8, <1>9, StreamsElsewhere DEF LifecycleInv

LEMMA DieKeeps ==
  ASSUME LifecycleInv, Die
  PROVE  LifecycleInv'
<1>0. /\ TypeOK /\ CallbackInv /\ PcInv /\ QuietInv /\ EofInv /\ QueueInv
      /\ ReleaseOwed /\ ReleasedCancelled /\ NoFrameAfterReset /\ EofIsLast
  BY DEF LifecycleInv
<1> USE <1>0
<1>1. /\ UNCHANGED <<st, live, maxClient, cancelled, acceptCh, log, taken, wire, pending,
                     rs, rblk, rev, rdead, undecoded, rapidResetCount, frames,
                     handlerVars, closed, histVars>>
      /\ At("die") /\ broken' = TRUE /\ rtodo' = <<"shutdown">>
  BY DEF Die, streamVars, eventVars
<1>2. /\ rtodo = <<"die">> /\ Range(rtodo) = {"die"} /\ Range(rtodo') = {"shutdown"}
      /\ rtodo' \in Callbacks
  BY <1>1, AtPhase, RangeTuples DEF CallbackInv, Callbacks
<1>3. undecoded = 0 /\ ~rdead /\ rs <= maxClient /\ pending.s \in opened \cup {0}
  BY <1>2 DEF CallbackInv, Has
<1>4. TypeOK'
  <2>1. rtodo' \in Seq(Phase)
    BY <1>2, CallbackType
  <2> QED BY <1>1, <2>1 DEF TypeOK, handlerVars, histVars
<1>5. CallbackInv'
  BY <1>1, <1>2, <1>3 DEF CallbackInv, Has, histVars
<1>6. ReleaseOwed'
  BY <1>2, OwedRelease DEF Owed, Has
<1>7. ReleasedCancelled'
  BY <1>1, <1>2 DEF ReleasedCancelled, histVars
<1>8. frames' \in Nat /\ frames <= frames'
  BY <1>1, SMTT(30) DEF TypeOK
<1> QED BY <1>1, <1>4, <1>5, <1>6, <1>7, <1>8, StreamsElsewhere DEF LifecycleInv

\* shutdownStreams: every stream leaves the table, with a reset at the end of its
\* channel if there is room.
LEMMA shutdownStreamsKeeps ==
  ASSUME LifecycleInv, shutdownStreams
  PROVE  LifecycleInv'
<1>0. /\ TypeOK /\ CallbackInv /\ PcInv /\ QuietInv /\ EofInv /\ QueueInv
      /\ ReleaseOwed /\ ReleasedCancelled /\ NoFrameAfterReset /\ EofIsLast
  BY DEF LifecycleInv
<1> USE <1>0
<1>1. /\ UNCHANGED <<st, maxClient, acceptCh, taken, wire, pending, rs, rblk, rev,
                     undecoded, rapidResetCount, frames, hpc, hend, sends, gpc, closed,
                     broken, ndata, peerReset, opened>>
      /\ At("shutdown") /\ live' = {} /\ cancelled' = cancelled \cup live
      /\ rtodo' = <<>> /\ rdead' = TRUE
      /\ log' = [s \in Streams |-> IF s \in live /\ EventRoom(s)
                                     THEN Append(log[s], ResetEvent) ELSE log[s]]
  BY DEF shutdownStreams, handlerVars, connVars, histVars
<1>2. /\ rtodo = <<"shutdown">> /\ Range(rtodo) = {"shutdown"} /\ Range(rtodo') = {}
      /\ rtodo' \in Callbacks
  BY <1>1, AtPhase, RangeTuples DEF CallbackInv, Callbacks
<1>3. undecoded = 0 /\ ~rdead /\ rs <= maxClient /\ pending.s \in opened \cup {0}
  BY <1>2 DEF CallbackInv, Has
<1>4. ResetEvent \in Event /\ ResetEvent.type = "reset" /\ ~Eof(ResetEvent)
  BY DEF ResetEvent, Event, EventTypes, Eof
<1>5. /\ log \in [Streams -> Seq(Event)] /\ taken \in [Streams -> Nat]
      /\ \A s \in Streams : Len(log[s]) - taken[s] \in 0..EventBuf
  BY DEF TypeOK
<1>6. ASSUME NEW s \in Streams, log'[s] # log[s]
      PROVE  /\ log'[s] \in Seq(Event)
             /\ DOMAIN log'[s] = DOMAIN log[s] \cup {Len(log[s]) + 1}
             /\ \A i \in DOMAIN log[s] : log'[s][i] = log[s][i] /\ i < Len(log[s]) + 1
             /\ log'[s][Len(log[s]) + 1] = ResetEvent
             /\ Len(log'[s]) = Len(log[s]) + 1
             /\ EventRoom(s)
  <2>1. log[s] \in Seq(Event)
    BY <1>5
  <2>2. EventRoom(s) /\ log'[s] = Append(log[s], ResetEvent)
    BY <1>1, <1>5, <1>6
  <2>3. log'[s] \in Seq(Event) /\ Extends(log'[s], log[s], ResetEvent)
    BY <1>4, <2>1, <2>2, Appended
  <2> QED BY <2>2, <2>3 DEF Extends
<1>7. /\ log' \in [Streams -> Seq(Event)]
      /\ \A s \in Streams : Len(log'[s]) - taken'[s] \in 0..EventBuf
  <2>1. log' \in [Streams -> Seq(Event)]
    BY <1>1, <1>4, <1>5, AppendElements
  <2>2. ASSUME NEW s \in Streams PROVE Len(log'[s]) - taken'[s] \in 0..EventBuf
    <3>1. Len(log[s]) \in Nat /\ taken[s] \in Nat
      BY <1>5, SMTT(30)
    <3> QED BY <1>1, <1>5, <1>6, <3>1, ConstantsAssumption, SMTT(30) DEF EventRoom
  <2> QED BY <2>1, <2>2
<1>8. TypeOK'
  <2>1. rtodo' \in Seq(Phase) /\ live' \subseteq opened'
    BY <1>1, <1>2, CallbackType
  <2>2. cancelled' \subseteq Streams
    BY <1>1, StreamsKnown DEF TypeOK
  <2> QED BY <1>1, <1>7, <2>1, <2>2 DEF TypeOK
<1>9. CallbackInv'
  BY <1>1, <1>2, <1>3 DEF CallbackInv, Has
<1>10. PcInv' /\ QueueInv' /\ NoFrameAfterReset'
  <2>1. PcInv'
    BY <1>1 DEF PcInv
  <2> QED BY <1>1, <2>1, SameQueue, SameWire
<1>11. QuietInv'
  BY <1>1 DEF QuietInv, Shut
<1>12. EofInv'
  <2>1. \A s \in Streams : EofLogged(s)' => EofLogged(s)
    BY <1>4, <1>6 DEF EofLogged
  <2> QED BY <1>1, <2>1 DEF EofInv
<1>13. ReleaseOwed' /\ ReleasedCancelled'
  BY <1>1, <1>2 DEF ReleaseOwed, ReleasedCancelled
<1>14. EofIsLast'
  <2> SUFFICES ASSUME NEW s \in Streams, NEW i \in DOMAIN log'[s],
                      NEW j \in DOMAIN log'[s], i < j, Eof(log'[s][i])
               PROVE  log'[s][j].type = "reset"
    BY <1>8 DEF EofIsLast, Eof
  <2>1. CASE log'[s] = log[s]
    BY <2>1 DEF EofIsLast, Eof
  <2>2. CASE log'[s] # log[s]
    <3>1. i \in DOMAIN log[s] /\ Eof(log[s][i])
      BY <1>4, <1>6, <2>2
    <3> QED BY <1>4, <1>6, <2>2, <3>1, SMTT(30) DEF EofIsLast, Eof
  <2> QED BY <2>1, <2>2
<1> QED
  BY <1>8, <1>9, <1>10, <1>11, <1>12, <1>13, <1>14 DEF LifecycleInv

\* What every phase that ends by popping itself leaves alone.
LEMMA AtHead ==
  ASSUME LifecycleInv, NEW p, At(p)
  PROVE  /\ rtodo # <<>> /\ Head(rtodo) = p /\ Has(p) /\ ~rdead
         /\ Tail(rtodo) \in Seq(Phase) /\ Tail(rtodo) \in Callbacks
<1>1. rtodo # <<>> /\ Head(rtodo) = p /\ rtodo \in Callbacks
  BY DEF At, LifecycleInv, CallbackInv
<1> QED BY <1>1, PopPhase, CallbackType DEF Has, LifecycleInv, CallbackInv

\* A phase that writes RST_STREAM on its stream, which takes no more frames, and
\* releases it.
LEMMA ReaderWritesRST ==
  ASSUME LifecycleInv, At("refuse") \/ At("rst"), rtodo' = Tail(rtodo),
         wire' = IF closed \/ broken THEN wire
                 ELSE [wire EXCEPT ![rs] = Append(@, "RST")],
         live' = live \ {rs}, cancelled \subseteq cancelled',
         cancelled' \subseteq cancelled \cup {rs}, rs \in live => rs \in cancelled',
         At("refuse") => rs \in cancelled',
         UNCHANGED <<st, maxClient, acceptCh, log, taken, pending, rs, rblk, rev, rdead,
                     undecoded, rapidResetCount, frames, handlerVars, closed, broken,
                     histVars>>
  PROVE  LifecycleInv'
<1>0. /\ TypeOK /\ CallbackInv /\ PcInv /\ QuietInv /\ EofInv /\ QueueInv
      /\ ReleaseOwed /\ ReleasedCancelled /\ NoFrameAfterReset /\ EofIsLast
  BY DEF LifecycleInv
<1> USE <1>0
<1>1. UNCHANGED <<hpc, hend, sends, gpc, ndata, peerReset, opened>>
  BY DEF handlerVars, histVars
<1>2. /\ rtodo # <<>> /\ Head(rtodo) \in {"refuse", "rst"} /\ Has(Head(rtodo)) /\ ~rdead
      /\ rtodo' \in Seq(Phase) /\ (Head(rtodo) = "refuse" => rs \in cancelled')
  BY AtHead
<1>3. rs \in Streams /\ rs <= maxClient /\ Shut(rs)
  <2>1. CASE Head(rtodo) = "refuse"
    BY <1>2, <2>1, StreamsKnown DEF CallbackInv, Shut
  <2>2. CASE Head(rtodo) = "rst"
    <3>1. rtodo = <<"rst">> /\ Range(rtodo) = {"rst"}
      BY <1>2, <2>2, AtPhase, RangeTuples DEF At, CallbackInv
    <3> QED BY <3>1 DEF CallbackInv, Has
  <2> QED BY <1>2, <2>1, <2>2
<1>4. /\ wire' \in [Streams -> Seq(Frame)] /\ NoFrameAfterReset'
      /\ \A s \in Streams : "RST" \in Range(wire'[s]) => s = rs \/ "RST" \in Range(wire[s])
  BY <1>3, WireRST
<1>5. TypeOK'
  <2>1. cancelled \subseteq Streams /\ live \subseteq opened
    BY DEF TypeOK
  <2>2. cancelled' \subseteq Streams /\ live' \subseteq opened'
    BY <1>1, <1>3, <2>1
  <2> QED BY <1>1, <1>2, <1>4, <2>2 DEF TypeOK
<1>6. CallbackInv'
  BY <1>1, <1>2, TailKeepsCallback
<1>7. PcInv' /\ QueueInv'
  <2>1. PcInv'
    BY <1>1 DEF PcInv
  <2> QED BY <1>1, <2>1, SameQueue
<1>8. QuietInv'
  <2>1. Shut(rs)'
    BY <1>1, <1>3 DEF Shut
  <2>2. \A s \in Streams : "RST" \in Range(wire'[s]) =>
          "RST" \in Range(wire[s]) \/ (s <= maxClient' /\ Shut(s)')
    BY <1>3, <1>4, <2>1
  <2> QED BY <1>1, <2>1, <2>2, QuietKept
<1>9. EofInv' /\ EofIsLast'
  BY <1>1, <1>5, SameLog
<1>10. ReleaseOwed'
  <2>1. \A s \in live' : Owed(s) => Owed(s)'
    BY <1>1, <1>2, TailKeepsOwed
  <2> QED BY <2>1, OwedRelease
<1>11. ReleasedCancelled'
  <2>1. \A p : Has(p) => Has(p)' \/ p = Head(rtodo)
    BY <1>2, PopPhase DEF CallbackInv, Has
  <2> QED BY <1>1, <1>2, <2>1, SMTT(30) DEF ReleasedCancelled, Has
<1> QED
  BY <1>4, <1>5, <1>6, <1>7, <1>8, <1>9, <1>10, <1>11 DEF LifecycleInv

LEMMA RefuseKeeps ==
  ASSUME LifecycleInv, Refuse
  PROVE  LifecycleInv'
BY ReaderWritesRST DEF Refuse, eventVars, connVars

LEMMA ReaderRSTKeeps ==
  ASSUME LifecycleInv, ReaderRST
  PROVE  LifecycleInv'
<1>1. ~At("refuse")
  BY DEF ReaderRST, At
<1> QED BY <1>1, ReaderWritesRST DEF ReaderRST, writeRST, markStreamDone, eventVars, connVars

LEMMA ReaderReleaseKeeps ==
  ASSUME LifecycleInv, ReaderRelease
  PROVE  LifecycleInv'
<1>0. /\ TypeOK /\ CallbackInv /\ PcInv /\ QuietInv /\ EofInv /\ QueueInv
      /\ ReleaseOwed /\ ReleasedCancelled /\ NoFrameAfterReset /\ EofIsLast
  BY DEF LifecycleInv
<1> USE <1>0
<1>1. /\ UNCHANGED <<st, maxClient, acceptCh, log, taken, wire, pending, rs, rblk, rev,
                     rdead, undecoded, rapidResetCount, frames, hpc, hend, sends, gpc,
                     closed, broken, ndata, peerReset, opened>>
      /\ At("release") /\ markStreamDone(rs) /\ rtodo' = Tail(rtodo)
  BY DEF ReaderRelease, eventVars, handlerVars, connVars, histVars
<1>2. /\ rtodo # <<>> /\ Head(rtodo) = "release" /\ Has("release") /\ ~rdead
      /\ rtodo' \in Seq(Phase)
      /\ ~Has("write431") /\ ~Has("sent431") /\ ~Has("refuse")
  <2>1. rtodo \in {<<"release">>, <<"release", "die">>, <<"release", "countRapid">>}
    BY <1>1, AtPhase DEF CallbackInv
  <2>2. ~Has("write431") /\ ~Has("sent431") /\ ~Has("refuse")
    BY <2>1, RangeTuples, SMTT(30) DEF Has
  <2> QED BY <1>1, <2>2, AtHead
<1>3. rs \in Streams /\ Shut(rs)
  BY <1>2, StreamsKnown DEF CallbackInv
<1>4. ReleasedCancelled' /\ cancelled' \subseteq Streams /\ live' = live \ {rs}
  BY <1>1, <1>2, <1>3, DoneCancels DEF markStreamDone
<1>5. TypeOK'
  <2>1. live' \subseteq opened'
    BY <1>1, <1>4 DEF TypeOK
  <2> QED BY <1>1, <1>2, <1>4, <2>1 DEF TypeOK
<1>6. CallbackInv'
  BY <1>1, <1>2, <1>4, TailKeepsCallback
<1>7. PcInv' /\ QueueInv' /\ NoFrameAfterReset'
  <2>1. PcInv'
    BY <1>1 DEF PcInv
  <2> QED BY <1>1, <2>1, SameQueue, SameWire
<1>8. QuietInv'
  <2>1. Shut(rs)'
    BY <1>1, <1>3 DEF Shut
  <2> QED BY <1>1, <1>4, <2>1, QuietKept
<1>9. EofInv' /\ EofIsLast'
  BY <1>1, <1>5, SameLog
<1>10. ReleaseOwed'
  <2>1. \A s \in live' : Owed(s) => Owed(s)'
    BY <1>1, <1>2, <1>4, TailKeepsOwed
  <2> QED BY <1>1, <1>4, <2>1, OwedRelease
<1> QED
  BY <1>4, <1>5, <1>6, <1>7, <1>8, <1>9, <1>10 DEF LifecycleInv

\* A push that finds room, or drops its event.
LEMMA ReaderPushes ==
  ASSUME LifecycleInv, At("push") \/ At("overflow"), rtodo' = Tail(rtodo),
         NEW e \in Event,
         \/ UNCHANGED log
         \/ EventRoom(rs) /\ log' = [log EXCEPT ![rs] = Append(@, e)],
         e.type # "reset" => ~EofLogged(rs) /\ (e.end => "RecvEnded" \in st[rs]),
         UNCHANGED <<streamVars, taken, wire, pending, rs, rblk, rev, rdead, undecoded,
                     rapidResetCount, frames, handlerVars, connVars, histVars>>
  PROVE  LifecycleInv'
<1>0. /\ TypeOK /\ CallbackInv /\ PcInv /\ QuietInv /\ EofInv /\ QueueInv
      /\ ReleaseOwed /\ ReleasedCancelled /\ NoFrameAfterReset /\ EofIsLast
  BY DEF LifecycleInv
<1> USE <1>0
<1>1. UNCHANGED <<st, live, maxClient, cancelled, acceptCh, hpc, hend, sends, gpc, closed,
                  broken, ndata, peerReset, opened>>
  BY DEF streamVars, handlerVars, connVars, histVars
<1>2. /\ rtodo # <<>> /\ Head(rtodo) \in {"push", "overflow"} /\ Has(Head(rtodo)) /\ ~rdead
      /\ rtodo' \in Seq(Phase)
  BY AtHead
<1>3. rs \in Streams
  BY <1>2, StreamsKnown DEF CallbackInv
<1>4. /\ log' \in [Streams -> Seq(Event)]
      /\ \A s \in Streams : Len(log'[s]) - taken'[s] \in 0..EventBuf
      /\ TypeOK' => EofIsLast'
      /\ \A s \in Streams : EofLogged(s)' => EofLogged(s) \/ (s = rs /\ Eof(e))
  <2>1. CASE UNCHANGED log
    <3>1. TypeOK' => EofIsLast'
      BY <2>1 DEF EofIsLast
    <3>2. \A s \in Streams : EofLogged(s)' => EofLogged(s)
      BY <2>1 DEF EofLogged, Eof
    <3> QED BY <2>1, <3>1, <3>2 DEF TypeOK
  <2>2. CASE EventRoom(rs) /\ log' = [log EXCEPT ![rs] = Append(@, e)]
    BY <1>3, <2>2, LogAppend
  <2> QED BY <2>1, <2>2
<1>5. TypeOK' /\ EofIsLast'
  <2>1. TypeOK'
    BY <1>1, <1>2, <1>4 DEF TypeOK
  <2> QED BY <1>4, <2>1
<1>6. CallbackInv'
  BY <1>1, <1>2, TailKeepsCallback
<1>7. PcInv' /\ QueueInv' /\ NoFrameAfterReset'
  <2>1. PcInv'
    BY <1>1 DEF PcInv
  <2> QED BY <1>1, <2>1, SameQueue, SameWire
<1>8. QuietInv'
  BY <1>1 DEF QuietInv, Shut
<1>9. EofInv'
  BY <1>1, <1>4 DEF EofInv, Eof
<1>10. ReleaseOwed'
  <2>1. \A s \in live' : Owed(s) => Owed(s)'
    BY <1>1, <1>2, TailKeepsOwed
  <2> QED BY <1>1, <2>1, OwedRelease
<1>11. ReleasedCancelled'
  <2>1. \A p : Has(p) => Has(p)' \/ p = Head(rtodo)
    BY <1>2, PopPhase DEF CallbackInv, Has
  <2> QED BY <1>1, <1>2, <2>1 DEF ReleasedCancelled, Has
<1> QED
  BY <1>5, <1>6, <1>7, <1>8, <1>9, <1>10, <1>11 DEF LifecycleInv

LEMMA PushResetKeeps ==
  ASSUME LifecycleInv, PushReset
  PROVE  LifecycleInv'
<1>1. ResetEvent \in Event /\ ResetEvent.type = "reset"
  BY DEF ResetEvent, Event, EventTypes
<1> QED BY <1>1, ReaderPushes DEF PushReset

\* The push that finds the channel full: the stream is reset, the goroutine that
\* writes RST_STREAM owes the release.
LEMMA PushOverflows ==
  ASSUME LifecycleInv, push, ~EventRoom(rs), "Reset" \notin st[rs]
  PROVE  LifecycleInv'
<1>0. /\ TypeOK /\ CallbackInv /\ PcInv /\ QuietInv /\ EofInv /\ QueueInv
      /\ ReleaseOwed /\ ReleasedCancelled /\ NoFrameAfterReset /\ EofIsLast
  BY DEF LifecycleInv
<1> USE <1>0
<1>1. /\ UNCHANGED <<live, maxClient, cancelled, acceptCh, log, taken, wire, pending, rs,
                     rblk, rev, rdead, undecoded, rapidResetCount, frames, hpc, hend,
                     sends, closed, broken, ndata, peerReset, opened>>
      /\ At("push") /\ advance(rs, {"Reset"}) /\ gpc' = [gpc EXCEPT ![rs] = "rst"]
      /\ rtodo' = <<"overflow">> \o Tail(rtodo)
  BY DEF push, connVars, histVars
<1>2. /\ Has("push") /\ ~rdead
      /\ rtodo' \in {<<"overflow">>, <<"overflow", "rst">>, <<"overflow", "release">>,
                     <<"overflow", "release", "countRapid">>}
      /\ \A p : Has(p)' <=> (Has(p) /\ p # "push") \/ p = "overflow"
  <2>1. Has("push") /\ ~rdead
    BY <1>1, AtHead
  <2>2. /\ rtodo \in {<<"push">>, <<"push", "rst">>, <<"push", "release">>,
                      <<"push", "release", "countRapid">>}
    BY <1>1, AtPhase DEF CallbackInv
  <2>3. CASE rtodo = <<"push">>
    <3>1. Tail(rtodo) = <<>>
      BY <2>3, TailTuples
    <3>2. rtodo' = <<"overflow">>
      BY <1>1, <3>1, ConcatTuples
    <3> QED BY <2>1, <2>3, <3>2, RangeTuples, SMTT(30) DEF Has
  <2>4. CASE rtodo = <<"push", "rst">>
    <3>1. Tail(rtodo) = <<"rst">>
      BY <2>4, TailTuples
    <3>2. rtodo' = <<"overflow", "rst">>
      BY <1>1, <3>1, ConcatTuples
    <3> QED BY <2>1, <2>4, <3>2, RangeTuples, SMTT(30) DEF Has
  <2>5. CASE rtodo = <<"push", "release">>
    <3>1. Tail(rtodo) = <<"release">>
      BY <2>5, TailTuples
    <3>2. rtodo' = <<"overflow", "release">>
      BY <1>1, <3>1, ConcatTuples
    <3> QED BY <2>1, <2>5, <3>2, RangeTuples, SMTT(30) DEF Has
  <2>6. CASE rtodo = <<"push", "release", "countRapid">>
    <3>1. Tail(rtodo) = <<"release", "countRapid">>
      BY <2>6, TailTuples
    <3>2. <<"overflow">> \o <<"release", "countRapid">> = <<"overflow", "release", "countRapid">>
      BY ConcatTuples
    <3>3. rtodo' = <<"overflow", "release", "countRapid">>
      BY <1>1, <3>1, <3>2
    <3> QED BY <2>1, <2>6, <3>3, RangeTuples, SMTT(30) DEF Has
  <2> QED BY <2>2, <2>3, <2>4, <2>5, <2>6
<1>3. rs \in Streams /\ rs \in opened
  BY <1>2, StreamsKnown DEF CallbackInv
<1>4. /\ st' \in [Streams -> SUBSET Bits]
      /\ st'[rs] = st[rs] \cup {"Reset"}
      /\ \A s \in Streams : s # rs => st'[s] = st[s]
      /\ \A s \in Streams : st[s] \subseteq st'[s]
  BY <1>1, <1>3, Advanced DEF Bits
<1>5. /\ gpc' \in [Streams -> {"none", "rst", "done"}] /\ gpc'[rs] = "rst"
      /\ \A s \in Streams : s # rs => gpc'[s] = gpc[s]
  BY <1>1, <1>3 DEF TypeOK
<1>6. TypeOK'
  <2>1. rtodo' \in Seq(Phase)
    BY <1>2, CallbackType DEF Callbacks
  <2> QED BY <1>1, <1>4, <1>5, <2>1, ZenonT(30) DEF TypeOK
<1>7. CallbackInv'
  <2>1. rtodo' \in Callbacks
    BY <1>2 DEF Callbacks
  <2>2. ~Writable(st'[rs])
    BY <1>4, StateWord
  <2>3. ~Has("push")' /\ ~Has("emit") /\ ~Has("discard") /\ ~Has("emit")'
        /\ ~Has("discard")' /\ ~Has("refuse")' /\ ~Has("write431")' /\ ~Has("sent431")'
    BY <1>2, RangeTuples, SMTT(30) DEF Has
  <2>4. (rapidResetCount <= Budget \/ Has("die") \/ Has("shutdown"))'
    BY <1>1, <1>2 DEF CallbackInv
  <2>5. undecoded' = 0
    BY <1>1, <2>3 DEF CallbackInv
  <2>6. Shut(rs)'
    BY <1>1, <2>2 DEF Shut
  <2>7. pending'.s \in opened' \cup {0} /\ rs' <= maxClient'
    BY <1>1 DEF CallbackInv
  <2> QED BY <1>1, <1>2, <1>3, <2>1, <2>3, <2>4, <2>5, <2>6, <2>7 DEF CallbackInv
<1>8. PcInv'
  <2>1. \A s \in Streams : ~Writable(st[s]) => ~Writable(st'[s])
    BY <1>4, StateWord
  <2> QED BY <1>1, <1>3, <1>4, <1>5, <2>1 DEF PcInv
<1>9. QuietInv'
  BY <1>1, <1>4, QuietKept
<1>10. EofInv' /\ NoFrameAfterReset' /\ QueueInv' /\ EofIsLast'
  BY <1>1, <1>4, <1>6, SameLog, SameWire, SameQueue
<1>11. ReleaseOwed'
  <2>1. \A s \in live : Owed(s) => Owed(s)'
    BY <1>1, <1>2, <1>5, StreamsKnown DEF Owed
  <2>2. Owed(rs)'
    BY <1>1, <1>5 DEF Owed
  <2> QED BY <1>1, <1>4, <2>1, <2>2, OwedRelease, StreamsKnown
<1>12. ReleasedCancelled'
  BY <1>1, <1>2 DEF ReleasedCancelled, Has
<1> QED
  BY <1>6, <1>7, <1>8, <1>9, <1>10, <1>11, <1>12 DEF LifecycleInv

LEMMA pushKeeps ==
  ASSUME LifecycleInv, push
  PROVE  LifecycleInv'
<1>1. CASE ~EventRoom(rs) /\ "Reset" \notin st[rs]
  BY <1>1, PushOverflows
<1>2. CASE EventRoom(rs) \/ "Reset" \in st[rs]
  <2>1. /\ rtodo' = Tail(rtodo) /\ UNCHANGED <<st, gpc>> /\ At("push")
        /\ UNCHANGED log \/ (EventRoom(rs) /\ log' = [log EXCEPT ![rs] = Append(@, rev)])
    BY <1>2 DEF push
  <2>2. Has("push")
    BY <2>1, AtHead
  <2>3. rev \in Event
        /\ (rev.type # "reset" => ~EofLogged(rs) /\ (rev.end => "RecvEnded" \in st[rs]))
    BY <2>2 DEF LifecycleInv, TypeOK, CallbackInv
  <2>4. UNCHANGED <<streamVars, handlerVars>>
    BY <2>1 DEF push, streamVars, handlerVars
  <2> QED BY <2>1, <2>3, <2>4, ReaderPushes DEF push
<1> QED BY <1>1, <1>2

LEMMA respondFieldsTooLargeKeeps ==
  ASSUME LifecycleInv, respondFieldsTooLarge
  PROVE  LifecycleInv'
<1> DEFINE fails == ~Writable(st[rs]) \/ closed \/ broken
<1>0. /\ TypeOK /\ CallbackInv /\ PcInv /\ QuietInv /\ EofInv /\ QueueInv
      /\ ReleaseOwed /\ ReleasedCancelled /\ NoFrameAfterReset /\ EofIsLast
  BY DEF LifecycleInv
<1> USE <1>0
<1>1. /\ UNCHANGED <<st, live, maxClient, cancelled, acceptCh, log, taken, pending, rs,
                     rblk, rev, rdead, undecoded, rapidResetCount, frames, hpc, hend,
                     sends, gpc, closed, broken, ndata, peerReset, opened>>
      /\ At("write431")
      /\ fails => rtodo' = Tail(rtodo) /\ UNCHANGED wire
      /\ ~fails => /\ rtodo' = <<"sent431">> \o Tail(rtodo)
                   /\ wire' = [wire EXCEPT ![rs] = Append(@, "431")]
  BY DEF respondFieldsTooLarge, streamVars, eventVars, handlerVars, connVars, histVars
<1>2. /\ rtodo # <<>> /\ Head(rtodo) = "write431" /\ Has("write431") /\ ~rdead
      /\ Tail(rtodo) \in Seq(Phase)
  BY <1>1, AtHead
<1>3. rs \in Streams /\ rs \in opened
  BY <1>2, StreamsKnown DEF CallbackInv
<1>4. /\ rtodo' \in Callbacks
      /\ \A p : Has(p)' <=> (Has(p) /\ p # "write431") \/ (~fails /\ p = "sent431")
      /\ ~Has("emit") /\ ~Has("discard") /\ ~Has("refuse") /\ ~Has("push") /\ ~Has("rst")
      /\ ~Has("sent431")
  <2>1. CASE rtodo = <<"write431", "release">>
    <3>1. Tail(rtodo) = <<"release">>
      BY <2>1, TailTuples
    <3>2. rtodo' = IF fails THEN <<"release">> ELSE <<"sent431", "release">>
      BY <1>1, <3>1, ConcatTuples
    <3> QED BY <2>1, <3>2, RangeTuples, SMTT(30) DEF Has, Callbacks
  <2>2. CASE rtodo = <<"write431", "release", "die">>
    <3>1. Tail(rtodo) = <<"release", "die">>
      BY <2>2, TailTuples
    <3>2. <<"sent431">> \o <<"release", "die">> = <<"sent431", "release", "die">>
      BY ConcatTuples
    <3>3. rtodo' = IF fails THEN <<"release", "die">> ELSE <<"sent431", "release", "die">>
      BY <1>1, <3>1, <3>2
    <3> QED BY <2>2, <3>3, RangeTuples, SMTT(30) DEF Has, Callbacks
  <2> QED BY <1>1, <2>1, <2>2, AtPhase DEF CallbackInv
<1>5. /\ wire' \in [Streams -> Seq(Frame)] /\ NoFrameAfterReset'
      /\ \A s \in Streams : "RST" \in Range(wire'[s]) => "RST" \in Range(wire[s])
  <2>1. CASE fails
    BY <1>1, <2>1, SMTT(30) DEF TypeOK, NoFrameAfterReset
  <2>2. CASE ~fails
    <3>1. "RST" \notin Range(wire[rs])
      BY <1>3, <2>2 DEF QuietInv, Shut
    <3>2. "431" \in Frame \ {"RST"}
      BY DEF Frame, Ends
    <3> QED BY <1>1, <1>3, <2>2, <3>1, <3>2, WireFrame
  <2> QED BY <2>1, <2>2
<1>6. fails => Shut(rs)'
  BY <1>1 DEF Shut
<1> HIDE DEF fails
<1>7. TypeOK'
  <2>1. rtodo' \in Seq(Phase)
    BY <1>4, CallbackType
  <2> QED BY <1>1, <1>5, <2>1 DEF TypeOK
<1>8. CallbackInv'
  <2>1. /\ ~Has("emit")' /\ ~Has("discard")' /\ ~Has("refuse")' /\ ~Has("push")'
        /\ ~Has("rst")' /\ ~Has("write431")' /\ (~Has("sent431")' => fails)
    BY <1>4, SMTT(30)
  <2>2. (rapidResetCount <= Budget \/ Has("die") \/ Has("shutdown"))'
    BY <1>1, <1>2, <1>4 DEF CallbackInv
  <2>3. undecoded' = 0 /\ pending'.s \in opened' \cup {0} /\ rs' <= maxClient'
    BY <1>1, <1>4 DEF CallbackInv
  <2> QED BY <1>1, <1>2, <1>3, <1>4, <1>6, <2>1, <2>2, <2>3 DEF CallbackInv
<1>9. PcInv' /\ QueueInv'
  <2>1. PcInv'
    BY <1>1 DEF PcInv
  <2> QED BY <1>1, <2>1, SameQueue
<1>10. QuietInv'
  BY <1>1, <1>5 DEF QuietInv, Shut
<1>11. EofInv' /\ EofIsLast'
  BY <1>1, <1>7, SameLog
<1>12. ReleaseOwed'
  <2>1. \A s \in live : Owed(s) => Owed(s)'
    BY <1>1, <1>4 DEF Owed
  <2> QED BY <1>1, <2>1, OwedRelease
<1>13. ReleasedCancelled'
  BY <1>1, <1>4 DEF ReleasedCancelled, Has
<1> QED
  BY <1>5, <1>7, <1>8, <1>9, <1>10, <1>11, <1>12, <1>13 DEF LifecycleInv

LEMMA ReaderSentKeeps ==
  ASSUME LifecycleInv, ReaderSent
  PROVE  LifecycleInv'
<1>0. /\ TypeOK /\ CallbackInv /\ PcInv /\ QuietInv /\ EofInv /\ QueueInv
      /\ ReleaseOwed /\ ReleasedCancelled /\ NoFrameAfterReset /\ EofIsLast
  BY DEF LifecycleInv
<1> USE <1>0
<1>1. /\ UNCHANGED <<live, maxClient, cancelled, acceptCh, log, taken, wire, pending, rs,
                     rblk, rev, rdead, undecoded, rapidResetCount, frames, hpc, hend,
                     sends, gpc, closed, broken, ndata, peerReset, opened>>
      /\ At("sent431") /\ rtodo' = Tail(rtodo)
      /\ advance(rs, {"SentFields", "SentEnded"})
  BY DEF ReaderSent, eventVars, handlerVars, connVars, histVars
<1>2. /\ rtodo # <<>> /\ Head(rtodo) = "sent431" /\ Has("sent431") /\ ~rdead
      /\ rtodo' \in Seq(Phase)
  BY <1>1, AtHead
<1>3. rs \in Streams /\ rs \in opened
  BY <1>2, StreamsKnown DEF CallbackInv
<1>4. /\ st' \in [Streams -> SUBSET Bits]
      /\ st'[rs] = st[rs] \cup {"SentFields", "SentEnded"}
      /\ \A s \in Streams : s # rs => st'[s] = st[s]
      /\ \A s \in Streams : st[s] \subseteq st'[s]
  BY <1>1, <1>3, Advanced DEF Bits
<1>5. Shut(rs)' /\ (\A s \in Streams : ~Writable(st[s]) => ~Writable(st'[s]))
  BY <1>1, <1>4, StateWord DEF Shut
<1>6. TypeOK'
  BY <1>1, <1>2, <1>4 DEF TypeOK
<1>7. CallbackInv'
  BY <1>1, <1>2, <1>4, <1>5, TailKeepsCallback
<1>8. PcInv'
  BY <1>1, <1>3, <1>4, <1>5 DEF PcInv
<1>9. QuietInv'
  BY <1>1, <1>4, QuietKept
<1>10. EofInv' /\ NoFrameAfterReset' /\ QueueInv' /\ EofIsLast'
  BY <1>1, <1>4, <1>6, SameLog, SameWire, SameQueue
<1>11. ReleaseOwed'
  <2>1. \A s \in live : Owed(s) => Owed(s)'
    BY <1>1, <1>2, TailKeepsOwed
  <2>2. Owed(rs)'
    <3>1. CASE rtodo = <<"sent431", "release">>
      <4>1. rtodo' = <<"release">>
        BY <1>1, <3>1, TailTuples
      <4>2. Range(rtodo') = {"release"}
        BY <4>1, RangeTuples
      <4> QED BY <1>1, <4>2 DEF Owed, Has
    <3>2. CASE rtodo = <<"sent431", "release", "die">>
      <4>1. rtodo' = <<"release", "die">>
        BY <1>1, <3>2, TailTuples
      <4>2. Range(rtodo') = {"release", "die"}
        BY <4>1, RangeTuples
      <4> QED BY <1>1, <4>2 DEF Owed, Has
    <3> QED BY <1>1, <3>1, <3>2, AtPhase DEF CallbackInv
  <2> QED BY <1>1, <1>4, <2>1, <2>2, OwedRelease, StreamsKnown
<1>12. ReleasedCancelled'
  <2>1. \A p : Has(p) => Has(p)' \/ p = Head(rtodo)
    BY <1>2, <1>1, PopPhase DEF CallbackInv, Has
  <2> QED BY <1>1, <1>2, <2>1 DEF ReleasedCancelled, Has
<1> QED
  BY <1>6, <1>7, <1>8, <1>9, <1>10, <1>11, <1>12 DEF LifecycleInv

\* emitHeaderBlock decodes the block: the connection dies, the answer is 431, the
\* stream is reset, or an event goes to its channel.
LEMMA emitHeaderBlockKeeps ==
  ASSUME LifecycleInv, emitHeaderBlock
  PROVE  LifecycleInv'
<1>0. /\ TypeOK /\ CallbackInv /\ PcInv /\ QuietInv /\ EofInv /\ QueueInv
      /\ ReleaseOwed /\ ReleasedCancelled /\ NoFrameAfterReset /\ EofIsLast
  BY DEF LifecycleInv
<1> USE <1>0
<1>1. /\ UNCHANGED <<live, maxClient, cancelled, acceptCh, log, taken, wire, rs, rblk,
                     rdead, rapidResetCount, frames, hpc, hend, sends, gpc, closed,
                     broken, ndata, peerReset, opened>>
      /\ At("emit") /\ undecoded' = undecoded - 1 /\ pending' = NoBlock
  BY DEF emitHeaderBlock, eventVars, handlerVars, connVars, histVars
<1>2. rtodo = <<"emit">> /\ Range(rtodo) = {"emit"} /\ ~rdead
  <2>1. rtodo = <<"emit">>
    BY <1>1, AtPhase DEF CallbackInv
  <2> QED BY <1>1, <2>1, RangeTuples, AtHead
<1>3. rs \in Streams /\ rs \in opened
  BY <1>2, StreamsKnown DEF CallbackInv, Has
<1>4. PICK bits \in SUBSET Bits :
        /\ advance(rs, bits)
        /\ \/ /\ rtodo' \in {<<"die">>, <<"write431", "release">>} /\ UNCHANGED rev
              /\ bits \subseteq {"RecvFields"}
           \/ rtodo' = <<"rst">> /\ UNCHANGED rev /\ "Reset" \in bits
           \/ /\ "RecvEnded" \notin st[rs] /\ bits \subseteq {"RecvFields", "RecvEnded"}
              /\ rev' \in Event /\ (rev'.end <=> "RecvEnded" \in bits)
              /\ rtodo' = IF "RecvEnded" \in bits /\ "SentEnded" \in st[rs]
                            THEN <<"push", "release">> ELSE <<"push">>
  <2> DEFINE fields == IF rblk.trailer THEN {} ELSE {"RecvFields"}
             bad    == rblk.kind = "malformed" \/ (rblk.trailer /\ ~rblk.end)
             ends   == IF rblk.end THEN {"RecvEnded"} ELSE {}
  <2>1. fields \in SUBSET Bits /\ fields \subseteq {"RecvFields"}
    BY DEF Bits
  <2>2. /\ rblk.end \in BOOLEAN /\ rblk.trailer \in BOOLEAN
    BY DEF TypeOK
  <2>4. CASE rblk.kind \in {"undecodable", "oversized"}
    <3>1. /\ advance(rs, fields) /\ UNCHANGED rev
          /\ rtodo' \in {<<"die">>, <<"write431", "release">>}
      BY <2>4 DEF emitHeaderBlock
    <3> HIDE DEF fields
    <3> QED BY <2>1, <3>1
  <2>5. CASE rblk.kind \notin {"undecodable", "oversized"} /\ ("RecvEnded" \in st[rs] \/ bad)
    <3>1. /\ advance(rs, fields \cup {"Reset"}) /\ UNCHANGED rev /\ rtodo' = <<"rst">>
      BY <2>5 DEF emitHeaderBlock
    <3>2. fields \cup {"Reset"} \in SUBSET Bits
      BY <2>1 DEF Bits
    <3> HIDE DEF fields
    <3> QED BY <3>1, <3>2
  <2>6. CASE rblk.kind \notin {"undecodable", "oversized"} /\ "RecvEnded" \notin st[rs] /\ ~bad
    <3>1. /\ advance(rs, fields \cup ends)
          /\ rev' = [type |-> IF rblk.trailer THEN "trailers" ELSE "headers",
                     n |-> 0, end |-> rblk.end]
          /\ rtodo' = IF rblk.end /\ "SentEnded" \in st[rs]
                        THEN <<"push", "release">> ELSE <<"push">>
      BY <2>6 DEF emitHeaderBlock
    <3>2. /\ fields \cup ends \in SUBSET Bits
          /\ fields \cup ends \subseteq {"RecvFields", "RecvEnded"}
          /\ rblk.end <=> "RecvEnded" \in fields \cup ends
      BY <2>1 DEF Bits
    <3>3. rev' \in Event /\ rev'.end = rblk.end
      BY <2>2, <3>1 DEF Event, EventTypes
    <3> HIDE DEF fields, ends
    <3> QED BY <2>6, <3>1, <3>2, <3>3
  <2> QED BY <2>4, <2>5, <2>6
<1>5. /\ rtodo' \in Callbacks
      /\ rtodo' = <<"die">> => Range(rtodo') = {"die"}
      /\ rtodo' = <<"rst">> => Range(rtodo') = {"rst"}
      /\ rtodo' = <<"push">> => Range(rtodo') = {"push"}
      /\ rtodo' = <<"write431", "release">> => Range(rtodo') = {"write431", "release"}
      /\ rtodo' = <<"push", "release">> => Range(rtodo') = {"push", "release"}
  BY <1>4, RangeTuples DEF Callbacks
<1>6. /\ st' \in [Streams -> SUBSET Bits]
      /\ st'[rs] = st[rs] \cup bits
      /\ \A s \in Streams : s # rs => st'[s] = st[s]
      /\ \A s \in Streams : st[s] \subseteq st'[s]
  BY <1>3, <1>4, Advanced
<1>7. undecoded' = 0
  <2>1. undecoded = 1
    BY <1>2 DEF CallbackInv, Has
  <2>2. 1 - 1 = 0
    BY SMTT(30)
  <2> QED BY <1>1, <2>1, <2>2
<1>8. TypeOK'
  <2>1. rtodo' \in Seq(Phase) /\ rev' \in Event
    BY <1>4, <1>5, CallbackType DEF TypeOK
  <2>2. pending' \in [s : 0..N, end : BOOLEAN, trailer : BOOLEAN, discard : BOOLEAN]
    BY <1>1, ConstantsAssumption, SMTT(30) DEF NoBlock
  <2>3. undecoded' \in 0..1
    BY <1>7, SMTT(30)
  <2> QED BY <1>1, <1>6, <2>1, <2>2, <2>3 DEF TypeOK
<1>9. CallbackInv'
  <2>1. rapidResetCount <= Budget /\ rs <= maxClient
    BY <1>2 DEF CallbackInv, Has
  <2>2. pending'.s \in opened' \cup {0}
    BY <1>1 DEF NoBlock
  <2>3. Has("push")' => ~EofLogged(rs)' /\ (rev'.end => "RecvEnded" \in st'[rs])
    <3>1. Has("push")' => "RecvEnded" \notin st[rs] /\ (rev'.end => "RecvEnded" \in bits)
      BY <1>4, <1>5, SMTT(30) DEF Has
    <3>2. EofLogged(rs)' => EofLogged(rs)
      BY <1>1 DEF EofLogged, Eof
    <3> QED BY <1>3, <1>6, <3>1, <3>2 DEF EofInv
  <2>4. (Has("release") \/ Has("rst"))' => Has("write431")' \/ Shut(rs)'
    BY <1>1, <1>4, <1>5, <1>6, StateWord, SMTT(30) DEF Has, Shut
  <2>5. ~Has("emit")' /\ ~Has("discard")' /\ ~Has("refuse")'
    BY <1>4, <1>5 DEF Has
  <2> QED BY <1>1, <1>2, <1>3, <1>5, <1>7, <2>1, <2>2, <2>3, <2>4, <2>5 DEF CallbackInv
<1>10. PcInv'
  <2>1. \A s \in Streams : ~Writable(st[s]) => ~Writable(st'[s])
    BY <1>6, StateWord
  <2> QED BY <1>1, <1>3, <1>6, <2>1 DEF PcInv
<1>11. QuietInv'
  BY <1>1, <1>6, QuietKept
<1>12. EofInv' /\ NoFrameAfterReset' /\ QueueInv' /\ EofIsLast'
  BY <1>1, <1>6, <1>8, SameLog, SameWire, SameQueue
<1>13. ReleaseOwed'
  <2>1. \A s \in live : Owed(s) => Owed(s)'
    BY <1>1, <1>2 DEF Owed, Has
  <2>2. Terminal(st'[rs]) => Terminal(st[rs]) \/ Owed(rs)'
    BY <1>1, <1>4, <1>5, <1>6, StateWord DEF Owed, Has
  <2> QED BY <1>1, <1>6, <2>1, <2>2, OwedRelease, StreamsKnown
<1>14. ReleasedCancelled'
  BY <1>1, <1>2 DEF ReleasedCancelled
<1> QED
  BY <1>8, <1>9, <1>10, <1>11, <1>12, <1>13, <1>14 DEF LifecycleInv

-----------------------------------------------------------------------------
(* The invariant *)

LEMMA StutterKeeps ==
  ASSUME LifecycleInv, UNCHANGED vars
  PROVE  LifecycleInv'
<1>0. /\ TypeOK /\ CallbackInv /\ PcInv /\ QuietInv /\ EofInv /\ QueueInv
      /\ ReleaseOwed /\ ReleasedCancelled /\ NoFrameAfterReset /\ EofIsLast
  BY DEF LifecycleInv
<1> USE <1>0
<1>1. UNCHANGED <<st, live, maxClient, cancelled, acceptCh, log, taken, wire, pending,
                  rtodo, rs, rblk, rev, rdead, undecoded, rapidResetCount, frames, hpc,
                  hend, sends, gpc, closed, broken, ndata, peerReset, opened>>
  BY DEF vars, streamVars, eventVars, readerVars, handlerVars, connVars, histVars
<1>2. TypeOK'
  BY <1>1 DEF TypeOK
<1>3. CallbackInv'
  BY <1>1, ReaderElsewhere DEF vars
<1>4. PcInv' /\ QuietInv'
  <2>1. PcInv'
    BY <1>1 DEF PcInv
  <2> QED BY <1>1, <2>1 DEF QuietInv, Shut
<1>5. EofInv' /\ EofIsLast' /\ NoFrameAfterReset'
  BY <1>1, <1>2, SameLog, SameWire
<1>6. QueueInv' /\ ReleaseOwed' /\ ReleasedCancelled'
  BY <1>1 DEF QueueInv, ReleaseOwed, ReleasedCancelled
<1> QED BY <1>2, <1>3, <1>4, <1>5, <1>6 DEF LifecycleInv

LEMMA ReaderStepKeeps ==
  ASSUME LifecycleInv, ReaderStep
  PROVE  LifecycleInv'
BY emitHeaderBlockKeeps, discardHeaderBlockKeeps, RefuseKeeps, ReaderRSTKeeps, pushKeeps,
   PushResetKeeps, respondFieldsTooLargeKeeps, ReaderSentKeeps, ReaderReleaseKeeps,
   onClientRSTStreamKeeps, DieKeeps, shutdownStreamsKeeps DEF ReaderStep

LEMMA ClientFrameKeeps ==
  ASSUME LifecycleInv, ClientFrame
  PROVE  LifecycleInv'
<1>1. ASSUME NEW s \in Streams, NEW end \in BOOLEAN, NEW last \in BOOLEAN,
             NEW kind \in Blocks,
             OnHeadersNew(s, end, last, kind) \/ OnHeadersLive(s, end, last, kind)
      PROVE  LifecycleInv'
  BY <1>1, OnHeadersNewKeeps, OnHeadersLiveKeeps
<1>2. ASSUME NEW kind \in Blocks, OnContinuation(kind)
      PROVE  LifecycleInv'
  BY <1>2, OnContinuationKeeps
<1>3. ASSUME NEW s \in Streams, NEW end \in BOOLEAN, OnData(s, end)
      PROVE  LifecycleInv'
  BY <1>3, OnDataKeeps
<1>4. ASSUME NEW s \in Streams, OnRSTStream(s) \/ WindowOverflow(s) \/ writeRSTStreamID(s)
      PROVE  LifecycleInv'
  BY <1>4, OnRSTStreamKeeps, WindowOverflowKeeps, writeRSTStreamIDKeeps
<1> QED BY <1>1, <1>2, <1>3, <1>4, ConnectionErrorKeeps DEF ClientFrame

LEMMA NextKeeps ==
  ASSUME LifecycleInv, [Next]_vars
  PROVE  LifecycleInv'
<1>1. ASSUME NEW s \in Streams, HandlerStep(s) \/ OverflowRST(s) \/ Recv(s) \/ Close(s)
      PROVE  LifecycleInv'
  BY <1>1, WriteKeeps, SentKeeps, HandlerReleaseKeeps, HandlerRSTKeeps, OverflowRSTKeeps,
     RecvKeeps, CloseKeeps DEF HandlerStep
<1>2. ASSUME NEW s \in Streams, NEW end \in BOOLEAN, Send(s, end)
      PROVE  LifecycleInv'
  BY <1>2, SendKeeps
<1> QED
  BY <1>1, <1>2, ReaderStepKeeps, ClientFrameKeeps, ReadErrorKeeps, AcceptStreamKeeps,
     CloseConnKeeps, StutterKeeps DEF Next

\* Only Close and a push into a full channel make a goroutine owe RST_STREAM, and
\* neither does on a stream whose state word already has the peer's reset.
LEMMA ResetNotAnswered ==
  ASSUME LifecycleInv, Next
  PROVE  NoResetAnswersReset
<1>0. /\ TypeOK /\ CallbackInv /\ PcInv /\ QuietInv /\ EofInv /\ QueueInv
      /\ ReleaseOwed /\ ReleasedCancelled /\ NoFrameAfterReset /\ EofIsLast
  BY DEF LifecycleInv
<1> USE <1>0
<1>1. /\ hpc \in [Streams -> {"none", "run", "write", "sent", "release", "rst", "done"}]
      /\ gpc \in [Streams -> {"none", "rst", "done"}]
  BY DEF TypeOK
<1>2. \A s \in peerReset : s \in Streams /\ "Reset" \in st[s] /\ Terminal(st[s])
  BY StreamsKnown, StateWord DEF PcInv, TypeOK
<1>3. CASE UNCHANGED <<hpc, gpc>>
  BY <1>3 DEF NoResetAnswersReset
<1>4. CASE AcceptStream
  BY <1>1, <1>2, <1>4 DEF AcceptStream, NoResetAnswersReset
<1>5. ASSUME NEW s \in Streams, HandlerStep(s) \/ OverflowRST(s)
      PROVE  NoResetAnswersReset
  <2>1. CASE Write(s)
    BY <1>1, <1>2, <2>1 DEF Write, NoResetAnswersReset
  <2>2. CASE Sent(s)
    BY <1>1, <1>2, <2>2 DEF Sent, NoResetAnswersReset
  <2>3. CASE HandlerRelease(s)
    BY <1>1, <1>2, <2>3 DEF HandlerRelease, NoResetAnswersReset
  <2>4. CASE HandlerRST(s)
    BY <1>1, <1>2, <2>4 DEF HandlerRST, NoResetAnswersReset
  <2>5. CASE OverflowRST(s)
    BY <1>1, <1>2, <2>5 DEF OverflowRST, NoResetAnswersReset
  <2> QED BY <1>5, <2>1, <2>2, <2>3, <2>4, <2>5 DEF HandlerStep
<1>6. ASSUME NEW s \in Streams, Close(s)
      PROVE  NoResetAnswersReset
  BY <1>1, <1>2, <1>6 DEF Close, NoResetAnswersReset
<1>7. ASSUME NEW s \in Streams, NEW end \in BOOLEAN, Send(s, end)
      PROVE  NoResetAnswersReset
  BY <1>1, <1>2, <1>7 DEF Send, NoResetAnswersReset
<1>8. CASE push
  <2>1. UNCHANGED hpc
    BY <1>8 DEF push
  <2>2. \A s \in peerReset : gpc'[s] = gpc[s]
    BY <1>1, <1>2, <1>8 DEF push
  <2> QED BY <2>1, <2>2 DEF NoResetAnswersReset
<1>9. ASSUME NEW s \in Streams, Recv(s) PROVE UNCHANGED <<hpc, gpc>>
  BY <1>9 DEF Recv, handlerVars
<1>10. ReadError \/ CloseConn => UNCHANGED <<hpc, gpc>>
  BY DEF ReadError, CloseConn, handlerVars
<1>11. ClientFrame => UNCHANGED <<hpc, gpc>>
  BY DEF ClientFrame, ConnectionError, OnHeadersNew, OnHeadersLive, OnContinuation, OnData,
         OnRSTStream, WindowOverflow, writeRSTStreamID, handlerVars
<1>12. ReaderStep => push \/ UNCHANGED <<hpc, gpc>>
  BY DEF ReaderStep, emitHeaderBlock, discardHeaderBlock, Refuse, ReaderRST, PushReset,
         respondFieldsTooLarge, ReaderSent, ReaderRelease, onClientRSTStream, Die,
         shutdownStreams, handlerVars
<1> QED
  BY <1>3, <1>4, <1>5, <1>6, <1>7, <1>8, <1>9, <1>10, <1>11, <1>12 DEF Next

-----------------------------------------------------------------------------
(* The theorems *)

\* The inductive invariant of a connection's streams: the reader's callback, each
\* handler's and each overflow goroutine's position, the state words, the event
\* channels, the table and the wire agree, whatever the number of streams, the bounds
\* of the queue and of the channels and the length of the run.
THEOREM LifecycleInvariant == Spec => []LifecycleInv
<1>1. Init => LifecycleInv
  BY InitEstablishes
<1>2. LifecycleInv /\ [Next]_vars => LifecycleInv'
  BY NextKeeps
<1> QED BY <1>1, <1>2, PTL DEF Spec

\* After the event that carries END_STREAM, Recv can deliver nothing but a reset
\* (server_stream.go, push; server_handler.go, OnData and emitHeaderBlock).
THEOREM EofLast == Spec => []EofIsLast
<1>1. LifecycleInv => EofIsLast
  BY DEF LifecycleInv
<1> QED BY <1>1, LifecycleInvariant, PTL

\* Between two frames every field block received has gone through the HPACK decoder,
\* those of refused and of reset streams too (server_handler.go, discardHeaderBlock).
THEOREM HpackSynchronised == Spec => []HpackInSync
<1>1. LifecycleInv => HpackInSync
  BY RangeTuples DEF LifecycleInv, CallbackInv, Has, HpackInSync
<1> QED BY <1>1, LifecycleInvariant, PTL

\* A stream whose state word is terminal and that is still in the table has its
\* release ahead of it in some goroutine, and one that has left the table has its
\* context cancelled (server_ops.go, markStreamDone; server_stream.go, Close).
THEOREM ReleasedExactly == Spec => []ReleasedOnce
<1>1. LifecycleInv => ReleasedOnce
  BY DEF LifecycleInv, ReleasedOnce
<1> QED BY <1>1, LifecycleInvariant, PTL

\* Nothing but RST_STREAM follows an RST_STREAM the server wrote on a stream, and no
\* step makes a goroutine owe an RST_STREAM in answer to the client's (server_stream.go,
\* Close and push; server_handler.go, OnRSTStream).
THEOREM ResetFinal == Spec => ResetIsFinal
<1>1. LifecycleInv /\ [Next]_vars => [NoFrameAfterReset' /\ NoResetAnswersReset]_vars
  BY NextKeeps, ResetNotAnswered DEF LifecycleInv
<1> QED BY <1>1, LifecycleInvariant, PTL DEF Spec, ResetIsFinal

=============================================================================

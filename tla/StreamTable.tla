---------------------------- MODULE StreamTable ----------------------------
(***************************************************************************)
(* The identifier space and the live population of one HTTP/2 connection,  *)
(* and server push, the one path on which a goroutine other than the frame *)
(* reader opens streams: conn/stream_table.go, conn/push.go,               *)
(* conn/server_upgrade.go and their callers in conn/server_ops.go,         *)
(* conn/server_handler.go and conn/server_conn.go.                         *)
(*                                                                         *)
(* The reader admits client streams, resets streams, publishes and         *)
(* acknowledges SETTINGS and drains the table.  One handler per client     *)
(* stream pushes from it.  A step is one section under the table's lock or *)
(* one use of wmu; a handler keeps wmu from the check of the parent to the *)
(* PUSH_PROMISE frame, so those are separate steps.                        *)
(***************************************************************************)
EXTENDS Integers, FiniteSets

CONSTANTS
  MaxClientId,  \* bound: the largest client identifier
  MaxPushId,    \* bound: the largest identifier a push may reserve
  Limit,        \* advertised MAX_CONCURRENT_STREAMS; 0 is unlimited
  Settings,     \* what the client's SETTINGS may say, initial values included
  Initial,      \* its handshake SETTINGS
  MaxSettings,  \* bound: SETTINGS frames after the handshake
  noStreamLimit \* the limit of a peer that sets none, 2^32 - 1

ASSUME ConstantsAssumption ==
  /\ MaxClientId \in Nat /\ MaxPushId \in Nat /\ Limit \in Nat
  /\ MaxSettings \in Nat /\ noStreamLimit \in Nat /\ MaxPushId < noStreamLimit
  /\ Initial \in Settings
  /\ Settings \subseteq [push : 0..1, limit : 0..noStreamLimit, win : Nat]

Odd(id) == id % 2 = 1
Ids       == 1..MaxClientId \cup 1..MaxPushId
ClientIds == {id \in 1..MaxClientId : Odd(id)}

VARIABLES
  streams,    \* streamTable.streams: the live identifiers
  maxClient, nextPush, nClient, nPush,
  window,     \* the send window admission or the SETTINGS walk left, per stream
  ps,         \* ServerConn.peerSettings
  peerGoAway,
  closed,
  broken,     \* the transport fails writes
  wmu,        \* the handler that is inside writePushPromise, or 0
  rpc,        \* reader: "read", "miss", "rst", "publish", "ack", "drain", "dead"
  rid,        \* reader: the identifier of the frame
  rset,       \* reader: the SETTINGS it is applying
  nset,       \* bound counter
  pc,         \* handler: "none", "run", "push", "locked", "reserved", "done"
  plim,       \* handler: the peer's limit it has read
  pid,        \* handler: the identifier it has reserved
  acked,      \* history: the SETTINGS in force at the last SETTINGS ACK
  promised,   \* history: identifiers in PUSH_PROMISE frames sent
  resets      \* history: streams whose RST_STREAM this server sent

tableVars   == <<streams, maxClient, nextPush, nClient, nPush, window>>
peerVars    == <<ps, peerGoAway, closed, broken>>
readerVars  == <<rpc, rid, rset, nset>>
handlerVars == <<pc, plim, pid>>
histVars    == <<acked, promised, resets>>
vars == <<tableVars, peerVars, wmu, readerVars, handlerVars, histVars>>

TypeOK ==
  /\ streams \subseteq Ids
  /\ maxClient \in {0} \cup ClientIds
  /\ nextPush \in 2..MaxPushId + 2 /\ ~Odd(nextPush)
  /\ nClient \in Nat /\ nPush \in Nat
  /\ window \in [Ids -> Int]
  /\ ps \in Settings /\ rset \in Settings /\ acked \in Settings
  /\ peerGoAway \in BOOLEAN /\ closed \in BOOLEAN /\ broken \in BOOLEAN
  /\ wmu \in {0} \cup ClientIds
  /\ rpc \in {"read", "miss", "rst", "publish", "ack", "drain", "dead"}
  /\ rid \in {0} \cup Ids /\ nset \in 0..MaxSettings
  /\ pc \in [ClientIds ->
               {"none", "run", "push", "locked", "reserved", "done"}]
  /\ plim \in [ClientIds -> 0..noStreamLimit]
  /\ pid \in [ClientIds -> {0} \cup Ids]
  /\ promised \subseteq Ids /\ resets \subseteq Ids

\* newStreamTable; after an h2c upgrade seedUpgradedStream has admitted stream 1.
Init ==
  /\ \/ streams = {} /\ maxClient = 0 /\ nClient = 0
     \/ /\ 1 \in ClientIds
        /\ streams = {1} /\ maxClient = 1 /\ nClient = 1
  /\ nextPush = 2 /\ nPush = 0
  /\ window = [id \in Ids |-> IF id \in streams THEN Initial.win ELSE 0]
  /\ ps = Initial /\ peerGoAway = FALSE /\ closed = FALSE /\ broken = FALSE
  /\ wmu = 0
  /\ rpc = "read" /\ rid = 0 /\ rset = Initial /\ nset = 0
  /\ pc = [h \in ClientIds |-> IF h \in streams THEN "run" ELSE "none"]
  /\ plim = [h \in ClientIds |-> 0] /\ pid = [h \in ClientIds |-> 0]
  /\ acked = Initial /\ promised = {} /\ resets = {}

-----------------------------------------------------------------------------
(* The operations of the table *)

idle(id) == IF Odd(id) THEN id > maxClient ELSE id >= nextPush

release(id) ==
  /\ streams' = streams \ {id}
  /\ nClient' = IF id \in streams /\ Odd(id) THEN nClient - 1 ELSE nClient
  /\ nPush' = IF id \in streams /\ ~Odd(id) THEN nPush - 1 ELSE nPush
  /\ UNCHANGED <<maxClient, nextPush, window>>

\* The identifier is consumed whether or not the stream is admitted.
admitClient(id) ==
  /\ maxClient' = id
  /\ IF Limit > 0 /\ nClient >= Limit
       THEN UNCHANGED <<streams, nClient, window>>
       ELSE /\ streams' = streams \cup {id}
            /\ nClient' = nClient + 1
            /\ window' = [window EXCEPT ![id] = ps.win]
  /\ UNCHANGED <<nextPush, nPush>>

pushRoom(limit) == limit = noStreamLimit \/ nPush < limit

reservePush ==
  /\ nextPush' = nextPush + 2
  /\ streams' = streams \cup {nextPush}
  /\ nPush' = nPush + 1
  /\ window' = [window EXCEPT ![nextPush] = ps.win]
  /\ UNCHANGED <<maxClient, nClient>>

\* The walk of applyInitialWindow, under the lock that published v.
walk(v) ==
  window' = [id \in Ids |-> IF id \in streams
                              THEN window[id] + (v.win - ps.win) ELSE window[id]]

-----------------------------------------------------------------------------
(* The frame reader *)

ReaderIdle == rpc = "read"

\* OnHeaders on an idle odd identifier, through registerStream.  At the limit the
\* reader goes on to reset the stream it has just refused.
OnHeaders(id) ==
  /\ ReaderIdle
  /\ idle(id)
  /\ admitClient(id)
  /\ IF Limit > 0 /\ nClient >= Limit THEN rid' = id /\ rpc' = "rst"
                                     ELSE UNCHANGED <<rid, rpc>>
  /\ pc' = [pc EXCEPT ![id] = IF Limit > 0 /\ nClient >= Limit THEN "none"
                              ELSE "run"]
  /\ UNCHANGED <<peerVars, wmu, rset, nset, plim, pid, histVars>>

\* Any frame on a stream the table does not hold: the lookup, then the test that
\* tells an idle identifier, which ends the connection, from a closed one.
lookup(id) ==
  /\ ReaderIdle
  /\ id \notin streams
  /\ rid' = id /\ rpc' = "miss"
  /\ UNCHANGED <<tableVars, peerVars, wmu, rset, nset, handlerVars, histVars>>

isIdleStream ==
  /\ rpc = "miss"
  /\ rpc' = IF idle(rid) THEN "drain" ELSE "read"
  /\ rid' = 0
  /\ UNCHANGED <<tableVars, peerVars, wmu, rset, nset, handlerVars, histVars>>

\* A client RST_STREAM, or the END_STREAM that closes the second half.
ClientEnds(id) ==
  /\ ReaderIdle
  /\ id \in streams
  /\ release(id)
  /\ UNCHANGED <<peerVars, wmu, readerVars, handlerVars, histVars>>

\* A frame that draws a stream error.
StreamError(id) ==
  /\ ReaderIdle
  /\ id \in streams
  /\ rid' = id /\ rpc' = "rst"
  /\ UNCHANGED <<tableVars, peerVars, wmu, rset, nset, handlerVars, histVars>>

\* The RST_STREAM frame and the release, both inside wmu.  On a closed connection
\* writeServerRSTStream only releases, without wmu, and writeRSTStreamID leaves the
\* stream to drain.
ReaderRST ==
  /\ rpc = "rst"
  /\ \/ /\ wmu = 0 \/ closed
        /\ release(rid)
        /\ resets' = IF closed \/ broken THEN resets ELSE resets \cup {rid}
     \/ closed /\ UNCHANGED <<tableVars, resets>>
  /\ rpc' = "read" /\ rid' = 0
  /\ UNCHANGED <<peerVars, wmu, rset, nset, handlerVars, acked, promised>>

\* OnSettings: the encoder's table under wmu, the publication under the table's
\* lock, the ACK under wmu.
OnSettings(v) ==
  /\ ReaderIdle /\ wmu = 0 /\ nset < MaxSettings
  /\ rset' = v /\ nset' = nset + 1 /\ rpc' = "publish"
  /\ UNCHANGED <<tableVars, peerVars, wmu, rid, handlerVars, histVars>>

applyInitialWindow ==
  /\ rpc = "publish"
  /\ walk(rset)
  /\ ps' = rset
  /\ rpc' = "ack"
  /\ UNCHANGED <<streams, maxClient, nextPush, nClient, nPush, peerGoAway,
                 closed, broken, wmu, rid, rset, nset, handlerVars, histVars>>

writeSettingsAck ==
  /\ rpc = "ack" /\ wmu = 0
  /\ acked' = IF broken THEN acked ELSE ps
  /\ rpc' = IF broken THEN "drain" ELSE "read"
  /\ UNCHANGED <<tableVars, peerVars, wmu, rid, rset, nset, handlerVars,
                 promised, resets>>

OnGoAway ==
  /\ ReaderIdle
  /\ peerGoAway' = TRUE
  /\ UNCHANGED <<tableVars, ps, closed, broken, wmu, readerVars, handlerVars,
                 histVars>>

\* A connection error or a failed read, and the drain of shutdownStreams.
ReaderFails ==
  /\ ReaderIdle
  /\ rpc' = "drain"
  /\ UNCHANGED <<tableVars, peerVars, wmu, rid, rset, nset, handlerVars,
                 histVars>>

drain ==
  /\ rpc = "drain"
  /\ streams' = {} /\ nClient' = 0 /\ nPush' = 0
  /\ rpc' = "dead"
  /\ UNCHANGED <<maxClient, nextPush, window, peerVars, wmu, rid, rset, nset,
                 handlerVars, histVars>>

-----------------------------------------------------------------------------
(* Handlers *)

\* Push and the head of writePushPromise: the checks made without wmu.
Push(h) ==
  /\ pc[h] = "run"
  /\ ps.push = 1 /\ ~peerGoAway /\ ~closed
  /\ pc' = [pc EXCEPT ![h] = "push"]
  /\ UNCHANGED <<tableVars, peerVars, wmu, readerVars, plim, pid, histVars>>

\* Mutant: the peer's limit and the parent are looked at without wmu.
LookThenLock(h) ==
  /\ pc[h] = "push" /\ nextPush <= MaxPushId
  /\ \/ /\ h \in streams
        /\ plim' = [plim EXCEPT ![h] = ps.limit]
        /\ pc' = [pc EXCEPT ![h] = "locked"]
     \/ /\ pc' = [pc EXCEPT ![h] = "run"]
        /\ UNCHANGED plim
  /\ UNCHANGED <<tableVars, peerVars, wmu, readerVars, pid, histVars>>

\* writePushPromise up to the reservation: the parent must still be live.  It
\* gives up where the parent is gone and where the promise does not fit a frame.
LockForPush(h) ==
  /\ pc[h] = "push" /\ wmu = 0 /\ nextPush <= MaxPushId
  /\ \/ /\ h \in streams
        /\ plim' = [plim EXCEPT ![h] = ps.limit]
        /\ pc' = [pc EXCEPT ![h] = "locked"]
        /\ wmu' = h
     \/ /\ pc' = [pc EXCEPT ![h] = "run"]
        /\ UNCHANGED <<plim, wmu>>
  /\ UNCHANGED <<tableVars, peerVars, readerVars, pid, histVars>>

\* The reservation, or ErrPushRefused.
ReservePush(h) ==
  /\ pc[h] = "locked"
  /\ IF pushRoom(plim[h])
       THEN /\ reservePush
            /\ pid' = [pid EXCEPT ![h] = nextPush]
            /\ pc' = [pc EXCEPT ![h] = "reserved"]
            /\ UNCHANGED wmu
       ELSE /\ pc' = [pc EXCEPT ![h] = "run"]
            /\ wmu' = 0
            /\ UNCHANGED <<tableVars, pid>>
  /\ UNCHANGED <<peerVars, readerVars, plim, histVars>>

\* The PUSH_PROMISE frame; a failed write gives the reservation back.
WritePushPromise(h) ==
  /\ pc[h] = "reserved"
  /\ IF broken THEN release(pid[h]) /\ UNCHANGED promised
               ELSE promised' = promised \cup {pid[h]} /\ UNCHANGED tableVars
  /\ pc' = [pc EXCEPT ![h] = "run"]
  /\ plim' = [plim EXCEPT ![h] = 0] /\ pid' = [pid EXCEPT ![h] = 0]
  /\ wmu' = 0
  /\ UNCHANGED <<peerVars, readerVars, acked, resets>>

\* Mutant: RST_STREAM goes out in one wmu section, the release follows it.
ResetThenRelease(id) ==
  /\ id \in streams /\ wmu = 0
  /\ resets' = IF closed \/ broken THEN resets ELSE resets \cup {id}
  /\ UNCHANGED <<tableVars, peerVars, wmu, readerVars, handlerVars, acked,
                 promised>>

\* ServerStream.Close, or the goroutine of an overflowing event buffer: the frame
\* and the release are one wmu section, or a release alone as above.
writeServerRSTStream(id) ==
  /\ id \in streams /\ (wmu = 0 \/ closed)
  /\ release(id)
  /\ resets' = IF closed \/ broken THEN resets ELSE resets \cup {id}
  /\ UNCHANGED <<peerVars, wmu, readerVars, handlerVars, acked, promised>>

\* The response ends its stream: the handler's own, or a pushed one.  markLocalEnd
\* releases it outside wmu.
LocalEnd(h, id) ==
  /\ pc[h] = "run"
  /\ id = h \/ id \in promised
  /\ id \in streams
  /\ release(id)
  /\ pc' = [pc EXCEPT ![h] = IF id = h THEN "done" ELSE @]
  /\ UNCHANGED <<peerVars, wmu, readerVars, plim, pid, histVars>>

\* ServerConn.Close sets the flag; the transport fails.
CloseConn ==
  /\ ~closed
  /\ closed' = TRUE
  /\ UNCHANGED <<tableVars, ps, peerGoAway, broken, wmu, readerVars, handlerVars,
                 histVars>>

TransportFails ==
  /\ ~broken
  /\ broken' = TRUE
  /\ UNCHANGED <<tableVars, ps, peerGoAway, closed, wmu, readerVars, handlerVars,
                 histVars>>

ReaderStep ==
  \/ \E id \in ClientIds : OnHeaders(id)
  \/ \E id \in Ids : lookup(id) \/ ClientEnds(id) \/ StreamError(id)
  \/ isIdleStream \/ ReaderRST
  \/ \E v \in Settings : OnSettings(v)
  \/ applyInitialWindow \/ writeSettingsAck \/ OnGoAway \/ ReaderFails \/ drain

HandlerStep(h) ==
  \/ Push(h) \/ LockForPush(h) \/ ReservePush(h) \/ WritePushPromise(h)
  \/ \E id \in Ids : LocalEnd(h, id)

Next ==
  \/ ReaderStep
  \/ \E h \in ClientIds : HandlerStep(h)
  \/ \E id \in Ids : writeServerRSTStream(id)
  \/ CloseConn \/ TransportFails

Spec == Init /\ [][Next]_vars

-----------------------------------------------------------------------------
(* Properties *)

\* The maintained populations are the numbers of live streams of each parity,
\* through refusals, failed promises, double releases and the drain.
CountsExact ==
  /\ nClient = Cardinality({id \in streams : Odd(id)})
  /\ nPush = Cardinality({id \in streams : ~Odd(id)})

\* No identifier is live and idle at once, so a frame on a live stream is never
\* taken for a frame on one that was never opened.
LiveNotIdle == \A id \in streams \cup resets : ~idle(id)

\* Every live stream's window reflects the client's SETTINGS_INITIAL_WINDOW_SIZE
\* exactly once, however a push or an admission races with its change.
SeededOnce == \A id \in streams : window[id] = ps.win

\* Every registered push is promised on the wire or about to be: a failed write
\* leaves no registration behind to hold one of the peer's slots.
NoOrphanReservation ==
  \A id \in streams : Odd(id) \/ id \in promised
                      \/ \E h \in ClientIds : pc[h] = "reserved" /\ pid[h] = id

Within(limit) == limit = noStreamLimit \/ nPush <= limit

\* A PUSH_PROMISE leaves no more pushed streams open than the peer allows: by the
\* SETTINGS it has seen acknowledged, or by newer ones it has already sent.
PromiseWithinLimit ==
  promised' # promised => Within(acked.limit) \/ Within(ps.limit)

\* Promised identifiers reach the wire in increasing order (RFC 9113 5.1.1), from
\* whichever handlers they come.
PromisedInOrder ==
  \A x \in promised' \ promised : \A y \in promised : x > y

\* No PUSH_PROMISE goes out on a stream this server has already reset: the reason
\* why both RST_STREAM writers release inside wmu.
NoPromiseOnReset ==
  \A h \in ClientIds :
    pc[h] = "reserved" /\ promised' # promised => h \notin resets

\* Every PUSH_PROMISE on the wire is one the peer must accept: within its limit, with
\* an identifier above all the earlier ones, and on a stream that is not reset, while
\* handlers push and the reader applies SETTINGS and resets streams.
PromisesLegal ==
  [][PromiseWithinLimit /\ PromisedInOrder /\ NoPromiseOnReset]_vars

-----------------------------------------------------------------------------
(* Claims of comments and documents that the code does not keep; the README   *)
(* says how each fails                                                        *)

\* push.go: the client must have SETTINGS_ENABLE_PUSH = 1.  Once the server has
\* acknowledged ENABLE_PUSH = 0 it promises nothing.
PushOnlyWhenEnabled ==
  [][promised' # promised => acked.push = 1 \/ ps.push = 1]_vars

\* OnGoAway: recording the client's GOAWAY stops a push from racing it.
NoPushAfterPeerGoAway == [][promised' # promised => ~peerGoAway]_vars

-----------------------------------------------------------------------------
(* The inductive invariant *)

\* wmu belongs to the one handler that is inside writePushPromise.
WmuInv ==
  \A h \in ClientIds : pc[h] \in {"locked", "reserved"} <=> wmu = h

\* What the reader and the wire know: the stream being reset is not idle, a reset
\* stream is not live, ps is the acknowledged SETTINGS except between the
\* publication and the ACK, every promised identifier has been reserved, and only
\* opened streams have a handler.
WireInv ==
  /\ rpc = "rst" => rid \in Ids /\ ~idle(rid)
  /\ rpc \notin {"ack", "drain", "dead"} => acked = ps
  /\ streams \cap resets = {}
  /\ \A id \in promised : id < nextPush
  /\ \A h \in ClientIds : idle(h) => pc[h] = "none"

\* What a handler inside writePushPromise may rely on until it unlocks.
PushInv ==
  \A h \in ClientIds :
    /\ pc[h] \in {"locked", "reserved"} =>
         h \notin resets /\ plim[h] \in {acked.limit, ps.limit}
    /\ pc[h] = "locked" => nextPush <= MaxPushId
    /\ pc[h] = "reserved" =>
         /\ Within(plim[h])
         /\ pid[h] \in Ids /\ pid[h] = nextPush - 2
         /\ \A id \in promised : id < pid[h]

TableInv ==
  /\ TypeOK /\ CountsExact /\ LiveNotIdle /\ SeededOnce /\ NoOrphanReservation
  /\ WmuInv /\ WireInv /\ PushInv

=============================================================================

------------------------- MODULE RequestBodyProofs -------------------------
(***************************************************************************)
(* Proofs about RecvWindow and RequestBody, for every window, refund       *)
(* threshold, buffer, frame and body length, every padding and every       *)
(* limit: the books of both sides agree, and the handler reads what the    *)
(* client sent.                                                            *)
(***************************************************************************)
EXTENDS RequestBody, TotalsProofs

USE ZenonT(60)

-----------------------------------------------------------------------------
(* The inductive invariant *)

\* The reader has the head of the wire in its hands, and the stream it looked up
\* is still the one in the table.
InHand == rpc \in {"update", "push"}
HandInv == InHand => wire # <<>> /\ (live => found)

\* Nothing follows the frame that ends the client's half, which only an aborted
\* upload sends before the whole body.
LastInv ==
  \A i \in DOMAIN wire :
    wire[i].end => i = Len(wire) /\ fin /\ (wire[i].type # "reset" => todo = 0)

\* The server has room for what the client has been promised: exactly that for the
\* connection, at least that for the stream, whose credit never grows.
ConnBooks == connRecvWindow = ConnPromised
StreamBooks == (live => recvWindow >= Promised) /\ StreamCredit <= Window

\* The types without the upper bounds on credit, which follow from the books.
Parts ==
  /\ peerStream \in Nat /\ updStream \in Nat /\ refund \in Nat
  /\ peerConn \in Nat /\ updConn \in Nat /\ connRefund \in Nat
  /\ recvWindow \in Int /\ connRecvWindow \in Int
  /\ recvRefundPending \in 0..recvWindowRefundThreshold - 1
  /\ connRefundPending \in 0..recvWindowRefundThreshold - 1
Rest ==
  /\ todo \in 0..Body
  /\ wire \in Seq(Items) /\ events \in Seq(Items) /\ Len(events) <= EventBuffer
  /\ rpc \in {"read", "update", "push", "overflow"} /\ (rpc = "update" <=> connRefund > 0)
  /\ fin \in BOOLEAN /\ stopped \in BOOLEAN /\ found \in BOOLEAN /\ reset \in BOOLEAN
  /\ rstOwed \in BOOLEAN /\ live \in BOOLEAN /\ dropped \in BOOLEAN /\ failed \in BOOLEAN

CreditInv ==
  Parts /\ Rest /\ ~ failed /\ HandInv /\ ConnCreditConserved /\ ConnBooks /\ StreamBooks

\* Where the goroutine of the stream is, and what it holds there.
HandlerInv ==
  /\ streaming \in BOOLEAN /\ done \in BOOLEAN /\ limit \in Int /\ limit >= -1
  /\ hpc \in {"idle", "recv", "select", "close", "over"}
  /\ buf \in Nat /\ total \in Nat /\ delivered \in Nat
  /\ result \in {"none", "eof", "reset", "toolarge", "canceled", "closed"}
  /\ hpc \in {"recv", "select"} => result = "none" /\ buf = 0 /\ ~ done
  /\ streaming /\ result # "none" => done
  /\ ~ streaming => buf = 0 /\ ~ done
  /\ result = "closed" => streaming
  /\ limit >= 0 /\ result = "none" /\ ~ done => total = delivered + buf

\* An event that ends the body.
EndAt(i) == events[i].end /\ events[i].type # "reset"

\* The end of the body comes last: no frame and no octet follows it.
EndInv ==
  \A i \in DOMAIN events : EndAt(i) =>
    /\ fin /\ wire = <<>> /\ todo = 0
    /\ \A j \in DOMAIN events : j > i => events[j].n = 0

\* What the application has or can read, while it may still read on and nothing was
\* dropped; the stream still takes the frames of the client; the end is buffered.
Given == delivered + buf
Open == ~ dropped /\ result \in {"none", "closed"}
Joined == live \/ (InHand /\ found)
EndBuffered == \E i \in DOMAIN events : EndAt(i)

\* What has been handed over against what was sent, at the three stages: as long as
\* the stream takes frames; once the end is buffered; and once the reader of the body
\* has it.
ReadInv ==
  /\ Given <= Taken
  /\ Open /\ Joined => Given = Taken
  /\ Open /\ EndBuffered => Given + Octets(events) = Body
  /\ ~ dropped /\ done /\ result = "none" => Given = Body
  /\ ~ dropped /\ result = "eof" => delivered = Body /\ buf = 0
  /\ result = "toolarge" => limit >= 0 /\ Taken > limit
  /\ limit >= 0 => Given <= limit

UploadInv == LastInv /\ HandlerInv /\ EndInv /\ ReadInv
BodyInv == CreditInv /\ UploadInv

-----------------------------------------------------------------------------
(* Octets and lengths *)

\* The numbers that Octets and Lengths add.
Ns(s) == [i \in DOMAIN s |-> s[i].n]
Ls(s) == [i \in DOMAIN s |-> s[i].len]

LEMMA ItemType ==
  /\ ResetItem \in Items
  /\ \A e \in Items : /\ e.n \in 0..MaxFrame /\ e.len \in 0..MaxFrame /\ e.n <= e.len
                      /\ e.end \in BOOLEAN /\ e.type \in {"data", "trailers", "reset"}
                      /\ e.type # "data" => e.len = 0 /\ e.n = 0 /\ e.end
BY ConstantsAssumption, SMTT(30) DEF Items, ResetItem

LEMMA NumbersType ==
  ASSUME NEW s \in Seq(Items)
  PROVE  Ns(s) \in Seq(0..MaxFrame) /\ Ls(s) \in Seq(0..MaxFrame)
<1>1. Len(s) \in Nat /\ DOMAIN s = 1..Len(s) /\ \A i \in 1..Len(s) : s[i] \in Items
  BY SMTT(30)
<1>2. \A i \in 1..Len(s) : s[i].n \in 0..MaxFrame /\ s[i].len \in 0..MaxFrame
  BY <1>1, ItemType
<1> QED BY <1>1, <1>2, SMTT(30) DEF Ns, Ls

LEMMA OctetsNat ==
  ASSUME NEW s \in Seq(Items)
  PROVE  Octets(s) \in Nat /\ Lengths(s) \in Nat
<1>1. Octets(s) = SeqTotal(Ns(s)) /\ Lengths(s) = SeqTotal(Ls(s))
  BY DEF Octets, Lengths, Ns, Ls
<1> QED BY <1>1, NumbersType, SeqTotalType, ConstantsAssumption

LEMMA OctetsEmpty == Octets(<<>>) = 0 /\ Lengths(<<>>) = 0
<1>1. Ns(<<>>) = <<>> /\ Ls(<<>>) = <<>>
  BY SMTT(30) DEF Ns, Ls
<1> QED BY <1>1, SeqTotalEmpty DEF Octets, Lengths, Ns, Ls

LEMMA OctetsAppend ==
  ASSUME NEW s \in Seq(Items), NEW e \in Items
  PROVE  /\ Octets(Append(s, e)) = Octets(s) + e.n
         /\ Lengths(Append(s, e)) = Lengths(s) + e.len
<1> DEFINE t == Append(s, e)
<1>1. /\ t \in Seq(Items) /\ Len(t) = Len(s) + 1 /\ t[Len(s) + 1] = e /\ Len(s) \in Nat
      /\ \A i \in 1..Len(s) : t[i] = s[i]
  BY SMTT(30)
<1> HIDE DEF t
<1>2. Ns(t) = Append(Ns(s), e.n) /\ Ls(t) = Append(Ls(s), e.len)
  BY <1>1, NumbersType, SMTT(30) DEF Ns, Ls
<1>3. SeqTotal(Append(Ns(s), e.n)) = SeqTotal(Ns(s)) + e.n
  BY NumbersType, ItemType, SeqTotalAppend, ConstantsAssumption
<1>4. SeqTotal(Append(Ls(s), e.len)) = SeqTotal(Ls(s)) + e.len
  BY NumbersType, ItemType, SeqTotalAppend, ConstantsAssumption
<1> QED BY <1>2, <1>3, <1>4 DEF Octets, Lengths, Ns, Ls, t

LEMMA OctetsTail ==
  ASSUME NEW s \in Seq(Items), s # <<>>
  PROVE  /\ Head(s) \in Items /\ Tail(s) \in Seq(Items)
         /\ Octets(s) = Head(s).n + Octets(Tail(s))
         /\ Lengths(s) = Head(s).len + Lengths(Tail(s))
<1>1. /\ Tail(s) \in Seq(Items) /\ Len(s) \in Nat \ {0} /\ Len(Tail(s)) = Len(s) - 1
      /\ Head(s) = s[1] /\ Head(s) \in Items /\ DOMAIN s = 1..Len(s)
      /\ DOMAIN Tail(s) = 1..Len(s) - 1
      /\ \A i \in 1..Len(s) - 1 : Tail(s)[i] = s[i + 1]
  BY SMTT(30)
<1>2. /\ Ns(s) # <<>> /\ Head(Ns(s)) = Head(s).n /\ Tail(Ns(s)) = Ns(Tail(s))
      /\ Ls(s) # <<>> /\ Head(Ls(s)) = Head(s).len /\ Tail(Ls(s)) = Ls(Tail(s))
  BY <1>1, NumbersType, SMTT(30) DEF Ns, Ls
<1>3. SeqTotal(Ns(s)) = Head(s).n + SeqTotal(Ns(Tail(s)))
  BY <1>2, NumbersType, SeqTotalTail, ConstantsAssumption
<1>4. SeqTotal(Ls(s)) = Head(s).len + SeqTotal(Ls(Tail(s)))
  BY <1>2, NumbersType, SeqTotalTail, ConstantsAssumption
<1> QED BY <1>1, <1>3, <1>4 DEF Octets, Lengths, Ns, Ls

LEMMA OctetsZero ==
  ASSUME NEW s \in Seq(Items), \A i \in DOMAIN s : s[i].n = 0
  PROVE  Octets(s) = 0
<1>1. /\ Ns(s) \in Seq(0..MaxFrame) /\ DOMAIN Ns(s) = DOMAIN s
      /\ \A i \in DOMAIN Ns(s) : Ns(s)[i] = 0
  BY NumbersType DEF Ns
<1>2. /\ IsFiniteSet(DOMAIN Ns(s)) /\ Ns(s) \in [DOMAIN Ns(s) -> 0..MaxFrame]
      /\ DOMAIN Ns(s) \in SUBSET DOMAIN Ns(s)
  BY <1>1, SeqTotalType, ConstantsAssumption
<1>3. Total(Ns(s), DOMAIN Ns(s)) = 0
  BY <1>1, <1>2, TotalZero, ConstantsAssumption
<1> QED BY <1>3 DEF Octets, SeqTotal, Ns

-----------------------------------------------------------------------------
(* The books *)

LEMMA CreditParts ==
  ASSUME CreditInv
  PROVE  /\ Parts /\ Rest /\ HandInv /\ StreamBooks /\ ConnBooks /\ ConnCreditConserved
         /\ ~ failed
BY DEF CreditInv

\* The numbers the books add.
LEMMA Numbers ==
  ASSUME Parts, Rest, HandInv
  PROVE  /\ todo \in Nat /\ peerStream \in Nat /\ peerConn \in Nat
         /\ updStream \in Nat /\ updConn \in Nat /\ connRefund \in Nat /\ refund \in Nat
         /\ recvWindow \in Int /\ connRecvWindow \in Int
         /\ recvRefundPending \in Nat /\ connRefundPending \in Nat
         /\ Uncounted \in Seq(Items) /\ InFlight \in Nat /\ Held \in Nat
         /\ Octets(events) \in Nat /\ Octets(wire) \in Nat
<1>1. Uncounted \in Seq(Items)
  BY OctetsTail DEF Uncounted, Rest, HandInv, InHand
<1>2. Held \in Nat
  BY OctetsTail, ItemType, SMTT(30) DEF Held, Rest, HandInv, InHand
<1>3. InFlight \in Nat /\ Octets(events) \in Nat /\ Octets(wire) \in Nat
  BY <1>1, OctetsNat DEF InFlight, Rest
<1>4. todo \in Nat
  BY ConstantsAssumption, SMTT(30) DEF Rest
<1> QED BY <1>1, <1>2, <1>3, <1>4, ConstantsAssumption, SMTT(30) DEF Parts

LEMMA BookTypes ==
  ASSUME Parts, Rest, HandInv
  PROVE  ConnPromised \in Nat /\ Promised \in Nat /\ Unrefunded \in Nat
<1>1. /\ peerConn \in Nat /\ updConn \in Nat /\ connRefund \in Nat /\ InFlight \in Nat
      /\ peerStream \in Nat /\ updStream \in Nat /\ refund \in Nat
      /\ Held \in Nat /\ Octets(events) \in Nat /\ recvRefundPending \in Nat
  BY Numbers
<1>2. ConnPromised \in Nat
  BY <1>1, SMTT(30) DEF ConnPromised
<1>3. Promised \in Nat
  BY <1>1, SMTT(30) DEF Promised
<1>4. Unrefunded \in Nat
  BY <1>1, SMTT(30) DEF Unrefunded
<1> QED BY <1>2, <1>3, <1>4

\* The books bound every part of the credit.
LEMMA PartsBounded ==
  ASSUME CreditInv
  PROVE  TypeOK
<1>0. Parts /\ Rest /\ HandInv /\ StreamBooks /\ ConnCreditConserved /\ ~ failed
  BY CreditParts
<1>1. Promised \in Nat /\ Unrefunded \in Nat /\ ConnPromised \in Nat /\ InFlight \in Nat
  BY <1>0, BookTypes, Numbers
<1>2. Promised <= Window
  BY <1>0, <1>1, ConstantsAssumption, SMTT(30) DEF StreamCredit, StreamBooks
<1>3. ConnPromised <= ConnWindow
  <2>1. connRefundPending \in Nat /\ ConnWindow \in Nat
    BY <1>0, Numbers, ConstantsAssumption
  <2>2. ConnPromised + connRefundPending = ConnWindow
    BY <1>0 DEF ConnCreditConserved
  <2>3. \A a, b, c \in Nat : a + b = c => a <= c
    BY SMTT(30)
  <2> QED BY <1>1, <2>1, <2>2, <2>3, Zenon
<1>4. peerStream <= Promised /\ updStream <= Promised /\ refund <= Promised
  BY <1>0, <1>1, SMTT(30) DEF Parts, Promised
<1>5. peerConn <= ConnPromised /\ updConn <= ConnPromised /\ connRefund <= ConnPromised
  BY <1>0, <1>1, SMTT(30) DEF Parts, ConnPromised
<1>6. peerStream \in 0..Window /\ updStream \in 0..Window /\ refund \in 0..Window
  BY <1>0, <1>1, <1>2, <1>4, ConstantsAssumption, SMTT(30) DEF Parts
<1>7. peerConn \in 0..ConnWindow /\ updConn \in 0..ConnWindow /\ connRefund \in 0..ConnWindow
  BY <1>0, <1>1, <1>3, <1>5, ConstantsAssumption, SMTT(30) DEF Parts
<1> QED BY <1>0, <1>6, <1>7 DEF Parts, Rest, TypeOK

\* A frame of the client moves credit from its windows to the wire.
LEMMA SendBooks ==
  ASSUME CreditInv, NEW i \in Items, i.n <= todo, SendItem(i)
  PROVE  CreditInv'
<1>1. /\ Parts /\ Rest /\ HandInv /\ StreamBooks /\ ConnBooks /\ ConnCreditConserved
      /\ ~ failed
  BY CreditParts
<1>2. wire \in Seq(Items) /\ wire' = Append(wire, i) /\ wire' \in Seq(Items) /\ wire' # <<>>
  BY <1>1, SMTT(30) DEF SendItem, Rest
<1>3. UNCHANGED <<stopped, updStream, updConn, readerVars, creditVars, streamVars>>
  BY DEF SendItem
<1>4. i.n \in Nat /\ i.len \in Nat /\ i.end \in BOOLEAN
  BY ItemType, ConstantsAssumption, SMTT(30)
<1>5. /\ todo' = todo - i.n /\ i.len <= peerStream /\ i.len <= peerConn
      /\ peerStream' = peerStream - i.len /\ peerConn' = peerConn - i.len
      /\ fin' = i.end
  BY DEF SendItem
<1>6. Uncounted' = Append(Uncounted, i) /\ Held' = Held
  <2>1. rpc' = rpc
    BY <1>3 DEF readerVars
  <2>2. CASE InHand
    <3>1. wire # <<>>
      BY <1>1, <2>2 DEF HandInv
    <3>2. Head(wire') = Head(wire) /\ Tail(wire') = Append(Tail(wire), i)
      BY <1>2, <3>1, SMTT(30)
    <3> QED BY <2>1, <2>2, <3>2 DEF Uncounted, Held, InHand
  <2>3. CASE ~ InHand
    BY <1>2, <2>1, <2>3 DEF Uncounted, Held, InHand
  <2> QED BY <2>2, <2>3
<1>7. InFlight' = InFlight + i.len /\ InFlight \in Nat
  BY <1>1, <1>6, Numbers, OctetsAppend DEF InFlight
<1>8. peerStream \in Nat /\ peerConn \in Nat /\ updStream \in Nat /\ updConn \in Nat
      /\ refund \in Nat /\ connRefund \in Nat /\ todo \in 0..Body
  BY <1>1 DEF Parts, Rest
<1>9. Parts'
  <2>1. peerStream' \in Nat /\ peerConn' \in Nat
    BY <1>4, <1>5, <1>8, SMTT(30)
  <2> QED BY <1>1, <1>3, <2>1 DEF Parts, readerVars, creditVars
<1>10. Rest'
  <2>1. todo' \in 0..Body
    BY <1>4, <1>5, <1>8, ConstantsAssumption, SMTT(30)
  <2> QED BY <1>1, <1>2, <1>3, <1>4, <1>5, <2>1 DEF Rest, readerVars, streamVars
<1>11. HandInv' /\ ~ failed'
  BY <1>1, <1>2, <1>3 DEF HandInv, InHand, readerVars, streamVars
<1>12. UNCHANGED <<live, recvWindow, recvRefundPending, refund, connRefund,
                   connRecvWindow, connRefundPending, events>>
  BY <1>3 DEF streamVars, creditVars, readerVars
<1>13. ConnPromised' = ConnPromised
  BY <1>3, <1>4, <1>5, <1>7, <1>8, <1>12, SMTT(30) DEF ConnPromised
<1>14. Promised' = Promised
  BY <1>3, <1>4, <1>5, <1>7, <1>8, <1>12, SMTT(30) DEF Promised
<1>15. Unrefunded' = Unrefunded
  BY <1>6, <1>12 DEF Unrefunded
<1>16. ConnCreditConserved' /\ ConnBooks' /\ StreamBooks'
  BY <1>1, <1>12, <1>13, <1>14, <1>15 DEF ConnCreditConserved, ConnBooks, StreamBooks, StreamCredit
<1> QED BY <1>9, <1>10, <1>11, <1>16 DEF CreditInv

\* A window update the client reads, and a reset.
LEMMA ClientBooks ==
  ASSUME CreditInv, GetStreamUpdate \/ GetConnUpdate \/ GetReset
  PROVE  CreditInv'
<1>1. /\ Parts /\ Rest /\ HandInv /\ StreamBooks /\ ConnBooks /\ ConnCreditConserved
      /\ ~ failed
  BY CreditParts
<1>2. UNCHANGED <<todo, fin, wire, readerVars, creditVars, streamVars>>
  BY DEF GetStreamUpdate, GetConnUpdate, GetReset, netVars
<1>3. stopped' \in BOOLEAN
  <2>1. stopped \in BOOLEAN
    BY <1>1 DEF Rest
  <2> QED BY <2>1, Zenon DEF GetStreamUpdate, GetConnUpdate, GetReset
<1>4. /\ updStream' \in Nat /\ peerStream' \in Nat
      /\ peerStream' + updStream' = peerStream + updStream
  <2>0. peerStream \in Nat /\ updStream \in Nat
    BY <1>1 DEF Parts
  <2>1. CASE peerStream' = peerStream + updStream /\ updStream' = 0
    BY <2>0, <2>1, SMTT(30)
  <2>2. CASE UNCHANGED <<peerStream, updStream>>
    BY <2>0, <2>2
  <2> QED BY <2>1, <2>2, Zenon DEF GetStreamUpdate, GetConnUpdate, GetReset, netVars
<1>5. /\ updConn' \in Nat /\ peerConn' \in Nat
      /\ peerConn' + updConn' = peerConn + updConn
  <2>0. peerConn \in Nat /\ updConn \in Nat
    BY <1>1 DEF Parts
  <2>1. CASE peerConn' = peerConn + updConn /\ updConn' = 0
    BY <2>0, <2>1, SMTT(30)
  <2>2. CASE UNCHANGED <<peerConn, updConn>>
    BY <2>0, <2>2
  <2> QED BY <2>1, <2>2, Zenon DEF GetStreamUpdate, GetConnUpdate, GetReset, netVars
<1>6. /\ UNCHANGED <<live, recvWindow, recvRefundPending, refund, connRefund,
                     connRecvWindow, connRefundPending, events, rpc, failed>>
      /\ InFlight' = InFlight /\ Held' = Held
  BY <1>2 DEF streamVars, creditVars, readerVars, InFlight, Uncounted, Held
<1>7. ConnPromised' = ConnPromised /\ Promised' = Promised /\ Unrefunded' = Unrefunded
  BY <1>4, <1>5, <1>6 DEF ConnPromised, Promised, Unrefunded
<1>8. Parts'
  BY <1>1, <1>4, <1>5, <1>6 DEF Parts
<1>9. Rest'
  BY <1>1, <1>2, <1>3 DEF Rest, readerVars, streamVars
<1>10. HandInv' /\ ~ failed'
  BY <1>1, <1>2, <1>6, SMTT(30) DEF HandInv, InHand, readerVars
<1>11. ConnCreditConserved' /\ ConnBooks' /\ StreamBooks'
  BY <1>1, <1>6, <1>7 DEF ConnCreditConserved, ConnBooks, StreamBooks, StreamCredit
<1> QED BY <1>8, <1>9, <1>10, <1>11 DEF CreditInv

\* The reader charges a frame to both windows.  There is room for it: it is part of
\* what the client was promised.
LEMMA FrameBooks ==
  ASSUME CreditInv, OnFrame
  PROVE  CreditInv'
<1> DEFINE e   == Head(wire)
           len == e.len
<1>1. /\ Parts /\ Rest /\ HandInv /\ StreamBooks /\ ConnBooks /\ ConnCreditConserved
      /\ ~ failed
  BY CreditParts
<1>2. /\ rpc = "read" /\ wire # <<>> /\ wire \in Seq(Items) /\ found' = live
      /\ UNCHANGED <<clientVars, netVars, recvRefundPending, refund, streamVars>>
  BY <1>1 DEF OnFrame, Rest
<1>3. /\ e \in Items /\ Lengths(wire) = len + Lengths(Tail(wire))
      /\ Tail(wire) \in Seq(Items) /\ Lengths(Tail(wire)) \in Nat
  BY <1>2, OctetsTail, OctetsNat
<1>4. /\ len \in Nat /\ e.n \in Nat /\ e.n <= len /\ (e.type # "data" => len = 0)
  BY <1>3, ItemType, ConstantsAssumption, SMTT(30)
<1> HIDE DEF e, len
<1>5. InFlight = Lengths(wire) /\ Held = 0
  BY <1>2 DEF InFlight, Uncounted, Held
<1>6. /\ peerConn \in Nat /\ updConn \in Nat /\ InFlight \in Nat /\ peerStream \in Nat
      /\ updStream \in Nat /\ refund \in Nat /\ recvRefundPending \in Nat
      /\ connRefundPending \in Nat /\ connRecvWindow \in Int /\ recvWindow \in Int
      /\ Octets(events) \in Nat
  BY <1>1, Numbers
<1>7. connRefund = 0
  BY <1>1, <1>2, SMTT(30) DEF Rest, Parts
<1>8. Promised \in Nat /\ InFlight <= Promised /\ ConnPromised \in Nat /\ InFlight <= ConnPromised
  BY <1>6, <1>7, SMTT(30) DEF Promised, ConnPromised
<1>9. len <= InFlight
  BY <1>3, <1>4, <1>5, SMTT(30)
<1>10. connRecvWindow >= len /\ (live => recvWindow >= len)
  BY <1>1, <1>4, <1>6, <1>8, <1>9, SMTT(30) DEF ConnBooks, StreamBooks
<1>11. /\ rpc' \in {"update", "push"} /\ (rpc' = "update" <=> connRefund' > 0)
       /\ connRefund' \in Nat /\ connRefundPending' \in 0..recvWindowRefundThreshold - 1
       /\ connRefund' + connRefundPending' = connRefundPending + len
       /\ connRecvWindow' = connRecvWindow - len + connRefund'
       /\ recvWindow' = (IF live THEN recvWindow - len ELSE recvWindow) /\ failed' = failed
  <2>1. CASE e.type = "data"
    <3>1. recvWindow' = (IF live THEN recvWindow - len ELSE recvWindow) /\ debitConn(len)
      BY <1>4, <1>6, <1>10, <2>1, SMTT(30) DEF OnFrame, onDataReceived, e, len
    <3> DEFINE pending == connRefundPending + len
    <3>2. pending \in Nat /\ recvWindowRefundThreshold \in Nat \ {0}
      BY <1>4, <1>6, ConstantsAssumption, SMTT(30)
    <3>3. CASE pending >= recvWindowRefundThreshold
      <4>1. /\ connRecvWindow' = connRecvWindow - len + pending /\ connRefundPending' = 0
            /\ connRefund' = pending /\ rpc' = "update" /\ failed' = failed
        BY <3>1, <3>3 DEF debitConn
      <4>2. pending > 0 /\ 0 \in 0..recvWindowRefundThreshold - 1 /\ pending + 0 = pending
        BY <3>2, <3>3, SMTT(30)
      <4> HIDE DEF pending
      <4>3. connRefundPending + len = pending
        BY DEF pending
      <4> QED BY <3>1, <3>2, <4>1, <4>2, <4>3
    <3>4. CASE ~ (pending >= recvWindowRefundThreshold)
      <4>1. /\ connRecvWindow' = connRecvWindow - len + 0 /\ connRefundPending' = pending
            /\ connRefund' = 0 /\ rpc' = "push" /\ failed' = failed
        BY <3>1, <3>4 DEF debitConn
      <4>2. pending \in 0..recvWindowRefundThreshold - 1 /\ 0 + pending = pending
        BY <3>2, <3>4, SMTT(30)
      <4> HIDE DEF pending
      <4>3. connRefundPending + len = pending
        BY DEF pending
      <4> QED BY <3>1, <3>2, <4>1, <4>2, <4>3, SMTT(30)
    <3> QED BY <3>3, <3>4
  <2>2. CASE e.type # "data"
    <3>1. /\ rpc' = "push" /\ len = 0
          /\ UNCHANGED <<recvWindow, connRefund, connRecvWindow, connRefundPending, failed>>
      BY <1>4, <2>2 DEF OnFrame, e
    <3>2. connRefundPending \in 0..recvWindowRefundThreshold - 1
      BY <1>1 DEF Parts
    <3> QED BY <1>6, <1>7, <3>1, <3>2, SMTT(30)
  <2> QED BY <2>1, <2>2
<1>12. UNCHANGED <<peerConn, updConn, peerStream, updStream, refund, recvRefundPending,
                   live, events, wire>>
  BY <1>2 DEF clientVars, netVars, streamVars
<1>13. InFlight' = InFlight - len /\ Held' = e.n
  BY <1>3, <1>4, <1>5, <1>11, <1>12, SMTT(30) DEF InFlight, Uncounted, Held, e
<1>14. ConnPromised' = ConnPromised - len + connRefund'
  BY <1>4, <1>6, <1>7, <1>11, <1>12, <1>13, SMTT(30) DEF ConnPromised
<1>15. Promised' = Promised - len
  BY <1>4, <1>6, <1>12, <1>13, SMTT(30) DEF Promised
<1>16. Unrefunded' = Unrefunded + e.n /\ Unrefunded \in Nat
  BY <1>4, <1>5, <1>6, <1>12, <1>13, SMTT(30) DEF Unrefunded
<1>17. ConnBooks' /\ ConnCreditConserved'
  <2>1. connRefundPending' \in Nat /\ connRefund' \in Nat
    BY <1>11, ConstantsAssumption, SMTT(30)
  <2>2. ConnPromised' + connRefundPending' = ConnPromised + connRefundPending
    <3>1. ConnPromised' + connRefundPending' = ConnPromised - len + (connRefund' + connRefundPending')
      BY <1>4, <1>8, <1>14, <2>1, SMTT(30)
    <3>2. ConnPromised - len + (connRefundPending + len) = ConnPromised + connRefundPending
      BY <1>4, <1>6, <1>8, SMTT(30)
    <3> QED BY <1>11, <3>1, <3>2
  <2>3. connRecvWindow' = ConnPromised'
    BY <1>1, <1>11, <1>14 DEF ConnBooks
  <2> QED BY <1>1, <2>2, <2>3 DEF ConnBooks, ConnCreditConserved
<1>18. StreamBooks'
  <2>1. live' => recvWindow' >= Promised'
    BY <1>1, <1>4, <1>6, <1>8, <1>11, <1>12, <1>15, SMTT(30) DEF StreamBooks
  <2>2. Promised' + Unrefunded' <= Promised + Unrefunded
    BY <1>4, <1>8, <1>15, <1>16, SMTT(30)
  <2>3. Promised' + Unrefunded' <= Window
    BY <1>1, <1>4, <1>8, <1>15, <1>16, <2>2, ConstantsAssumption, SMTT(30) DEF StreamBooks, StreamCredit
  <2> QED BY <2>1, <2>3 DEF StreamBooks, StreamCredit
<1>19. Parts'
  BY <1>1, <1>4, <1>6, <1>11, <1>12, ConstantsAssumption, SMTT(30) DEF Parts
<1>20. Rest'
  BY <1>1, <1>2, <1>11 DEF Rest, clientVars, netVars, streamVars
<1>21. HandInv' /\ ~ failed'
  BY <1>1, <1>2, <1>11, <1>12 DEF HandInv
<1> QED BY <1>17, <1>18, <1>19, <1>20, <1>21 DEF CreditInv

\* The WINDOW_UPDATE of the connection: what was about to be told is under way.
LEMMA ConnUpdateBooks ==
  ASSUME CreditInv, WriteConnUpdate
  PROVE  CreditInv'
<1>1. /\ Parts /\ Rest /\ HandInv /\ StreamBooks /\ ConnBooks /\ ConnCreditConserved
      /\ ~ failed
  BY CreditParts
<1>2. /\ rpc = "update" /\ rpc' = "push" /\ updConn' = updConn + connRefund /\ connRefund' = 0
      /\ UNCHANGED <<clientVars, wire, updStream, found, connRecvWindow, connRefundPending,
                     failed, creditVars, streamVars>>
  BY DEF WriteConnUpdate
<1>3. updConn \in Nat /\ connRefund \in Nat /\ peerConn \in Nat /\ InFlight \in Nat
  BY <1>1, Numbers
<1>4. UNCHANGED <<peerConn, peerStream, refund, recvRefundPending, recvWindow, live, events>>
  BY <1>2 DEF clientVars, creditVars, streamVars
<1>5. InFlight' = InFlight /\ Held' = Held
  BY <1>2 DEF InFlight, Uncounted, Held
<1>6. ConnPromised' = ConnPromised
  BY <1>2, <1>3, <1>4, <1>5, SMTT(30) DEF ConnPromised
<1>7. Promised' = Promised /\ Unrefunded' = Unrefunded
  BY <1>2, <1>4, <1>5 DEF Promised, Unrefunded
<1>8. Parts'
  BY <1>1, <1>2, <1>3, <1>4, SMTT(30) DEF Parts
<1>9. Rest'
  BY <1>1, <1>2, SMTT(30) DEF Rest, clientVars, streamVars
<1>10. HandInv' /\ ~ failed'
  BY <1>1, <1>2, <1>4 DEF HandInv, InHand
<1>11. ConnCreditConserved' /\ ConnBooks' /\ StreamBooks'
  BY <1>1, <1>2, <1>4, <1>6, <1>7 DEF ConnCreditConserved, ConnBooks, StreamBooks, StreamCredit
<1> QED BY <1>8, <1>9, <1>10, <1>11 DEF CreditInv

\* A step that touches the events and the stream's state only.
LEMMA EventBooks ==
  ASSUME CreditInv,
         UNCHANGED <<clientVars, updStream, updConn, connRefund, connRecvWindow,
                     connRefundPending, failed, creditVars>>,
         Rest', HandInv', InFlight' = InFlight, live' => live,
         Held' \in Nat, Octets(events)' \in Nat,
         Held' + Octets(events)' <= Held + Octets(events)
  PROVE  CreditInv'
<1>1. /\ Parts /\ Rest /\ HandInv /\ StreamBooks /\ ConnBooks /\ ConnCreditConserved
      /\ ~ failed
  BY CreditParts
<1>2. UNCHANGED <<peerConn, peerStream, refund, recvRefundPending, recvWindow>>
  BY DEF clientVars, creditVars
<1>3. /\ Held \in Nat /\ Octets(events) \in Nat /\ recvRefundPending \in Nat
      /\ Promised \in Nat /\ Unrefunded \in Nat
  BY <1>1, Numbers, BookTypes
<1>4. ConnPromised' = ConnPromised /\ Promised' = Promised
  BY <1>2 DEF ConnPromised, Promised
<1>5. Unrefunded' <= Unrefunded /\ Unrefunded' \in Nat
  BY <1>2, <1>3, SMTT(30) DEF Unrefunded
<1>6. StreamCredit' <= Window
  <2>1. Promised + Unrefunded <= Window
    BY <1>1 DEF StreamBooks, StreamCredit
  <2>2. Window \in Nat
    BY ConstantsAssumption
  <2>3. Promised \in Nat /\ Unrefunded \in Nat /\ Unrefunded' \in Nat /\ Unrefunded' <= Unrefunded
    BY <1>3, <1>5
  <2>4. Promised + Unrefunded' <= Window
    <3>1. \A p, u, v, w \in Nat : p + u <= w /\ v <= u => p + v <= w
      BY SMTT(30)
    <3> QED BY ONLY <2>1, <2>2, <2>3, <3>1, Zenon
  <2> QED BY <1>4, <2>4 DEF StreamCredit
<1>7. Parts'
  BY <1>1, <1>2 DEF Parts
<1>8. ConnCreditConserved' /\ ConnBooks' /\ StreamBooks' /\ ~ failed'
  BY <1>1, <1>2, <1>4, <1>6 DEF ConnCreditConserved, ConnBooks, StreamBooks
<1> QED BY <1>7, <1>8 DEF CreditInv

\* The reader hands a frame over, or drops it.
LEMMA PushBooks ==
  ASSUME CreditInv, Push
  PROVE  CreditInv'
<1> DEFINE e == Head(wire)
<1>1. Parts /\ Rest /\ HandInv
  BY CreditParts
<1>2. /\ rpc = "push" /\ wire' = Tail(wire) /\ wire # <<>>
      /\ wire \in Seq(Items) /\ events \in Seq(Items) /\ Len(events) <= EventBuffer
      /\ rpc' \in {"read", "overflow"}
      /\ UNCHANGED <<clientVars, updStream, updConn, found, connRefund, connRecvWindow,
                     connRefundPending, failed, creditVars>>
  BY <1>1 DEF Push, Rest, HandInv, InHand
<1>3. e \in Items /\ e.n \in Nat /\ Tail(wire) \in Seq(Items)
  BY <1>2, OctetsTail, ItemType, ConstantsAssumption, SMTT(30)
<1>4. Held = e.n /\ Held' = 0
  BY <1>2 DEF Held
<1>5. InFlight' = InFlight
  BY <1>2 DEF InFlight, Uncounted
<1> HIDE DEF e
<1>6. events' = events \/ (Len(events) # EventBuffer /\ events' = Append(events, e))
  BY DEF Push, streamVars, e
<1>7. /\ events' \in Seq(Items) /\ Len(events') <= EventBuffer
      /\ Octets(events) \in Nat /\ Octets(events') \in Nat
      /\ Octets(events') <= Octets(events) + e.n
  <2>1. CASE events' = events
    BY <1>2, <1>3, <2>1, OctetsNat, SMTT(30)
  <2>2. CASE Len(events) # EventBuffer /\ events' = Append(events, e)
    <3>1. events' \in Seq(Items) /\ Len(events') = Len(events) + 1 /\ Len(events) \in Nat
      BY <1>2, <1>3, <2>2, SMTT(30)
    <3>2. Octets(events') = Octets(events) + e.n
      BY <1>2, <1>3, <2>2, OctetsAppend
    <3>3. Octets(events) \in Nat
      BY <1>2, OctetsNat
    <3> QED BY <1>2, <1>3, <2>2, <3>1, <3>2, <3>3, ConstantsAssumption, SMTT(30)
  <2> QED BY <1>6, <2>1, <2>2
<1>8. /\ reset' \in BOOLEAN /\ rstOwed' \in BOOLEAN /\ live' \in BOOLEAN
      /\ dropped' \in BOOLEAN
  <2>1. /\ reset \in BOOLEAN /\ rstOwed \in BOOLEAN /\ live \in BOOLEAN
        /\ dropped \in BOOLEAN
    BY <1>1 DEF Rest
  <2> QED BY <2>1 DEF Push, streamVars
<1>9. live' => live
  BY DEF Push, streamVars
<1>10. Rest'
  BY <1>1, <1>2, <1>3, <1>7, <1>8 DEF Rest, clientVars
<1>11. HandInv'
  BY <1>2 DEF HandInv, InHand
<1>12. Held' + Octets(events)' <= Held + Octets(events) /\ Octets(events)' \in Nat /\ Held' \in Nat
  BY <1>3, <1>4, <1>7, SMTT(30)
<1> QED BY <1>2, <1>5, <1>9, <1>10, <1>11, <1>12, EventBooks

\* The EventReset of an overflow; the RST_STREAM of its goroutine; Close.
LEMMA ResetBooks ==
  ASSUME CreditInv, PushReset \/ OverflowRST \/ CloseStream
  PROVE  CreditInv'
<1>1. Parts /\ Rest /\ HandInv
  BY CreditParts
<1>2. UNCHANGED <<clientVars, updStream, updConn, connRefund, connRecvWindow,
                  connRefundPending, failed, creditVars, wire, found>>
  BY DEF PushReset, OverflowRST, CloseStream, netVars, readerVars
<1>3. (live' => live) /\ live' \in BOOLEAN /\ reset' \in BOOLEAN /\ rstOwed' \in BOOLEAN
      /\ dropped' \in BOOLEAN
  <2>1. /\ reset \in BOOLEAN /\ rstOwed \in BOOLEAN /\ live \in BOOLEAN
        /\ dropped \in BOOLEAN
    BY <1>1 DEF Rest
  <2>2. CASE PushReset
    BY <2>1, <2>2 DEF PushReset
  <2>3. CASE OverflowRST
    BY <2>1, <2>3 DEF OverflowRST
  <2>4. CASE CloseStream
    BY <2>1, <2>4 DEF CloseStream
  <2> QED BY <2>2, <2>3, <2>4
<1>4. rpc' = rpc \/ (rpc = "overflow" /\ rpc' = "read")
  BY DEF PushReset, OverflowRST, CloseStream, readerVars
<1>5. InFlight' = InFlight /\ Held' = Held
  BY <1>2, <1>4 DEF InFlight, Uncounted, Held
<1>6. events' = events \/ (Len(events) # EventBuffer /\ events' = Append(events, ResetItem))
  BY DEF PushReset, OverflowRST, CloseStream
<1>7. events \in Seq(Items) /\ Len(events) <= EventBuffer
  BY <1>1 DEF Rest
<1>8. /\ events' \in Seq(Items) /\ Len(events') <= EventBuffer
      /\ Octets(events') = Octets(events)
  <2>1. CASE Len(events) # EventBuffer /\ events' = Append(events, ResetItem)
    <3>1. events' \in Seq(Items) /\ Len(events') = Len(events) + 1 /\ Len(events) \in Nat
      BY <1>7, <2>1, ItemType, SMTT(30)
    <3>2. Octets(events') = Octets(events) + 0
      BY <1>7, <2>1, OctetsAppend, ItemType DEF ResetItem
    <3>3. Octets(events) \in Nat
      BY <1>7, OctetsNat
    <3> QED BY <1>7, <2>1, <3>1, <3>2, <3>3, ConstantsAssumption, SMTT(30)
  <2> QED BY <1>6, <1>7, <2>1
<1>9. Rest'
  BY <1>1, <1>2, <1>3, <1>4, <1>8 DEF Rest, clientVars
<1>10. HandInv'
  BY <1>1, <1>2, <1>3, <1>4 DEF HandInv, InHand
<1>11. Held \in Nat /\ Octets(events) \in Nat
  BY <1>1, Numbers
<1>12. Held' + Octets(events)' <= Held + Octets(events) /\ Held' \in Nat /\ Octets(events)' \in Nat
  BY <1>5, <1>8, <1>11, SMTT(30)
<1> QED BY <1>2, <1>3, <1>5, <1>9, <1>10, <1>12, EventBooks

\* The WINDOW_UPDATE of the stream: what was about to be told is under way.
LEMMA StreamUpdateBooks ==
  ASSUME CreditInv, WriteStreamUpdate
  PROVE  CreditInv'
<1>1. /\ Parts /\ Rest /\ HandInv /\ StreamBooks /\ ConnBooks /\ ConnCreditConserved
      /\ ~ failed
  BY CreditParts
<1>2. /\ updStream' = updStream + refund /\ refund' = 0
      /\ UNCHANGED <<clientVars, wire, updConn, readerVars, recvWindow, recvRefundPending,
                     streamVars>>
  BY DEF WriteStreamUpdate
<1>3. updStream \in Nat /\ refund \in Nat /\ peerStream \in Nat /\ InFlight \in Nat
  BY <1>1, Numbers
<1>4. UNCHANGED <<peerConn, peerStream, connRefund, connRecvWindow, connRefundPending, rpc,
                  found, failed, live, events>>
  BY <1>2 DEF clientVars, readerVars, streamVars
<1>5. InFlight' = InFlight /\ Held' = Held
  BY <1>2, <1>4 DEF InFlight, Uncounted, Held
<1>6. Promised' = Promised
  BY <1>2, <1>3, <1>4, <1>5, SMTT(30) DEF Promised
<1>7. ConnPromised' = ConnPromised /\ Unrefunded' = Unrefunded
  BY <1>2, <1>4, <1>5 DEF ConnPromised, Unrefunded
<1>8. Parts'
  BY <1>1, <1>2, <1>3, <1>4, SMTT(30) DEF Parts
<1>9. Rest'
  BY <1>1, <1>2 DEF Rest, clientVars, readerVars, streamVars
<1>10. HandInv' /\ ~ failed'
  BY <1>1, <1>2, <1>4 DEF HandInv, InHand
<1>11. ConnCreditConserved' /\ ConnBooks' /\ StreamBooks'
  BY <1>1, <1>2, <1>4, <1>6, <1>7 DEF ConnCreditConserved, ConnBooks, StreamBooks, StreamCredit
<1> QED BY <1>8, <1>9, <1>10, <1>11 DEF CreditInv

\* Recv takes an event.  Its octets stay part of the stream's credit, and the window is
\* raised by all that is refunded.
LEMMA TakeBooks ==
  ASSUME CreditInv, take
  PROVE  CreditInv'
<1> DEFINE n == Head(events).n
<1>1. /\ Parts /\ Rest /\ HandInv /\ StreamBooks /\ ConnBooks /\ ConnCreditConserved
      /\ ~ failed
  BY CreditParts
<1>2. /\ refund = 0 /\ events # <<>> /\ events' = Tail(events)
      /\ UNCHANGED <<clientVars, netVars, readerVars, reset, rstOwed, live, dropped>>
  BY DEF take
<1>3. events \in Seq(Items) /\ Len(events) <= EventBuffer
  BY <1>1 DEF Rest
<1>4. /\ events' \in Seq(Items) /\ Len(events') <= EventBuffer
      /\ Octets(events) = n + Octets(events') /\ Head(events) \in Items
      /\ Octets(events') \in Nat
  <2>1. Len(Tail(events)) = Len(events) - 1 /\ Len(events) \in Nat
    BY <1>2, <1>3, SMTT(30)
  <2>2. Len(Tail(events)) <= EventBuffer
    BY <1>3, <2>1, ConstantsAssumption, SMTT(30)
  <2>3. /\ Tail(events) \in Seq(Items) /\ Octets(events) = n + Octets(Tail(events))
        /\ Head(events) \in Items
    BY <1>2, <1>3, OctetsTail
  <2>4. Octets(Tail(events)) \in Nat
    BY <2>3, OctetsNat
  <2> QED BY <1>2, <2>2, <2>3, <2>4
<1>5. n \in Nat /\ (Head(events).type # "data" => n = 0)
  BY <1>4, ItemType, ConstantsAssumption, SMTT(30)
<1>6. /\ recvRefundPending \in Nat /\ recvWindow \in Int /\ peerStream \in Nat
      /\ updStream \in Nat /\ InFlight \in Nat /\ Held \in Nat
  BY <1>1, Numbers
<1>7. UNCHANGED <<peerConn, updConn, peerStream, updStream, connRefund, connRecvWindow,
                  connRefundPending, rpc, found, failed, wire>>
  BY <1>2 DEF clientVars, netVars, readerVars
<1>8. InFlight' = InFlight /\ Held' = Held /\ ConnPromised' = ConnPromised
  BY <1>7 DEF InFlight, Uncounted, Held, ConnPromised
<1> HIDE DEF n
<1>9. /\ recvRefundPending' \in 0..recvWindowRefundThreshold - 1 /\ refund' \in Nat
      /\ recvWindow' \in Int /\ recvWindow' >= recvWindow + refund'
      /\ refund' + recvRefundPending' <= recvRefundPending + n
  <2>1. CASE Head(events).type = "data" /\ n > 0
    <3> DEFINE pending == recvRefundPending + n
    <3>1. creditConsumed(n)
      BY <2>1 DEF take, n
    <3>2. pending \in Nat /\ recvWindowRefundThreshold \in Nat \ {0}
      BY <1>5, <1>6, ConstantsAssumption, SMTT(30)
    <3>3. CASE pending >= recvWindowRefundThreshold
      <4>1. /\ recvWindow' = recvWindow + pending /\ recvRefundPending' = 0
            /\ refund' = pending \/ refund' = 0
        BY <3>1, <3>3 DEF creditConsumed
      <4> QED BY <1>5, <1>6, <3>2, <4>1, SMTT(30)
    <3>4. CASE ~ (pending >= recvWindowRefundThreshold)
      <4>1. recvWindow' = recvWindow /\ recvRefundPending' = pending /\ refund' = 0
        BY <3>1, <3>4 DEF creditConsumed
      <4> QED BY <1>5, <1>6, <3>2, <3>4, <4>1, SMTT(30)
    <3> QED BY <3>3, <3>4
  <2>2. CASE ~ (Head(events).type = "data" /\ n > 0)
    <3>1. UNCHANGED <<recvWindow, recvRefundPending, refund>> /\ n = 0
      BY <1>5, <2>2, SMTT(30) DEF take, creditVars, n
    <3>2. recvRefundPending \in 0..recvWindowRefundThreshold - 1
      BY <1>1 DEF Parts
    <3> QED BY <1>2, <1>6, <3>1, <3>2, SMTT(30)
  <2> QED BY <2>1, <2>2
<1>10. /\ recvRefundPending' \in Nat /\ Promised \in Nat /\ Unrefunded \in Nat
  BY <1>1, <1>9, BookTypes, ConstantsAssumption, SMTT(30)
<1>11. Promised' = Promised + refund'
  BY <1>2, <1>6, <1>7, <1>8, <1>9, SMTT(30) DEF Promised
<1>12. Unrefunded' \in Nat /\ Unrefunded' + refund' <= Unrefunded
  <2>1. Unrefunded = Held + n + Octets(events') + recvRefundPending
    BY <1>4, <1>5, <1>6, SMTT(30) DEF Unrefunded
  <2>2. Unrefunded' = Held + Octets(events') + recvRefundPending'
    BY <1>8 DEF Unrefunded
  <2>3. \A h, o, a, b, c, d \in Nat : /\ h + o + b \in Nat
                                      /\ c + b <= a + d => h + o + b + c <= h + d + o + a
    BY SMTT(30)
  <2> QED BY <1>4, <1>5, <1>6, <1>9, <1>10, <2>1, <2>2, <2>3
<1>13. StreamBooks'
  <2>1. (live => recvWindow >= Promised) /\ Promised + Unrefunded <= Window
    BY <1>1 DEF StreamBooks, StreamCredit
  <2>2. live' => recvWindow' >= Promised'
    <3>1. \A a, b \in Int, p, r \in Nat : a >= p /\ b >= a + r => b >= p + r
      BY SMTT(30)
    <3> QED BY <1>2, <1>6, <1>9, <1>10, <1>11, <2>1, <3>1, Zenon
  <2>3. \A p, u, v, r, w \in Nat : p + u <= w /\ v + r <= u => (p + r) + v <= w
    BY SMTT(30)
  <2>4. Window \in Nat
    BY ConstantsAssumption
  <2>5. (Promised + refund') + Unrefunded' <= Window
    BY <1>9, <1>10, <1>12, <2>1, <2>3, <2>4, Zenon
  <2> QED BY <1>11, <2>2, <2>5 DEF StreamBooks, StreamCredit
<1>14. Parts'
  BY <1>1, <1>7, <1>9 DEF Parts
<1>15. Rest'
  BY <1>1, <1>2, <1>4 DEF Rest, clientVars, netVars, readerVars
<1>16. HandInv' /\ ~ failed' /\ ConnBooks' /\ ConnCreditConserved'
  BY <1>1, <1>2, <1>7, <1>8 DEF HandInv, InHand, ConnBooks, ConnCreditConserved
<1> QED BY <1>13, <1>14, <1>15, <1>16 DEF CreditInv

\* The frames a client sends.
LEMMA SendFrames ==
  ASSUME CreditInv, Send \/ Abort
  PROVE  \E i \in Items : /\ i.n <= todo /\ (i.end /\ i.type # "reset" => i.n = todo)
                          /\ SendItem(i)
<1>1. todo \in Nat
  BY CreditParts, ConstantsAssumption, SMTT(30) DEF Rest
<1>2. CASE Abort
  BY <1>1, <1>2, ItemType, SMTT(30) DEF Abort, ResetItem
<1>3. ASSUME NEW n \in 0..todo, NEW pad \in Paddings, NEW end \in BOOLEAN,
             n + pad <= MaxFrame, end => n = todo,
             SendItem([type |-> "data", len |-> n + pad, n |-> n, end |-> end])
      PROVE  \E i \in Items : /\ i.n <= todo /\ (i.end /\ i.type # "reset" => i.n = todo)
                              /\ SendItem(i)
  <2> DEFINE i == [type |-> "data", len |-> n + pad, n |-> n, end |-> end]
  <2>1. n \in Nat /\ pad \in Nat /\ n <= todo
    BY <1>1, ConstantsAssumption, SMTT(30)
  <2>2. n \in 0..MaxFrame /\ n + pad \in 0..MaxFrame /\ n <= n + pad
    BY <1>3, <2>1, ConstantsAssumption, SMTT(30)
  <2>3. i \in Items
    BY <2>2 DEF Items
  <2> QED BY <1>3, <2>1, <2>3
<1>4. ASSUME todo = 0, SendItem([type |-> "trailers", len |-> 0, n |-> 0, end |-> TRUE])
      PROVE  \E i \in Items : /\ i.n <= todo /\ (i.end /\ i.type # "reset" => i.n = todo)
                              /\ SendItem(i)
  <2> DEFINE i == [type |-> "trailers", len |-> 0, n |-> 0, end |-> TRUE]
  <2>1. i \in Items
    BY ConstantsAssumption, SMTT(30) DEF Items
  <2> QED BY <1>4, <2>1, SMTT(30)
<1> QED BY <1>2, <1>3, <1>4 DEF Send

\* The books before any frame.
LEMMA InitBooks ==
  ASSUME Init
  PROVE  CreditInv
<1>1. RecvInit
  BY DEF Init
<1>2. InFlight = 0 /\ Held = 0 /\ Octets(events) = 0 /\ ~ InHand
  BY <1>1, OctetsEmpty DEF RecvInit, InFlight, Uncounted, Held, InHand
<1>3. Parts
  BY <1>1, ConstantsAssumption, SMTT(30) DEF RecvInit, Parts
<1>4. Rest
  <2>1. wire \in Seq(Items) /\ events \in Seq(Items) /\ Len(events) <= EventBuffer
    BY <1>1, ConstantsAssumption, SMTT(30) DEF RecvInit
  <2>2. todo \in 0..Body /\ (rpc = "update" <=> connRefund > 0)
    BY <1>1, ConstantsAssumption, SMTT(30) DEF RecvInit
  <2> QED BY <1>1, <2>1, <2>2 DEF RecvInit, Rest
<1>5. ConnPromised = ConnWindow
  BY <1>1, <1>2, ConstantsAssumption, SMTT(30) DEF RecvInit, ConnPromised
<1>6. Promised = Window
  BY <1>1, <1>2, ConstantsAssumption, SMTT(30) DEF RecvInit, Promised
<1>7. Unrefunded = 0
  BY <1>1, <1>2, SMTT(30) DEF RecvInit, Unrefunded
<1>8. ConnBooks /\ ConnCreditConserved /\ ~ failed
  BY <1>1, <1>5, ConstantsAssumption, SMTT(30) DEF RecvInit, ConnBooks, ConnCreditConserved
<1>9. StreamBooks
  BY <1>1, <1>6, <1>7, ConstantsAssumption, SMTT(30) DEF RecvInit, StreamBooks, StreamCredit
<1> QED BY <1>2, <1>3, <1>4, <1>8, <1>9 DEF CreditInv, HandInv

LEMMA SameBooks ==
  ASSUME CreditInv, UNCHANGED recvVars
  PROVE  CreditInv'
<1>1. UNCHANGED <<clientVars, netVars, readerVars, creditVars, streamVars>>
  BY DEF recvVars
<1>2. UNCHANGED <<todo, fin, peerStream, peerConn, stopped, wire, updStream, updConn, rpc,
                  found, connRefund, connRecvWindow, connRefundPending, failed, recvWindow,
                  recvRefundPending, refund, events, reset, rstOwed, live, dropped>>
  BY <1>1 DEF clientVars, netVars, readerVars, creditVars, streamVars
<1>3. InFlight' = InFlight /\ Held' = Held
  BY <1>2 DEF InFlight, Uncounted, Held
<1>4. ConnPromised' = ConnPromised /\ Promised' = Promised /\ Unrefunded' = Unrefunded
  BY <1>2, <1>3 DEF ConnPromised, Promised, Unrefunded
<1>5. Parts' /\ Rest' /\ HandInv' /\ ~ failed'
  BY <1>2, CreditParts DEF Parts, Rest, HandInv, InHand
<1>6. ConnCreditConserved' /\ ConnBooks' /\ StreamBooks'
  BY <1>2, <1>4, CreditParts DEF ConnCreditConserved, ConnBooks, StreamBooks, StreamCredit
<1> QED BY <1>5, <1>6 DEF CreditInv

LEMMA NextBooks ==
  ASSUME CreditInv, [Next]_vars
  PROVE  CreditInv'
<1>1. CASE Send \/ Abort
  <2>1. PICK i \in Items : i.n <= todo /\ SendItem(i)
    BY <1>1, SendFrames
  <2> QED BY <2>1, SendBooks
<1>2. CASE GetStreamUpdate \/ GetConnUpdate \/ GetReset
  BY <1>2, ClientBooks
<1>3. CASE Reader
  BY <1>3, FrameBooks, ConnUpdateBooks, PushBooks, ResetBooks DEF Reader
<1>4. CASE OverflowRST \/ WriteStreamUpdate
  BY <1>4, ResetBooks, StreamUpdateBooks
<1>5. CASE take
  BY <1>5, TakeBooks
<1>6. CASE HandlerCloses
  BY <1>6, ResetBooks DEF HandlerCloses
<1>7. CASE UNCHANGED recvVars
  BY <1>7, SameBooks
<1>8. CASE Handler
  <2>1. take \/ UNCHANGED recvVars
    BY <1>8 DEF Handler, Reading, Read, ReadEvent, RecvWaits, RecvFails, BufferEvent
  <2> QED BY <1>5, <1>7, <2>1
<1>9. CASE CloseBody \/ Finished \/ UNCHANGED vars
  BY <1>7, <1>9 DEF CloseBody, Finished, vars
<1> QED BY <1>1, <1>2, <1>3, <1>4, <1>6, <1>8, <1>9 DEF Next, Client

\* conn/server_ops.go, onDataReceived: a client that keeps to its windows is never charged
\* with FLOW_CONTROL_ERROR, whatever the window, the refund threshold and the padding, and
\* every credit stays within the window it is part of.
THEOREM NoFalseCharge == Spec => []NoFalseFlowError
<1>1. Init => CreditInv
  BY InitBooks
<1>2. CreditInv /\ [Next]_vars => CreditInv'
  BY NextBooks
<1>3. CreditInv => NoFalseFlowError
  BY PartsBounded DEF CreditInv, NoFalseFlowError
<1> QED BY <1>1, <1>2, <1>3, PTL DEF Spec

\* onDataReceived and writeWindowUpdate: no credit of the connection is lost, whatever
\* becomes of the stream whose frames used it.
THEOREM ConnCreditKept == Spec => []ConnCreditConserved
<1>1. Init => CreditInv
  BY InitBooks
<1>2. CreditInv /\ [Next]_vars => CreditInv'
  BY NextBooks
<1>3. CreditInv => ConnCreditConserved
  BY DEF CreditInv
<1> QED BY <1>1, <1>2, <1>3, PTL DEF Spec

-----------------------------------------------------------------------------
(* The body *)

LEMMA BodyTypes ==
  ASSUME CreditInv, HandlerInv
  PROVE  /\ todo \in Nat /\ Octets(wire) \in Nat /\ Octets(events) \in Nat /\ Body \in Nat
         /\ Taken \in Int /\ delivered \in Nat /\ buf \in Nat /\ total \in Nat
         /\ Given \in Nat /\ limit \in Int
<1>1. todo \in Nat /\ Octets(wire) \in Nat /\ Octets(events) \in Nat /\ Body \in Nat
  BY CreditParts, Numbers, ConstantsAssumption
<1>2. delivered \in Nat /\ buf \in Nat /\ total \in Nat /\ limit \in Int
  BY DEF HandlerInv
<1>3. Taken \in Int
  BY <1>1, SMTT(30) DEF Taken
<1>4. Given \in Nat
  BY <1>2, SMTT(30) DEF Given
<1> QED BY <1>1, <1>2, <1>3, <1>4

\* A step that moves no octet and reports no end.
LEMMA QuietBody ==
  ASSUME BodyInv,
         UNCHANGED <<todo, fin, wire, events, dropped>>,
         UNCHANGED <<streaming, limit, buf, done, total, delivered, result>>,
         hpc' = hpc \/ hpc' = "over",
         Joined' => Joined
  PROVE  UploadInv'
<1>1. LastInv /\ HandlerInv /\ EndInv /\ ReadInv
  BY DEF BodyInv, UploadInv
<1>2. Taken' = Taken /\ Given' = Given /\ (Open' <=> Open) /\ (EndBuffered' <=> EndBuffered)
      /\ Octets(events)' = Octets(events)
  BY DEF Taken, Given, Open, EndBuffered, EndAt
<1>3. LastInv'
  BY <1>1 DEF LastInv
<1>4. EndInv'
  BY <1>1 DEF EndInv, EndAt
<1>5. HandlerInv'
  BY <1>1 DEF HandlerInv
<1>6. ReadInv'
  BY <1>1, <1>2 DEF ReadInv
<1> QED BY <1>3, <1>4, <1>5, <1>6 DEF UploadInv

\* A frame of the client: its octets are on the wire, and nothing was after the end.
LEMMA SendBody ==
  ASSUME BodyInv, CreditInv', UNCHANGED bodyVars, NEW i \in Items, i.n <= todo,
         i.end /\ i.type # "reset" => i.n = todo, SendItem(i)
  PROVE  UploadInv'
<1>1. CreditInv /\ LastInv /\ HandlerInv /\ EndInv /\ ReadInv
  BY DEF BodyInv, UploadInv
<1>2. /\ ~ fin /\ wire' = Append(wire, i) /\ todo' = todo - i.n /\ fin' = i.end
      /\ UNCHANGED <<rpc, found, events, live, dropped>>
  BY DEF SendItem, readerVars, streamVars
<1>3. wire \in Seq(Items) /\ i.n \in Nat
  BY <1>1, CreditParts, ItemType, ConstantsAssumption, SMTT(30) DEF Rest
<1>4. todo \in Nat /\ Octets(wire) \in Nat /\ Octets(events) \in Nat /\ Body \in Nat
  BY <1>1, BodyTypes
<1>5. Octets(wire') = Octets(wire) + i.n
  BY <1>2, <1>3, OctetsAppend
<1>6. UNCHANGED <<streaming, limit, hpc, buf, done, total, delivered, result>>
  BY DEF bodyVars
<1>7. Taken' = Taken
  <2>1. \A b, t, w, e, n \in Nat : b - (t - n) - (w + n) - e = b - t - w - e
    BY SMTT(30)
  <2>2. Taken' = Body - (todo - i.n) - (Octets(wire) + i.n) - Octets(events)
    BY <1>2, <1>5 DEF Taken
  <2>3. Taken = Body - todo - Octets(wire) - Octets(events)
    BY DEF Taken
  <2>4. Body - (todo - i.n) - (Octets(wire) + i.n) - Octets(events)
          = Body - todo - Octets(wire) - Octets(events)
    BY <1>3, <1>4, <2>1, SMTT(30)
  <2> QED BY <2>2, <2>3, <2>4
<1>8. /\ Given' = Given /\ (Open' <=> Open) /\ (Joined' <=> Joined)
      /\ (EndBuffered' <=> EndBuffered) /\ Octets(events)' = Octets(events)
  BY <1>2, <1>6 DEF Given, Open, Joined, InHand, EndBuffered, EndAt
<1>9. LastInv'
  <2>1. \A j \in DOMAIN wire : ~ wire[j].end
    BY <1>1, <1>2 DEF LastInv
  <2>2. /\ DOMAIN wire' = 1..Len(wire) + 1 /\ Len(wire') = Len(wire) + 1 /\ Len(wire) \in Nat
        /\ DOMAIN wire = 1..Len(wire)
        /\ \A j \in 1..Len(wire) : wire'[j] = wire[j]
        /\ wire'[Len(wire) + 1] = i
    BY <1>2, <1>3, SMTT(30)
  <2>3. i.end /\ i.type # "reset" => todo' = 0
    BY <1>2, <1>3, <1>4, SMTT(30)
  <2>4. SUFFICES ASSUME NEW j \in DOMAIN wire', wire'[j].end
                 PROVE  /\ j = Len(wire') /\ fin'
                        /\ (wire'[j].type # "reset" => todo' = 0)
    BY DEF LastInv
  <2>5. j = Len(wire) + 1
    BY <2>1, <2>2, <2>4, SMTT(30)
  <2> QED BY <1>2, <2>2, <2>3, <2>4, <2>5
<1>10. EndInv'
  BY <1>1, <1>2 DEF EndInv, EndAt
<1>11. HandlerInv'
  BY <1>1, <1>6 DEF HandlerInv
<1>12. ReadInv'
  BY <1>1, <1>2, <1>6, <1>7, <1>8 DEF ReadInv
<1> QED BY <1>9, <1>10, <1>11, <1>12 DEF UploadInv

\* The reader hands a frame over.  The stream took frames, so that nothing is missing before
\* it; and if it is the end, it is the last.
LEMMA PushBody ==
  ASSUME BodyInv, CreditInv', UNCHANGED bodyVars, Push
  PROVE  UploadInv'
<1> DEFINE e    == Head(wire)
           full == Len(events) = EventBuffer
<1>1. CreditInv /\ LastInv /\ HandlerInv /\ EndInv /\ ReadInv
  BY DEF BodyInv, UploadInv
<1>2. /\ rpc = "push" /\ wire' = Tail(wire) /\ wire # <<>> /\ InHand
      /\ wire \in Seq(Items) /\ events \in Seq(Items) /\ (live => found)
      /\ rpc' \in {"read", "overflow"} /\ ~ InHand'
      /\ UNCHANGED <<todo, fin, found>>
  BY <1>1, CreditParts DEF Push, Rest, HandInv, InHand, clientVars
<1>3. UNCHANGED <<streaming, limit, hpc, buf, done, total, delivered, result>>
  BY DEF bodyVars
<1>4. /\ e \in Items /\ Tail(wire) \in Seq(Items) /\ Octets(wire) = e.n + Octets(wire')
      /\ Octets(wire') \in Nat
  BY <1>2, OctetsTail, OctetsNat
<1>5. e.n \in Nat /\ (e.type = "reset" => e.n = 0) /\ e.end \in BOOLEAN
  BY <1>4, ItemType, ConstantsAssumption, SMTT(30)
<1>6. /\ todo \in Nat /\ Octets(events) \in Nat /\ Body \in Nat /\ Given \in Nat
      /\ Taken \in Int /\ limit \in Int
  BY <1>1, BodyTypes
<1>7. ~ EndBuffered
  BY <1>1, <1>2 DEF EndInv, EndBuffered
<1>8. /\ Len(wire) \in Nat \ {0} /\ DOMAIN wire = 1..Len(wire) /\ e = wire[1]
      /\ DOMAIN wire' = 1..Len(wire) - 1 /\ Len(wire') = Len(wire) - 1
      /\ \A j \in 1..Len(wire) - 1 : wire'[j] = wire[j + 1]
  BY <1>2, SMTT(30)
<1>9. e.end => wire' = <<>> /\ fin /\ (e.type # "reset" => todo = 0)
  <2>1. e.end => 1 = Len(wire) /\ fin /\ (e.type # "reset" => todo = 0)
    BY <1>1, <1>8, SMTT(30) DEF LastInv
  <2>2. Len(wire) = 1 => Tail(wire) = <<>>
    BY <1>2, SMTT(30)
  <2> QED BY <1>2, <2>1, <2>2
<1> HIDE DEF e
<1>10. \/ events' = events /\ (~ dropped' => ~ dropped /\ ~ live')
       \/ events' = Append(events, e) /\ found /\ dropped' = dropped /\ (live' => live)
  <2>1. CASE ~ found
    BY <1>2, <2>1 DEF Push, streamVars
  <2>2. CASE found /\ full
    <3>1. /\ events' = events /\ dropped' = (dropped \/ e.type # "reset")
          /\ live' = (live /\ e.type # "reset")
      BY <2>2 DEF Push, e
    <3> QED BY <3>1
  <2>3. CASE found /\ ~ full
    <3>1. dropped \in BOOLEAN
      BY <1>1, CreditParts DEF Rest
    <3>2. /\ events' = Append(events, e) /\ dropped' = (dropped \/ FALSE)
          /\ live' = (live /\ e.type # "reset")
      BY <2>3 DEF Push, e
    <3> QED BY <2>3, <3>1, <3>2
  <2> QED BY <2>1, <2>2, <2>3
<1>11. LastInv'
  <2>1. SUFFICES ASSUME NEW j \in DOMAIN wire', wire'[j].end
                 PROVE  /\ j = Len(wire') /\ fin'
                        /\ (wire'[j].type # "reset" => todo' = 0)
    BY DEF LastInv
  <2>2. j + 1 \in DOMAIN wire /\ wire'[j] = wire[j + 1]
    BY <1>8, SMTT(30)
  <2>3. j + 1 = Len(wire) /\ fin /\ (wire[j + 1].type # "reset" => todo = 0)
    BY <1>1, <2>1, <2>2 DEF LastInv
  <2> QED BY <1>2, <1>8, <2>2, <2>3, SMTT(30)
<1>12. HandlerInv'
  BY <1>1, <1>3 DEF HandlerInv
<1>13. Given' = Given
  BY <1>3 DEF Given
<1>14. Taken' >= Taken /\ Taken' \in Int
  <2>1. Octets(events') \in Nat /\ Octets(events') <= Octets(events) + e.n
    <3>1. CASE events' = events
      BY <1>5, <1>6, <3>1, SMTT(30)
    <3>2. CASE events' = Append(events, e)
      <4>1. Octets(events') = Octets(events) + e.n
        BY <1>2, <1>4, <3>2, OctetsAppend DEF e
      <4> QED BY <1>5, <1>6, <4>1, SMTT(30)
    <3> QED BY <1>10, <3>1, <3>2
  <2>2. Taken' = Body - todo - Octets(wire') - Octets(events')
    BY <1>2 DEF Taken
  <2>3. Taken = Body - todo - (e.n + Octets(wire')) - Octets(events)
    BY <1>4 DEF Taken
  <2>4. \A b, t, n, w, v, x \in Nat :
          x <= v + n => b - t - w - x >= b - t - (n + w) - v /\ b - t - w - x \in Int
    BY SMTT(30)
  <2> QED BY <1>4, <1>5, <1>6, <2>1, <2>2, <2>3, <2>4, Zenon
<1>15. CASE events' = Append(events, e) /\ found /\ dropped' = dropped /\ (live' => live)
  <2>1. Octets(events') = Octets(events) + e.n
    BY <1>2, <1>4, <1>15, OctetsAppend DEF e
  <2>2. Taken' = Taken
    <3>1. Taken' = Body - todo - Octets(wire') - (Octets(events) + e.n)
      BY <1>2, <2>1 DEF Taken
    <3>2. Taken = Body - todo - (e.n + Octets(wire')) - Octets(events)
      BY <1>4 DEF Taken
    <3>3. \A b, t, n, w, v \in Nat : b - t - w - (v + n) = b - t - (n + w) - v
      BY SMTT(30)
    <3>4. Body - todo - Octets(wire') - (Octets(events) + e.n)
            = Body - todo - (e.n + Octets(wire')) - Octets(events)
      BY <1>4, <1>5, <1>6, <3>3, SMTT(30)
    <3> QED BY <3>1, <3>2, <3>4
  <2>3. /\ DOMAIN events' = 1..Len(events) + 1 /\ Len(events) \in Nat
        /\ DOMAIN events = 1..Len(events) /\ events'[Len(events) + 1] = e
        /\ \A j \in 1..Len(events) : events'[j] = events[j]
    BY <1>2, <1>4, <1>15, SMTT(30) DEF e
  <2>4. \A j \in DOMAIN events' : EndAt(j)' => j = Len(events) + 1 /\ e.end /\ e.type # "reset"
    <3>1. \A j \in DOMAIN events' : j # Len(events) + 1 => j \in DOMAIN events /\ events'[j] = events[j]
      BY <2>3, SMTT(30)
    <3> QED BY <1>7, <2>3, <3>1 DEF EndBuffered, EndAt
  <2>5. EndInv'
    <3>1. \A j, k \in DOMAIN events' : j = Len(events) + 1 => ~ (k > j)
      BY <2>3, SMTT(30)
    <3> QED BY <1>2, <1>9, <2>4, <3>1 DEF EndInv
  <2>6. Open' <=> Open
    BY <1>3, <1>15 DEF Open
  <2>7. Joined
    BY <1>2, <1>15 DEF Joined
  <2>8. Open' /\ EndBuffered' => Given' + Octets(events)' = Body
    <3>1. SUFFICES ASSUME Open', EndBuffered'
                   PROVE  Given' + Octets(events') = Body
      OBVIOUS
    <3>2. e.end /\ e.type # "reset"
      BY <2>4, <3>1 DEF EndBuffered
    <3>3. todo = 0 /\ Octets(wire') = 0
      BY <1>9, <3>2, OctetsEmpty
    <3>4. Given = Body - 0 - (e.n + 0) - Octets(events)
      BY <1>1, <1>4, <2>6, <2>7, <3>1, <3>3 DEF ReadInv, Taken
    <3>5. \A b, n, v \in Nat : (b - 0 - (n + 0) - v) + (v + n) = b
      BY SMTT(30)
    <3>6. (Body - 0 - (e.n + 0) - Octets(events)) + (Octets(events) + e.n) = Body
      BY <1>5, <1>6, <3>5, Zenon
    <3> QED BY <1>13, <2>1, <3>4, <3>6
  <2>9. ReadInv'
    BY <1>1, <1>3, <1>13, <1>15, <2>2, <2>6, <2>7, <2>8 DEF ReadInv
  <2> QED BY <1>11, <1>12, <2>5, <2>9 DEF UploadInv
<1>16. CASE events' = events
  <2>1. ~ EndBuffered' /\ EndInv'
    BY <1>7, <1>16 DEF EndBuffered, EndInv, EndAt
  <2>2. ~ dropped' => ~ dropped /\ ~ Joined'
    BY <1>2, <1>10, <1>16, SMTT(30) DEF Joined
  <2>3. ReadInv'
    BY <1>1, <1>3, <1>6, <1>13, <1>14, <2>1, <2>2, SMTT(30) DEF ReadInv, Open
  <2> QED BY <1>11, <1>12, <2>1, <2>3 DEF UploadInv
<1> QED BY <1>10, <1>15, <1>16

\* The EventReset of an overflow has no octets and is no end of the body.
LEMMA PushResetBody ==
  ASSUME BodyInv, CreditInv', UNCHANGED bodyVars, PushReset
  PROVE  UploadInv'
<1>1. CreditInv /\ LastInv /\ HandlerInv /\ EndInv /\ ReadInv
  BY DEF BodyInv, UploadInv
<1>2. UNCHANGED <<todo, fin, wire, dropped, live, found>> /\ ~ InHand'
  BY DEF PushReset, clientVars, netVars, InHand
<1>3. UNCHANGED <<streaming, limit, hpc, buf, done, total, delivered, result>>
  BY DEF bodyVars
<1>4. events' = events \/ events' = Append(events, ResetItem)
  BY DEF PushReset
<1>5. Joined' => Joined
  BY <1>2 DEF Joined
<1>6. CASE events' = events
  BY <1>2, <1>3, <1>5, <1>6, QuietBody
<1>7. CASE events' = Append(events, ResetItem)
  <2>1. events \in Seq(Items) /\ ResetItem \in Items /\ Octets(events) \in Nat
    BY <1>1, CreditParts, ItemType, BodyTypes DEF Rest
  <2>2. Octets(events') = Octets(events)
    <3>1. Octets(events') = Octets(events) + 0
      BY <1>7, <2>1, OctetsAppend DEF ResetItem
    <3> QED BY <2>1, <3>1, SMTT(30)
  <2>3. /\ DOMAIN events' = 1..Len(events) + 1 /\ Len(events) \in Nat
        /\ DOMAIN events = 1..Len(events) /\ events'[Len(events) + 1] = ResetItem
        /\ \A j \in 1..Len(events) : events'[j] = events[j]
    BY <1>7, <2>1, SMTT(30)
  <2>4. \A j \in DOMAIN events' :
          \/ j \in DOMAIN events /\ events'[j] = events[j] /\ (EndAt(j)' <=> EndAt(j))
          \/ j = Len(events) + 1 /\ events'[j].n = 0 /\ ~ EndAt(j)'
    BY <2>3, SMTT(30) DEF EndAt, ResetItem
  <2>5. EndInv'
    BY <1>1, <1>2, <2>4 DEF EndInv
  <2>6. /\ Taken' = Taken /\ Given' = Given /\ (Open' <=> Open)
        /\ (EndBuffered' => EndBuffered)
    BY <1>2, <1>3, <2>2, <2>4 DEF Taken, Given, Open, EndBuffered
  <2>7. LastInv' /\ HandlerInv'
    BY <1>1, <1>2, <1>3 DEF LastInv, HandlerInv
  <2>8. ReadInv'
    BY <1>1, <1>2, <1>3, <1>5, <2>2, <2>6 DEF ReadInv
  <2> QED BY <2>5, <2>7, <2>8 DEF UploadInv
<1> QED BY <1>4, <1>6, <1>7

\* A step of the goroutine between two events.
LEMMA BetweenEvents ==
  ASSUME BodyInv, UNCHANGED recvVars
  PROVE  /\ LastInv' /\ EndInv' /\ Taken' = Taken /\ Octets(events)' = Octets(events)
         /\ (EndBuffered' <=> EndBuffered) /\ (Joined' <=> Joined) /\ dropped' = dropped
<1>1. UNCHANGED <<todo, fin, wire, rpc, found, events, live, dropped>>
  BY DEF recvVars, clientVars, netVars, readerVars, streamVars
<1>2. LastInv /\ EndInv
  BY DEF BodyInv, UploadInv
<1>3. LastInv' /\ EndInv'
  BY <1>1, <1>2 DEF LastInv, EndInv, EndAt
<1>4. Taken' = Taken /\ Octets(events)' = Octets(events)
  BY <1>1 DEF Taken
<1> QED BY <1>1, <1>3, <1>4 DEF EndBuffered, EndAt, Joined, InHand

\* Read, without an event: of what is left over, of the end, or on to Recv.
LEMMA ReadBody ==
  ASSUME BodyInv, NEW p \in ReadSizes, Read(p)
  PROVE  UploadInv'
<1>1. CreditInv /\ HandlerInv /\ ReadInv
  BY DEF BodyInv, UploadInv
<1>2. UNCHANGED <<recvVars, streaming, limit, done, total>> /\ hpc = "idle" /\ streaming
  BY DEF Read
<1>3. /\ LastInv' /\ EndInv' /\ Taken' = Taken /\ Octets(events)' = Octets(events)
      /\ (EndBuffered' <=> EndBuffered) /\ (Joined' <=> Joined) /\ dropped' = dropped
  BY <1>2, BetweenEvents
<1>4. delivered \in Nat /\ buf \in Nat /\ total \in Nat /\ p \in Nat
  BY <1>1, BodyTypes, BodyAssumption
<1>5. ASSUME buf > 0, UNCHANGED <<hpc, result>>,
             delivered' = delivered + least(p, buf), buf' = buf - least(p, buf)
      PROVE  HandlerInv' /\ ReadInv'
  <2>1. least(p, buf) \in Nat /\ least(p, buf) <= buf
    BY <1>4, SMTT(30) DEF least
  <2>2. /\ delivered' \in Nat /\ buf' \in Nat /\ delivered' + buf' = delivered + buf
    BY <1>4, <1>5, <2>1, SMTT(30)
  <2>3. HandlerInv'
    BY <1>1, <1>2, <1>5, <2>2 DEF HandlerInv
  <2>4. Given' = Given /\ (Open' <=> Open)
    BY <1>3, <1>5, <2>2 DEF Given, Open
  <2>5. ~ (~ dropped /\ result = "eof")
    BY <1>1, <1>4, <1>5, SMTT(30) DEF ReadInv
  <2>6. ReadInv'
    BY <1>1, <1>2, <1>3, <1>5, <2>4, <2>5 DEF ReadInv
  <2> QED BY <2>3, <2>6
<1>6. ASSUME buf = 0, done, ends("eof"), UNCHANGED <<hpc, buf, delivered>>
      PROVE  HandlerInv' /\ ReadInv'
  <2>1. Given' = Given /\ Given = delivered
    BY <1>4, <1>6, SMTT(30) DEF Given
  <2>2. CASE result = "none"
    <3>1. result' = "eof"
      BY <1>6, <2>2 DEF ends
    <3>2. HandlerInv'
      BY <1>1, <1>2, <1>6, <3>1 DEF HandlerInv
    <3>3. ReadInv'
      BY <1>1, <1>2, <1>3, <1>6, <2>1, <2>2, <3>1 DEF ReadInv, Open
    <3> QED BY <3>2, <3>3
  <2>3. CASE result # "none"
    <3>1. result' = result
      BY <1>6, <2>3 DEF ends
    <3>2. HandlerInv'
      BY <1>1, <1>2, <1>6, <3>1 DEF HandlerInv
    <3>3. ReadInv'
      BY <1>1, <1>2, <1>3, <1>6, <2>1, <3>1 DEF ReadInv, Open
    <3> QED BY <3>2, <3>3
  <2> QED BY <2>2, <2>3
<1>7. ASSUME buf = 0, ~ done, hpc' = "recv", UNCHANGED <<buf, delivered, result>>
      PROVE  HandlerInv' /\ ReadInv'
  <2>1. Given' = Given /\ (Open' <=> Open)
    BY <1>3, <1>7 DEF Given, Open
  <2>2. HandlerInv'
    BY <1>1, <1>2, <1>7 DEF HandlerInv
  <2>3. ReadInv'
    BY <1>1, <1>2, <1>3, <1>7, <2>1 DEF ReadInv
  <2> QED BY <2>2, <2>3
<1>8. HandlerInv' /\ ReadInv'
  BY <1>5, <1>6, <1>7 DEF Read
<1> QED BY <1>3, <1>8 DEF UploadInv

\* A wait, a cancelled context, Close.
LEMMA StopBody ==
  ASSUME BodyInv, RecvWaits \/ RecvFails \/ CloseBody
  PROVE  UploadInv'
<1>1. CreditInv /\ HandlerInv /\ ReadInv
  BY DEF BodyInv, UploadInv
<1>2. UNCHANGED <<recvVars, streaming, limit, buf, total, delivered>>
  BY DEF RecvWaits, RecvFails, CloseBody
<1>3. /\ LastInv' /\ EndInv' /\ Taken' = Taken /\ Octets(events)' = Octets(events)
      /\ (EndBuffered' <=> EndBuffered) /\ (Joined' <=> Joined) /\ dropped' = dropped
  BY <1>2, BetweenEvents
<1>4. Given' = Given
  BY <1>2 DEF Given
<1>5. CASE RecvWaits
  <2>1. hpc = "recv" /\ hpc' = "select" /\ UNCHANGED <<done, result>>
    BY <1>5 DEF RecvWaits
  <2>2. HandlerInv'
    BY <1>1, <1>2, <2>1 DEF HandlerInv
  <2>3. ReadInv'
    BY <1>1, <1>2, <1>3, <1>4, <2>1 DEF ReadInv, Open
  <2> QED BY <1>3, <2>2, <2>3 DEF UploadInv
<1>6. CASE RecvFails
  <2>1. result = "none" /\ hpc = "select"
    BY <1>1, <1>6 DEF RecvFails, HandlerInv
  <2>2. /\ result' = "canceled" /\ hpc' \in {"idle", "over"}
        /\ IF streaming THEN done' = TRUE ELSE done' = done
    BY <1>6, <2>1 DEF RecvFails, ends
  <2>3. HandlerInv'
    BY <1>1, <1>2, <2>2 DEF HandlerInv
  <2>4. ReadInv'
    BY <1>1, <1>2, <1>3, <1>4, <2>2 DEF ReadInv, Open
  <2> QED BY <1>3, <2>3, <2>4 DEF UploadInv
<1>7. CASE CloseBody
  <2>1. result = "none" /\ result' = "closed" /\ done' = TRUE /\ hpc = "idle" /\ hpc' = hpc
        /\ streaming
    BY <1>1, <1>7 DEF CloseBody, ends, HandlerInv
  <2>2. HandlerInv'
    BY <1>1, <1>2, <2>1 DEF HandlerInv
  <2>3. ReadInv'
    BY <1>1, <1>2, <1>3, <1>4, <2>1 DEF ReadInv, Open
  <2> QED BY <1>3, <2>2, <2>3 DEF UploadInv
<1> QED BY <1>5, <1>6, <1>7

\* Recv takes an event: its octets are handed over, and if it is the end nothing is left.
LEMMA TakeBody ==
  ASSUME BodyInv, take
  PROVE  /\ Head(events) \in Items /\ Head(events).n \in Nat
         /\ hpc \in {"recv", "select"} /\ result = "none" /\ buf = 0 /\ ~ done
         /\ UNCHANGED <<streaming, limit, dropped>>
         /\ LastInv' /\ EndInv' /\ Taken' = Taken + Head(events).n
         /\ (Joined' => Joined) /\ (EndBuffered' => EndBuffered)
         /\ Octets(events) = Head(events).n + Octets(events') /\ Octets(events') \in Nat
         /\ Head(events).end /\ Head(events).type # "reset" =>
              EndBuffered /\ Octets(events) = Head(events).n
<1> DEFINE e == Head(events)
<1>1. CreditInv /\ LastInv /\ HandlerInv /\ EndInv /\ ReadInv
  BY DEF BodyInv, UploadInv
<1>2. /\ hpc \in {"recv", "select"} /\ events # <<>> /\ events' = Tail(events)
      /\ UNCHANGED <<todo, fin, wire, rpc, found, live, dropped, streaming, limit>>
  BY DEF take, clientVars, netVars, readerVars
<1>3. events \in Seq(Items)
  BY <1>1, CreditParts DEF Rest
<1>4. result = "none" /\ buf = 0 /\ ~ done
  BY <1>1, <1>2 DEF HandlerInv
<1>5. /\ e \in Items /\ events' \in Seq(Items) /\ Octets(events) = e.n + Octets(events')
      /\ Octets(events') \in Nat
  BY <1>2, <1>3, OctetsTail, OctetsNat
<1>6. e.n \in Nat
  BY <1>5, ItemType, ConstantsAssumption, SMTT(30)
<1>7. /\ Len(events) \in Nat \ {0} /\ DOMAIN events = 1..Len(events) /\ e = events[1]
      /\ DOMAIN events' = 1..Len(events) - 1
      /\ \A j \in 1..Len(events) - 1 : events'[j] = events[j + 1]
  BY <1>2, <1>3, SMTT(30)
<1>8. \A j \in DOMAIN events' : /\ j + 1 \in DOMAIN events /\ events'[j] = events[j + 1]
                                /\ j + 1 > 1 /\ j \in Int
  BY <1>7, SMTT(30)
<1>9. \A j \in DOMAIN events' : EndAt(j)' <=> EndAt(j + 1)
  BY <1>8 DEF EndAt
<1>10. EndInv'
  <2>1. SUFFICES ASSUME NEW i \in DOMAIN events', EndAt(i)'
                 PROVE  /\ fin /\ wire = <<>> /\ todo = 0
                        /\ \A j \in DOMAIN events' : j > i => events'[j].n = 0
    BY <1>2 DEF EndInv
  <2>2. /\ fin /\ wire = <<>> /\ todo = 0
        /\ \A j \in DOMAIN events : j > i + 1 => events[j].n = 0
    BY <1>1, <1>8, <1>9, <2>1 DEF EndInv
  <2>3. \A j \in DOMAIN events' : j > i => j + 1 > i + 1
    BY <1>8, SMTT(30)
  <2> QED BY <1>8, <2>2, <2>3
<1>11. e.end /\ e.type # "reset" => EndBuffered /\ Octets(events) = e.n
  <2>1. SUFFICES ASSUME e.end, e.type # "reset"
                 PROVE  EndBuffered /\ Octets(events) = e.n
    OBVIOUS
  <2>2. 1 \in DOMAIN events /\ EndAt(1)
    BY <1>7, <2>1, SMTT(30) DEF EndAt
  <2>3. \A j \in DOMAIN events' : events'[j].n = 0
    BY <1>1, <1>8, <2>2 DEF EndInv
  <2>4. Octets(events') = 0
    BY <1>5, <2>3, OctetsZero
  <2> QED BY <1>5, <1>6, <2>2, <2>4, SMTT(30) DEF EndBuffered
<1>12. LastInv' /\ (Joined' => Joined)
  BY <1>1, <1>2 DEF LastInv, Joined, InHand
<1>13. EndBuffered' => EndBuffered
  BY <1>8, <1>9 DEF EndBuffered
<1>14. Taken' = Taken + e.n
  <2>1. Body \in Nat /\ todo \in Nat /\ Octets(wire) \in Nat
    BY <1>1, BodyTypes
  <2>2. Taken' = Body - todo - Octets(wire) - Octets(events')
    BY <1>2 DEF Taken
  <2>3. Taken = Body - todo - Octets(wire) - (e.n + Octets(events'))
    BY <1>5 DEF Taken
  <2>4. \A b, t, w, v, n \in Nat : b - t - w - v = (b - t - w - (n + v)) + n
    BY SMTT(30)
  <2>5. Body - todo - Octets(wire) - Octets(events')
          = (Body - todo - Octets(wire) - (e.n + Octets(events'))) + e.n
    BY <1>5, <1>6, <2>1, <2>4, SMTT(30)
  <2> QED BY <2>2, <2>3, <2>5
<1> QED BY <1>2, <1>4, <1>5, <1>6, <1>10, <1>11, <1>12, <1>13, <1>14

\* An event that is handed over whole leaves the books of the body in step.
LEMMA HandedOver ==
  ASSUME BodyInv, take, Given' = Given + Head(events).n, Given' \in Nat,
         limit >= 0 => Given' <= limit,
         \/ result' = "none" /\ (done' => Head(events).end /\ Head(events).type # "reset")
         \/ /\ result' = "eof" /\ Head(events).end /\ Head(events).type # "reset"
            /\ buf' = 0 /\ delivered' = Given'
  PROVE  ReadInv'
<1> DEFINE n == Head(events).n
<1>1. CreditInv /\ HandlerInv /\ ReadInv
  BY DEF BodyInv, UploadInv
<1>2. /\ n \in Nat /\ result = "none" /\ limit' = limit /\ dropped' = dropped
      /\ Taken' = Taken + n /\ (Joined' => Joined) /\ (EndBuffered' => EndBuffered)
      /\ Octets(events) = n + Octets(events') /\ Octets(events') \in Nat
  BY TakeBody
<1>3. Head(events).end /\ Head(events).type # "reset" => EndBuffered /\ Octets(events) = n
  BY TakeBody
<1>4. Given \in Nat /\ Taken \in Int /\ Body \in Nat /\ limit \in Int
  BY <1>1, BodyTypes
<1> HIDE DEF n
<1>5. Given' = Given + n
  BY DEF n
<1>6. Given' <= Taken'
  BY <1>1, <1>2, <1>4, <1>5, SMTT(30) DEF ReadInv
<1>7. Open' => Open
  BY <1>2 DEF Open
<1>8. Open' /\ Joined' => Given' = Taken'
  BY <1>1, <1>2, <1>5, <1>7 DEF ReadInv
<1>9. Open' /\ EndBuffered' => Given' + Octets(events') = Body
  <2>1. \A g, m, o \in Nat : (g + m) + o = g + (m + o)
    BY SMTT(30)
  <2>2. (Given + n) + Octets(events') = Given + (n + Octets(events'))
    BY <1>2, <1>4, <2>1, SMTT(30)
  <2> QED BY <1>1, <1>2, <1>5, <1>7, <2>2 DEF ReadInv
<1>10. ~ dropped /\ Head(events).end /\ Head(events).type # "reset" => Given' = Body
  <2>1. ~ dropped => Open
    BY <1>2 DEF Open
  <2> QED BY <1>1, <1>3, <1>5, <2>1 DEF ReadInv
<1>11. /\ ~ dropped' /\ done' /\ result' = "none" => Given' = Body
       /\ ~ dropped' /\ result' = "eof" => delivered' = Body /\ buf' = 0
       /\ result' # "toolarge"
  BY <1>2, <1>10
<1> QED BY <1>2, <1>6, <1>8, <1>9, <1>11 DEF ReadInv

\* An event that is not handed over: a reset, or one that would pass the limit.
LEMMA Refused ==
  ASSUME BodyInv, take, UNCHANGED <<buf, delivered>>,
         \/ result' = "reset"
         \/ result' = "toolarge" /\ limit >= 0 /\ total + Head(events).n > limit
  PROVE  ReadInv'
<1> DEFINE n == Head(events).n
<1>1. CreditInv /\ HandlerInv /\ ReadInv
  BY DEF BodyInv, UploadInv
<1>2. /\ n \in Nat /\ result = "none" /\ ~ done /\ limit' = limit
      /\ Taken' = Taken + n
  BY TakeBody
<1>3. Given \in Nat /\ Taken \in Int /\ limit \in Int /\ total \in Nat
  BY <1>1, BodyTypes
<1>4. limit >= 0 => total = Given
  BY <1>1, <1>2 DEF HandlerInv, Given
<1>5. result' = "toolarge" => limit >= 0 /\ Given + n > limit
  BY <1>4
<1> HIDE DEF n
<1>6. Given' = Given
  BY DEF Given
<1>7. Given' <= Taken' /\ (limit' >= 0 => Given' <= limit')
  BY <1>1, <1>2, <1>3, <1>6, SMTT(30) DEF ReadInv
<1>8. result' = "toolarge" => limit' >= 0 /\ Taken' > limit'
  BY <1>1, <1>2, <1>3, <1>5, SMTT(30) DEF ReadInv
<1>9. ~ Open' /\ result' \notin {"none", "eof"}
  BY DEF Open
<1> QED BY <1>7, <1>8, <1>9 DEF ReadInv

\* The loop of Read, for one event.
LEMMA ReadEventBody ==
  ASSUME BodyInv, NEW p \in ReadSizes, ReadEvent(p)
  PROVE  UploadInv'
<1> DEFINE e == Head(events)
           n == e.n
<1>1. take /\ streaming /\ CreditInv /\ HandlerInv /\ ReadInv
  BY DEF ReadEvent, BodyInv, UploadInv
<1>2. /\ e \in Items /\ n \in Nat /\ result = "none" /\ buf = 0 /\ ~ done
      /\ UNCHANGED <<streaming, limit, dropped>> /\ LastInv' /\ EndInv'
  BY <1>1, TakeBody
<1>3. /\ delivered \in Nat /\ total \in Nat /\ limit \in Int /\ p \in Nat /\ Given \in Nat
  BY <1>1, BodyTypes, BodyAssumption
<1>4. Given = delivered /\ (limit >= 0 => total = delivered)
  BY <1>1, <1>2, <1>3, SMTT(30) DEF HandlerInv, Given
<1>5. limit >= 0 => Given <= limit
  BY <1>1 DEF ReadInv
<1>6. e.type # "data" => n = 0 /\ e.end
  BY <1>2, ItemType
<1>7. limit' >= -1 /\ streaming' = TRUE
  BY <1>1, <1>2 DEF HandlerInv
<1>8. CASE e.type = "reset"
  <2>1. /\ hpc' = "idle" /\ done' = TRUE /\ result' = "reset"
        /\ UNCHANGED <<buf, total, delivered>>
    BY <1>2, <1>6, <1>8 DEF ReadEvent, ends
  <2>2. HandlerInv'
    BY <1>2, <1>3, <1>7, <2>1 DEF HandlerInv
  <2>3. ReadInv'
    BY <1>1, <2>1, Refused
  <2> QED BY <1>2, <2>2, <2>3 DEF UploadInv
<1>9. CASE e.type # "reset" /\ n = 0 /\ e.end
  <2>1. /\ hpc' = "idle" /\ done' = TRUE /\ result' = "eof"
        /\ UNCHANGED <<buf, total, delivered>>
    BY <1>2, <1>9 DEF ReadEvent, ends
  <2>2. HandlerInv'
    BY <1>2, <1>3, <1>7, <2>1 DEF HandlerInv
  <2>3. Given' = Given + n /\ Given' \in Nat /\ delivered' = Given' /\ buf' = 0
    BY <1>2, <1>3, <1>4, <1>9, <2>1 DEF Given
  <2>4. limit >= 0 => Given' <= limit
    BY <1>3, <1>5, <1>9, <2>3, SMTT(30)
  <2>5. ReadInv'
    BY <1>1, <1>9, <2>1, <2>3, <2>4, HandedOver
  <2> QED BY <1>2, <2>2, <2>5 DEF UploadInv
<1>10. CASE e.type # "reset" /\ n = 0 /\ ~ e.end
  <2>1. hpc' = "recv" /\ UNCHANGED <<buf, done, total, delivered, result>>
    BY <1>10 DEF ReadEvent
  <2>2. HandlerInv'
    BY <1>1, <1>2, <1>3, <1>7, <2>1 DEF HandlerInv
  <2>3. Given' = Given + n /\ Given' \in Nat
    BY <1>3, <1>10, <2>1, SMTT(30) DEF Given
  <2>4. limit >= 0 => Given' <= limit
    BY <1>3, <1>5, <1>10, <2>3, SMTT(30)
  <2>5. ReadInv'
    BY <1>1, <1>2, <2>1, <2>3, <2>4, HandedOver
  <2> QED BY <1>2, <2>2, <2>5 DEF UploadInv
<1>11. CASE e.type # "reset" /\ n # 0
  <2>1. hpc' = "idle" /\ deliverData(p, n, e.end)
    BY <1>11 DEF ReadEvent
  <2>2. CASE overCap(n)
    <3>1. /\ done' = TRUE /\ total' = total + n /\ result' = "toolarge"
          /\ UNCHANGED <<buf, delivered>>
      BY <1>2, <2>1, <2>2 DEF deliverData, ends
    <3>2. total' \in Nat
      BY <1>2, <1>3, <3>1, SMTT(30)
    <3>3. HandlerInv'
      BY <1>2, <1>3, <1>7, <2>1, <3>1, <3>2 DEF HandlerInv
    <3>4. limit >= 0 /\ total + n > limit
      BY <2>2 DEF overCap
    <3>5. ReadInv'
      BY <1>1, <3>1, <3>4, Refused
    <3> QED BY <1>2, <3>3, <3>5 DEF UploadInv
  <2>3. CASE ~ overCap(n)
    <3>1. /\ total' = IF limit >= 0 THEN total + n ELSE total
          /\ delivered' = delivered + least(p, n) /\ buf' = n - least(p, n)
          /\ done' = (done \/ e.end) /\ result' = result
      BY <2>1, <2>3 DEF deliverData
    <3>2. least(p, n) \in Nat /\ least(p, n) <= n
      BY <1>2, <1>3, SMTT(30) DEF least
    <3>3. /\ delivered' \in Nat /\ buf' \in Nat /\ delivered' + buf' = delivered + n
          /\ total' \in Nat
      <4>1. \A d, m, k \in Nat : k <= m => /\ d + k \in Nat /\ m - k \in Nat /\ d + m \in Nat
                                           /\ (d + k) + (m - k) = d + m
        BY SMTT(30)
      <4>2. total + n \in Nat
        BY <1>2, <1>3, SMTT(30)
      <4> QED BY <1>2, <1>3, <3>1, <3>2, <4>1, <4>2
    <3>4. Given' = Given + n /\ Given' \in Nat
      <4>1. Given' = delivered' + buf'
        BY DEF Given
      <4>2. delivered + n \in Nat
        BY <1>2, <1>3, SMTT(30)
      <4> QED BY <1>4, <3>3, <4>1, <4>2
    <3>5. limit >= 0 => total' = Given' /\ Given' <= limit
      BY <1>2, <1>3, <1>4, <2>3, <3>1, <3>4, SMTT(30) DEF overCap
    <3>6. done' \in BOOLEAN /\ (done' => e.end)
      <4>1. e.end \in BOOLEAN
        BY <1>2, ItemType
      <4> QED BY <1>2, <3>1, <4>1
    <3>7. HandlerInv'
      BY <1>2, <1>3, <1>7, <2>1, <3>1, <3>3, <3>5, <3>6 DEF HandlerInv, Given
    <3>8. ReadInv'
      BY <1>1, <1>2, <1>11, <3>1, <3>4, <3>5, <3>6, HandedOver
    <3> QED BY <1>2, <3>7, <3>8 DEF UploadInv
  <2> QED BY <2>2, <2>3
<1> QED BY <1>8, <1>9, <1>10, <1>11, <1>2, ItemType

\* serveStreamBuffered, for one event.
LEMMA BufferEventBody ==
  ASSUME BodyInv, BufferEvent
  PROVE  UploadInv'
<1> DEFINE e == Head(events)
           n == e.n
<1>1. take /\ ~ streaming /\ CreditInv /\ HandlerInv /\ ReadInv /\ UNCHANGED <<buf, done>>
  BY DEF BufferEvent, BodyInv, UploadInv
<1>2. /\ e \in Items /\ n \in Nat /\ result = "none" /\ buf = 0 /\ ~ done
      /\ UNCHANGED <<streaming, limit, dropped>> /\ LastInv' /\ EndInv'
  BY <1>1, TakeBody
<1>3. /\ delivered \in Nat /\ total \in Nat /\ limit \in Int /\ Given \in Nat
  BY <1>1, BodyTypes
<1>4. Given = delivered /\ (limit >= 0 => total = delivered)
  BY <1>1, <1>2, <1>3, SMTT(30) DEF HandlerInv, Given
<1>5. limit >= 0 => Given <= limit
  BY <1>1 DEF ReadInv
<1>6. e.type # "data" => n = 0 /\ e.end
  BY <1>2, ItemType
<1>7. limit' >= -1 /\ streaming' = FALSE /\ done' = FALSE /\ buf' = 0
  BY <1>1, <1>2 DEF HandlerInv
<1>8. CASE e.type = "reset"
  <2>1. hpc' = "close" /\ result' = "reset" /\ UNCHANGED <<total, delivered>>
    BY <1>2, <1>8 DEF BufferEvent, ends
  <2>2. HandlerInv'
    BY <1>2, <1>3, <1>7, <2>1 DEF HandlerInv
  <2>3. ReadInv'
    BY <1>1, <2>1, Refused
  <2> QED BY <1>2, <2>2, <2>3 DEF UploadInv
<1>9. CASE e.type = "data" /\ overCap(n)
  <2>1. /\ hpc' = "close" /\ result' = "toolarge" /\ total' = total + n
        /\ UNCHANGED delivered
    BY <1>2, <1>9 DEF BufferEvent, ends
  <2>2. total' \in Nat
    BY <1>2, <1>3, <2>1, SMTT(30)
  <2>3. HandlerInv'
    BY <1>2, <1>3, <1>7, <2>1, <2>2 DEF HandlerInv
  <2>4. limit >= 0 /\ total + n > limit
    BY <1>9 DEF overCap
  <2>5. ReadInv'
    BY <1>1, <2>1, <2>4, Refused
  <2> QED BY <1>2, <2>3, <2>5 DEF UploadInv
<1>10. CASE e.type # "reset" /\ ~ (e.type = "data" /\ overCap(n))
  <2>1. /\ total' = total + n /\ delivered' = delivered + n
        /\ \/ e.end /\ hpc' = "close" /\ result' = "eof"
           \/ ~ e.end /\ hpc' = "recv" /\ result' = result
    BY <1>2, <1>10 DEF BufferEvent, ends
  <2>2. delivered' \in Nat /\ total' \in Nat /\ Given' = Given + n /\ Given' = delivered'
        /\ Given' \in Nat
    BY <1>2, <1>3, <1>4, <1>7, <2>1, SMTT(30) DEF Given
  <2>3. limit >= 0 => total' = Given' /\ Given' <= limit
    BY <1>2, <1>3, <1>4, <1>5, <1>6, <1>10, <2>1, <2>2, SMTT(30) DEF overCap
  <2>4. HandlerInv'
    <3>1. /\ hpc' \in {"close", "recv"} /\ result' \in {"none", "eof"}
          /\ (hpc' = "recv" => result' = "none")
      BY <1>2, <2>1
    <3>2. limit' >= 0 => total' = delivered' + buf'
      <4>1. delivered' \in Nat /\ delivered' + buf' = delivered' + 0
        BY <1>7, <2>2
      <4>2. \A d \in Nat : d + 0 = d
        BY SMTT(30)
      <4> QED BY <1>2, <2>2, <2>3, <4>1, <4>2
    <3> QED BY <1>2, <1>3, <1>7, <2>2, <3>1, <3>2 DEF HandlerInv
  <2>5. ReadInv'
    BY <1>1, <1>2, <1>7, <1>10, <2>1, <2>2, <2>3, HandedOver
  <2> QED BY <1>2, <2>4, <2>5 DEF UploadInv
<1> QED BY <1>8, <1>9, <1>10

LEMMA InitBody ==
  ASSUME Init
  PROVE  BodyInv
<1>1. CreditInv
  BY InitBooks
<1>2. /\ todo = Body /\ fin = FALSE /\ wire = <<>> /\ events = <<>> /\ rpc = "read"
      /\ live = TRUE /\ dropped = FALSE
  BY DEF Init, RecvInit
<1>3. /\ streaming \in BOOLEAN /\ limit \in Int /\ limit >= -1 /\ hpc \in {"idle", "recv"}
      /\ buf = 0 /\ done = FALSE /\ total = 0 /\ delivered = 0 /\ result = "none"
  BY BodyAssumption, SMTT(30) DEF Init
<1>4. HandlerInv
  <2>1. total = delivered + buf /\ total \in Nat /\ delivered \in Nat /\ buf \in Nat
    BY <1>3, SMTT(30)
  <2>2. done \in BOOLEAN /\ ~ done
    BY <1>3
  <2> QED BY <1>3, <2>1, <2>2 DEF HandlerInv
<1>5. LastInv /\ EndInv /\ ~ EndBuffered
  BY <1>2, SMTT(30) DEF LastInv, EndInv, EndBuffered
<1>6. Given = 0
  BY <1>3, SMTT(30) DEF Given
<1>7. Taken = 0
  BY <1>2, OctetsEmpty, ConstantsAssumption, SMTT(30) DEF Taken
<1>8. ReadInv
  BY <1>2, <1>3, <1>5, <1>6, <1>7, SMTT(30) DEF ReadInv
<1> QED BY <1>1, <1>4, <1>5, <1>8 DEF BodyInv, UploadInv

\* The steps that move no octet and report no end.
LEMMA OtherBody ==
  ASSUME BodyInv,
         \/ /\ GetStreamUpdate \/ GetConnUpdate \/ GetReset \/ OnFrame \/ WriteConnUpdate
                 \/ OverflowRST \/ WriteStreamUpdate
            /\ UNCHANGED bodyVars
         \/ HandlerCloses
  PROVE  UploadInv'
<1>1. UNCHANGED <<todo, fin, wire, events, dropped>>
  BY DEF GetStreamUpdate, GetConnUpdate, GetReset, OnFrame, WriteConnUpdate, OverflowRST,
         WriteStreamUpdate, HandlerCloses, CloseStream, clientVars, netVars, streamVars
<1>2. /\ UNCHANGED <<streaming, limit, buf, done, total, delivered, result>>
      /\ hpc' = hpc \/ hpc' = "over"
  BY DEF bodyVars, HandlerCloses
<1>3. Joined' => Joined
  <2>1. CASE OnFrame
    BY <2>1 DEF OnFrame, Joined, streamVars
  <2>2. CASE WriteConnUpdate
    BY <2>2 DEF WriteConnUpdate, Joined, InHand, streamVars
  <2>3. CASE OverflowRST
    BY <2>3 DEF OverflowRST, Joined, InHand, readerVars
  <2>4. CASE HandlerCloses
    BY <2>4 DEF HandlerCloses, CloseStream, Joined, InHand, readerVars
  <2>5. CASE GetStreamUpdate \/ GetConnUpdate \/ GetReset \/ WriteStreamUpdate
    BY <2>5 DEF GetStreamUpdate, GetConnUpdate, GetReset, WriteStreamUpdate, Joined, InHand,
                readerVars, streamVars
  <2> QED BY <2>1, <2>2, <2>3, <2>4, <2>5
<1> QED BY <1>1, <1>2, <1>3, QuietBody

LEMMA SameBody ==
  ASSUME BodyInv, UNCHANGED vars
  PROVE  UploadInv'
<1>1. UNCHANGED recvVars /\ UNCHANGED bodyVars
  BY DEF vars
<1>2. UNCHANGED <<todo, fin, wire, events, dropped>> /\ (Joined' => Joined)
  BY <1>1 DEF recvVars, clientVars, netVars, readerVars, streamVars, Joined, InHand
<1>3. UNCHANGED <<streaming, limit, hpc, buf, done, total, delivered, result>>
  BY <1>1 DEF bodyVars
<1> QED BY <1>2, <1>3, QuietBody

LEMMA NextBody ==
  ASSUME BodyInv, [Next]_vars
  PROVE  BodyInv'
<1>1. CreditInv'
  BY NextBooks DEF BodyInv
<1>2. CASE (Send \/ Abort) /\ UNCHANGED bodyVars
  <2>1. PICK i \in Items : /\ i.n <= todo /\ (i.end /\ i.type # "reset" => i.n = todo)
                           /\ SendItem(i)
    BY <1>2, SendFrames DEF BodyInv
  <2> QED BY <1>1, <1>2, <2>1, SendBody DEF BodyInv
<1>3. CASE (GetStreamUpdate \/ GetConnUpdate \/ GetReset) /\ UNCHANGED bodyVars
  BY <1>1, <1>3, OtherBody DEF BodyInv
<1>4. CASE Reader /\ UNCHANGED bodyVars
  BY <1>1, <1>4, OtherBody, PushBody, PushResetBody DEF Reader, BodyInv
<1>5. CASE (OverflowRST \/ WriteStreamUpdate) /\ UNCHANGED bodyVars
  BY <1>1, <1>5, OtherBody DEF BodyInv
<1>6. CASE Handler
  <2>1. CASE Reading
    BY <1>1, <2>1, ReadBody, ReadEventBody DEF Reading, BodyInv
  <2>2. CASE RecvWaits \/ RecvFails
    BY <1>1, <2>2, StopBody DEF BodyInv
  <2>3. CASE BufferEvent
    BY <1>1, <2>3, BufferEventBody DEF BodyInv
  <2> QED BY <1>6, <2>1, <2>2, <2>3 DEF Handler
<1>7. CASE CloseBody
  BY <1>1, <1>7, StopBody DEF BodyInv
<1>8. CASE HandlerCloses
  BY <1>1, <1>8, OtherBody DEF BodyInv
<1>9. CASE Finished \/ UNCHANGED vars
  BY <1>1, <1>9, SameBody DEF Finished, BodyInv
<1> QED BY <1>2, <1>3, <1>4, <1>5, <1>6, <1>7, <1>8, <1>9 DEF Next, Client

\* server/stream_body.go and serveStreamBuffered of server/server.go: what a handler reads
\* is what its client sent, whole if its end was reported, and within MaxRequestBodyBytes.
THEOREM BodyKept == Spec => []BodyAsSent
<1>1. Init => BodyInv
  BY InitBody
<1>2. BodyInv /\ [Next]_vars => BodyInv'
  BY NextBody
<1>3. BodyInv => BodyAsSent
  BY DEF BodyInv, UploadInv, ReadInv, Open, Joined, Given, BodyAsSent
<1> QED BY <1>1, <1>2, <1>3, PTL DEF Spec

=============================================================================

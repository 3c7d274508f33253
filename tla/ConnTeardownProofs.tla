------------------------- MODULE ConnTeardownProofs -------------------------
(***************************************************************************)
(* Proofs about ConnTeardown, for any number of callers, streams and pings *)
(* and whether or not the peer may stall.                                  *)
(***************************************************************************)
EXTENDS ConnTeardown, TLAPS

USE ConstantsAssumption, SMTT(60), ZenonT(60) DEF ConstantsAssumption

\* Every step keeps the variables in their ranges.
LEMMA NextTypeOK ==
  ASSUME TeardownInv, [Next]_vars PROVE TypeOK'
<1> USE DEF TeardownInv, TypeOK, WmuInv, ProcInv, PingInv, Pinging, Procs,
           GoAways,
           connVars, netVars, pingVars, procVars, acceptVars, histVars
<1>1. ASSUME NEW p \in Procs, Close(p) PROVE TypeOK'
  BY <1>1 DEF Close, Go, Call, readerDone
<1>2. ASSUME NEW p \in Procs, NEW o \in {"goaway", "graceful"},
            GoAway(p, o) PROVE TypeOK'
  BY <1>2 DEF GoAway, Go, Call
<1>3. ASSUME NEW p \in Procs, Ping(p) PROVE TypeOK'
  BY <1>3 DEF Ping, Go, Call, After
<1>4. ASSUME NEW p \in Procs, NEW o \in {"data", "pingack"},
            Frame(p, o) PROVE TypeOK'
  BY <1>4 DEF Frame, Go, Call, After
<1>5. ASSUME NEW p \in Procs, Lock(p) PROVE TypeOK'
  BY <1>5 DEF Lock, Go, After, clampGoAwayID, LastStreamID
<1>6. ASSUME NEW p \in Procs, NEW ok \in BOOLEAN, WriteGoAway(p, ok) PROVE TypeOK'
  BY <1>6 DEF WriteGoAway, Write, Go, After
<1>7. ASSUME NEW p \in Procs, NEW ok \in BOOLEAN, WritePing(p, ok) PROVE TypeOK'
  BY <1>7 DEF WritePing, Write, Go, After
<1>8. ASSUME NEW p \in Procs, NEW ok \in BOOLEAN, WriteFrame(p, ok) PROVE TypeOK'
  BY <1>8 DEF WriteFrame, Write, Go, After
<1>9. ASSUME NEW p \in Procs, Hangup(p) PROVE TypeOK'
  BY <1>9 DEF Hangup, Go
<1>10. ASSUME NEW p \in Procs, CloseReturns(p) PROVE TypeOK'
  BY <1>10 DEF CloseReturns, Go
<1>11. ASSUME NEW p \in Procs, PingAnswered(p) PROVE TypeOK'
  BY <1>11 DEF PingAnswered, Go, After
<1>12. ASSUME NEW p \in Procs, PingGivesUp(p) PROVE TypeOK'
  BY <1>12 DEF PingGivesUp, Go, After
<1>13. CASE ReaderError
  BY <1>13 DEF ReaderError, Go, Call
<1>14. CASE OnHeaders
  BY <1>14 DEF OnHeaders
<1>15. ASSUME NEW n \in unanswered, deliverPingAck(n) PROVE TypeOK'
  BY <1>15 DEF deliverPingAck
<1>16. CASE ReadFails
  BY <1>16 DEF ReadFails, Go
<1>17. CASE ReaderExits
  BY <1>17 DEF ReaderExits, Go
<1>18. CASE Accepts
  <2>1. CASE AcceptStream
    BY <2>1 DEF AcceptStream
  <2>2. CASE deliver
    <3>1. taken + 1 \in 0..maxClient /\ taken + 1 \in 1..MaxStreams
      BY <2>2 DEF deliver
    <3>2. delivered' \subseteq 1..MaxStreams /\ acc' \in {"call", "wait"}
      BY <2>2, <3>1, ZenonT(60) DEF deliver
    <3> QED BY <2>2, <3>1, <3>2 DEF deliver
  <2>3. CASE AcceptEnds
    BY <2>3 DEF AcceptEnds
  <2> QED BY ZenonT(60), <1>18, <2>1, <2>2, <2>3 DEF Accepts
<1>19. CASE PeerStalls \/ PeerReads \/ LinkDies
  BY <1>19, ZenonT(60) DEF PeerStalls, PeerReads, LinkDies, SetLink
<1>20. CASE UNCHANGED vars
  BY <1>20 DEF vars
<1> HIDE DEF TeardownInv, TypeOK, WmuInv, ProcInv, PingInv, Pinging, Procs,
           GoAways,
           connVars, netVars, pingVars, procVars, acceptVars, histVars
<1> QED
  BY ZenonT(60), <1>1, <1>2, <1>3, <1>4, <1>5, <1>6, <1>7, <1>8, <1>9, <1>10,
     <1>11, <1>12, <1>13, <1>14, <1>15, <1>16, <1>17, <1>18, <1>19, <1>20
  DEF Next, Starts, Under, ReaderStep, Finished

\* wmu changes hands only through Lock and the writes.
LEMMA NextWmuInv ==
  ASSUME TeardownInv, [Next]_vars PROVE WmuInv'
<1> USE DEF TeardownInv, TypeOK, WmuInv, ProcInv, Procs,
           connVars, netVars, pingVars, procVars, acceptVars, histVars
<1>1. ASSUME NEW p \in Procs, Close(p) PROVE WmuInv'
  BY <1>1 DEF Close, Go, Call, readerDone
<1>2. ASSUME NEW p \in Procs, NEW o \in {"goaway", "graceful"},
            GoAway(p, o) PROVE WmuInv'
  BY <1>2 DEF GoAway, Go, Call
<1>3. ASSUME NEW p \in Procs, Ping(p) PROVE WmuInv'
  BY <1>3 DEF Ping, Go, Call, After
<1>4. ASSUME NEW p \in Procs, NEW o \in {"data", "pingack"},
            Frame(p, o) PROVE WmuInv'
  BY <1>4 DEF Frame, Go, Call, After
<1>5. ASSUME NEW p \in Procs, Lock(p) PROVE WmuInv'
  BY <1>5 DEF Lock, Go, After, clampGoAwayID, LastStreamID
<1>6. ASSUME NEW p \in Procs, NEW ok \in BOOLEAN, WriteGoAway(p, ok) PROVE WmuInv'
  BY <1>6 DEF WriteGoAway, Write, Go, After
<1>7. ASSUME NEW p \in Procs, NEW ok \in BOOLEAN, WritePing(p, ok) PROVE WmuInv'
  BY <1>7 DEF WritePing, Write, Go, After
<1>8. ASSUME NEW p \in Procs, NEW ok \in BOOLEAN, WriteFrame(p, ok) PROVE WmuInv'
  BY <1>8 DEF WriteFrame, Write, Go, After
<1>9. ASSUME NEW p \in Procs, Hangup(p) PROVE WmuInv'
  BY <1>9 DEF Hangup, Go
<1>10. ASSUME NEW p \in Procs, CloseReturns(p) PROVE WmuInv'
  BY <1>10 DEF CloseReturns, Go
<1>11. ASSUME NEW p \in Procs, PingAnswered(p) PROVE WmuInv'
  BY <1>11 DEF PingAnswered, Go, After
<1>12. ASSUME NEW p \in Procs, PingGivesUp(p) PROVE WmuInv'
  BY <1>12 DEF PingGivesUp, Go, After
<1>13. CASE ReaderError
  BY <1>13 DEF ReaderError, Go, Call
<1>14. CASE OnHeaders
  BY <1>14 DEF OnHeaders
<1>15. ASSUME NEW n \in unanswered, deliverPingAck(n) PROVE WmuInv'
  BY <1>15 DEF deliverPingAck
<1>16. CASE ReadFails
  BY <1>16 DEF ReadFails, Go
<1>17. CASE ReaderExits
  BY <1>17 DEF ReaderExits, Go
<1>18. CASE Accepts
  <2>1. UNCHANGED <<closed, goAwaySentID, wmu, pingVars, procVars, histVars>>
    BY <1>18, ZenonT(60) DEF Accepts, AcceptStream, deliver, AcceptEnds
  <2> QED BY <2>1
<1>19. CASE PeerStalls \/ PeerReads \/ LinkDies
  <2>1. UNCHANGED <<closed, goAwaySentID, wmu, pingVars, procVars, histVars>>
    BY <1>19 DEF PeerStalls, PeerReads, LinkDies, SetLink
  <2> QED BY <2>1
<1>20. CASE UNCHANGED vars
  BY <1>20 DEF vars
<1> HIDE DEF TeardownInv, TypeOK, WmuInv, ProcInv, Procs,
           connVars, netVars, pingVars, procVars, acceptVars, histVars
<1> QED
  BY ZenonT(60), <1>1, <1>2, <1>3, <1>4, <1>5, <1>6, <1>7, <1>8, <1>9, <1>10,
     <1>11, <1>12, <1>13, <1>14, <1>15, <1>16, <1>17, <1>18, <1>19, <1>20
  DEF Next, Starts, Under, ReaderStep, Finished

\* Every step keeps each goroutine to the calls it can make.
LEMMA NextProcInv ==
  ASSUME TeardownInv, [Next]_vars PROVE ProcInv'
<1> USE DEF TeardownInv, TypeOK, WmuInv, ProcInv, Procs, GoAways,
           connVars, netVars, pingVars, procVars, acceptVars, histVars
<1>1. ASSUME NEW p \in Procs, Close(p) PROVE ProcInv'
  BY <1>1 DEF Close, Go, Call, readerDone
<1>2. ASSUME NEW p \in Procs, NEW o \in {"goaway", "graceful"},
            GoAway(p, o) PROVE ProcInv'
  BY <1>2 DEF GoAway, Go, Call
<1>3. ASSUME NEW p \in Procs, Ping(p) PROVE ProcInv'
  BY <1>3 DEF Ping, Go, Call, After
<1>4. ASSUME NEW p \in Procs, NEW o \in {"data", "pingack"},
            Frame(p, o) PROVE ProcInv'
  BY <1>4 DEF Frame, Go, Call, After
<1>5. ASSUME NEW p \in Procs, Lock(p) PROVE ProcInv'
  BY <1>5 DEF Lock, Go, After, clampGoAwayID, LastStreamID
<1>6. ASSUME NEW p \in Procs, NEW ok \in BOOLEAN, WriteGoAway(p, ok) PROVE ProcInv'
  BY <1>6 DEF WriteGoAway, Write, Go, After
<1>7. ASSUME NEW p \in Procs, NEW ok \in BOOLEAN, WritePing(p, ok) PROVE ProcInv'
  BY <1>7 DEF WritePing, Write, Go, After
<1>8. ASSUME NEW p \in Procs, NEW ok \in BOOLEAN, WriteFrame(p, ok) PROVE ProcInv'
  BY <1>8 DEF WriteFrame, Write, Go, After
<1>9. ASSUME NEW p \in Procs, Hangup(p) PROVE ProcInv'
  BY <1>9 DEF Hangup, Go
<1>10. ASSUME NEW p \in Procs, CloseReturns(p) PROVE ProcInv'
  BY <1>10 DEF CloseReturns, Go
<1>11. ASSUME NEW p \in Procs, PingAnswered(p) PROVE ProcInv'
  BY <1>11 DEF PingAnswered, Go, After
<1>12. ASSUME NEW p \in Procs, PingGivesUp(p) PROVE ProcInv'
  BY <1>12 DEF PingGivesUp, Go, After
<1>13. CASE ReaderError
  BY <1>13 DEF ReaderError, Go, Call
<1>14. CASE OnHeaders
  BY <1>14 DEF OnHeaders
<1>15. ASSUME NEW n \in unanswered, deliverPingAck(n) PROVE ProcInv'
  BY <1>15 DEF deliverPingAck
<1>16. CASE ReadFails
  BY <1>16 DEF ReadFails, Go
<1>17. CASE ReaderExits
  BY <1>17 DEF ReaderExits, Go
<1>18. CASE Accepts
  <2>1. UNCHANGED <<closed, goAwaySentID, wmu, pingVars, procVars, histVars>>
    BY <1>18, ZenonT(60) DEF Accepts, AcceptStream, deliver, AcceptEnds
  <2> QED BY <2>1
<1>19. CASE PeerStalls \/ PeerReads \/ LinkDies
  <2>1. UNCHANGED <<closed, goAwaySentID, wmu, pingVars, procVars, histVars>>
    BY <1>19 DEF PeerStalls, PeerReads, LinkDies, SetLink
  <2> QED BY <2>1
<1>20. CASE UNCHANGED vars
  BY <1>20 DEF vars
<1> HIDE DEF TeardownInv, TypeOK, WmuInv, ProcInv, Procs, GoAways,
           connVars, netVars, pingVars, procVars, acceptVars, histVars
<1> QED
  BY ZenonT(60), <1>1, <1>2, <1>3, <1>4, <1>5, <1>6, <1>7, <1>8, <1>9, <1>10,
     <1>11, <1>12, <1>13, <1>14, <1>15, <1>16, <1>17, <1>18, <1>19, <1>20
  DEF Next, Starts, Under, ReaderStep, Finished

\* One Close gets past its CompareAndSwap, and nothing follows its GOAWAY.
LEMMA NextCloseInv ==
  ASSUME TeardownInv, [Next]_vars PROVE CloseInv'
<1> USE DEF TeardownInv, TypeOK, WmuInv, ProcInv, CloseInv, Closing, Procs, GoAways,
           connVars, netVars, pingVars, procVars, acceptVars, histVars
<1>1. ASSUME NEW p \in Procs, Close(p) PROVE CloseInv'
  BY <1>1 DEF Close, Go, Call, readerDone
<1>2. ASSUME NEW p \in Procs, NEW o \in {"goaway", "graceful"},
            GoAway(p, o) PROVE CloseInv'
  BY <1>2 DEF GoAway, Go, Call
<1>3. ASSUME NEW p \in Procs, Ping(p) PROVE CloseInv'
  BY <1>3 DEF Ping, Go, Call, After
<1>4. ASSUME NEW p \in Procs, NEW o \in {"data", "pingack"},
            Frame(p, o) PROVE CloseInv'
  BY <1>4 DEF Frame, Go, Call, After
<1>5. ASSUME NEW p \in Procs, Lock(p) PROVE CloseInv'
  BY <1>5 DEF Lock, Go, After, clampGoAwayID, LastStreamID
<1>6. ASSUME NEW p \in Procs, NEW ok \in BOOLEAN, WriteGoAway(p, ok) PROVE CloseInv'
  BY <1>6 DEF WriteGoAway, Write, Go, After
<1>7. ASSUME NEW p \in Procs, NEW ok \in BOOLEAN, WritePing(p, ok) PROVE CloseInv'
  BY <1>7 DEF WritePing, Write, Go, After
<1>8. ASSUME NEW p \in Procs, NEW ok \in BOOLEAN, WriteFrame(p, ok) PROVE CloseInv'
  BY <1>8 DEF WriteFrame, Write, Go, After
<1>9. ASSUME NEW p \in Procs, Hangup(p) PROVE CloseInv'
  BY <1>9 DEF Hangup, Go
<1>10. ASSUME NEW p \in Procs, CloseReturns(p) PROVE CloseInv'
  BY <1>10 DEF CloseReturns, Go
<1>11. ASSUME NEW p \in Procs, PingAnswered(p) PROVE CloseInv'
  BY <1>11 DEF PingAnswered, Go, After
<1>12. ASSUME NEW p \in Procs, PingGivesUp(p) PROVE CloseInv'
  BY <1>12 DEF PingGivesUp, Go, After
<1>13. CASE ReaderError
  BY <1>13 DEF ReaderError, Go, Call
<1>14. CASE OnHeaders
  BY <1>14 DEF OnHeaders
<1>15. ASSUME NEW n \in unanswered, deliverPingAck(n) PROVE CloseInv'
  BY <1>15 DEF deliverPingAck
<1>16. CASE ReadFails
  BY <1>16 DEF ReadFails, Go
<1>17. CASE ReaderExits
  BY <1>17 DEF ReaderExits, Go
<1>18. CASE Accepts
  <2>1. UNCHANGED <<closed, goAwaySentID, wmu, pingVars, procVars, histVars>>
    BY <1>18, ZenonT(60) DEF Accepts, AcceptStream, deliver, AcceptEnds
  <2> QED BY <2>1
<1>19. CASE PeerStalls \/ PeerReads \/ LinkDies
  <2>1. UNCHANGED <<closed, goAwaySentID, wmu, pingVars, procVars, histVars>>
    BY <1>19 DEF PeerStalls, PeerReads, LinkDies, SetLink
  <2> QED BY <2>1
<1>20. CASE UNCHANGED vars
  BY <1>20 DEF vars
<1> HIDE DEF TeardownInv, TypeOK, WmuInv, ProcInv, CloseInv, Closing, Procs, GoAways,
           connVars, netVars, pingVars, procVars, acceptVars, histVars
<1> QED
  BY ZenonT(60), <1>1, <1>2, <1>3, <1>4, <1>5, <1>6, <1>7, <1>8, <1>9, <1>10,
     <1>11, <1>12, <1>13, <1>14, <1>15, <1>16, <1>17, <1>18, <1>19, <1>20
  DEF Next, Starts, Under, ReaderStep, Finished

\* Payloads of Pings in progress stay distinct.
LEMMA NextPingInv ==
  ASSUME TeardownInv, [Next]_vars PROVE PingInv'
<1> USE DEF TeardownInv, TypeOK, WmuInv, ProcInv, PingInv, Pinging, Procs, GoAways,
           connVars, netVars, pingVars, procVars, acceptVars, histVars
<1>1. ASSUME NEW p \in Procs, Close(p) PROVE PingInv'
  BY <1>1 DEF Close, Go, Call, readerDone
<1>2. ASSUME NEW p \in Procs, NEW o \in {"goaway", "graceful"},
            GoAway(p, o) PROVE PingInv'
  BY <1>2 DEF GoAway, Go, Call
<1>3. ASSUME NEW p \in Procs, Ping(p) PROVE PingInv'
  BY <1>3 DEF Ping, Go, Call, After
<1>4. ASSUME NEW p \in Procs, NEW o \in {"data", "pingack"},
            Frame(p, o) PROVE PingInv'
  BY <1>4 DEF Frame, Go, Call, After
<1>5. ASSUME NEW p \in Procs, Lock(p) PROVE PingInv'
  BY <1>5 DEF Lock, Go, After, clampGoAwayID, LastStreamID
<1>6. ASSUME NEW p \in Procs, NEW ok \in BOOLEAN, WriteGoAway(p, ok) PROVE PingInv'
  BY <1>6 DEF WriteGoAway, Write, Go, After
<1>7. ASSUME NEW p \in Procs, NEW ok \in BOOLEAN, WritePing(p, ok) PROVE PingInv'
  BY <1>7 DEF WritePing, Write, Go, After
<1>8. ASSUME NEW p \in Procs, NEW ok \in BOOLEAN, WriteFrame(p, ok) PROVE PingInv'
  BY <1>8 DEF WriteFrame, Write, Go, After
<1>9. ASSUME NEW p \in Procs, Hangup(p) PROVE PingInv'
  BY <1>9 DEF Hangup, Go
<1>10. ASSUME NEW p \in Procs, CloseReturns(p) PROVE PingInv'
  BY <1>10 DEF CloseReturns, Go
<1>11. ASSUME NEW p \in Procs, PingAnswered(p) PROVE PingInv'
  BY <1>11 DEF PingAnswered, Go, After
<1>12. ASSUME NEW p \in Procs, PingGivesUp(p) PROVE PingInv'
  BY <1>12 DEF PingGivesUp, Go, After
<1>13. CASE ReaderError
  BY <1>13 DEF ReaderError, Go, Call
<1>14. CASE OnHeaders
  BY <1>14 DEF OnHeaders
<1>15. ASSUME NEW n \in unanswered, deliverPingAck(n) PROVE PingInv'
  BY <1>15 DEF deliverPingAck
<1>16. CASE ReadFails
  BY <1>16 DEF ReadFails, Go
<1>17. CASE ReaderExits
  BY <1>17 DEF ReaderExits, Go
<1>18. CASE Accepts
  <2>1. UNCHANGED <<closed, goAwaySentID, wmu, pingVars, procVars, histVars>>
    BY <1>18, ZenonT(60) DEF Accepts, AcceptStream, deliver, AcceptEnds
  <2> QED BY <2>1
<1>19. CASE PeerStalls \/ PeerReads \/ LinkDies
  <2>1. UNCHANGED <<closed, goAwaySentID, wmu, pingVars, procVars, histVars>>
    BY <1>19 DEF PeerStalls, PeerReads, LinkDies, SetLink
  <2> QED BY <2>1
<1>20. CASE UNCHANGED vars
  BY <1>20 DEF vars
<1> HIDE DEF TeardownInv, TypeOK, WmuInv, ProcInv, PingInv, Pinging, Procs, GoAways,
           connVars, netVars, pingVars, procVars, acceptVars, histVars
<1> QED
  BY ZenonT(60), <1>1, <1>2, <1>3, <1>4, <1>5, <1>6, <1>7, <1>8, <1>9, <1>10,
     <1>11, <1>12, <1>13, <1>14, <1>15, <1>16, <1>17, <1>18, <1>19, <1>20
  DEF Next, Starts, Under, ReaderStep, Finished

\* No registration leaks and no waiting Ping loses its own.
LEMMA NextPingsAccounted ==
  ASSUME TeardownInv, [Next]_vars PROVE PingsAccounted'
<1> USE DEF TeardownInv, TypeOK, WmuInv, ProcInv, PingInv, Pinging, PingsAccounted, Procs,
           GoAways, connVars, netVars, pingVars, procVars, acceptVars, histVars
<1>1. ASSUME NEW p \in Procs, Close(p) PROVE PingsAccounted'
  <2>1. /\ pc[p] \in {"idle", "failed"} /\ pc'[p] \in {"done", "lock"}
        /\ \A q \in Procs \ {p} : pc'[q] = pc[q] /\ op'[q] = op[q]
        /\ UNCHANGED <<pingWaiters, answered, payload>>
    BY <1>1 DEF Close, Go, Call
  <2> HIDE DEF TeardownInv, TypeOK, WmuInv, ProcInv, PingInv, Pinging
  <2>2. PingsAccounted
    BY DEF TeardownInv
  <2> QED
    BY ONLY <2>1, <2>2 DEF PingsAccounted
<1>2. ASSUME NEW p \in Procs, NEW o \in {"goaway", "graceful"},
            GoAway(p, o) PROVE PingsAccounted'
  BY <1>2 DEF GoAway, Go, Call
<1>3. ASSUME NEW p \in Procs, Ping(p) PROVE PingsAccounted'
  BY <1>3 DEF Ping, Go, Call, After
<1>4. ASSUME NEW p \in Procs, NEW o \in {"data", "pingack"},
            Frame(p, o) PROVE PingsAccounted'
  BY <1>4 DEF Frame, Go, Call, After
<1>5. ASSUME NEW p \in Procs, Lock(p) PROVE PingsAccounted'
  BY <1>5 DEF Lock, Go, After, clampGoAwayID, LastStreamID
<1>6. ASSUME NEW p \in Procs, NEW ok \in BOOLEAN, WriteGoAway(p, ok) PROVE PingsAccounted'
  BY <1>6 DEF WriteGoAway, Write, Go, After
<1>7. ASSUME NEW p \in Procs, NEW ok \in BOOLEAN, WritePing(p, ok) PROVE PingsAccounted'
  BY <1>7 DEF WritePing, Write, Go, After
<1>8. ASSUME NEW p \in Procs, NEW ok \in BOOLEAN, WriteFrame(p, ok) PROVE PingsAccounted'
  BY <1>8 DEF WriteFrame, Write, Go, After
<1>9. ASSUME NEW p \in Procs, Hangup(p) PROVE PingsAccounted'
  BY <1>9 DEF Hangup, Go
<1>10. ASSUME NEW p \in Procs, CloseReturns(p) PROVE PingsAccounted'
  BY <1>10 DEF CloseReturns, Go
<1>11. ASSUME NEW p \in Procs, PingAnswered(p) PROVE PingsAccounted'
  BY <1>11 DEF PingAnswered, Go, After
<1>12. ASSUME NEW p \in Procs, PingGivesUp(p) PROVE PingsAccounted'
  BY <1>12 DEF PingGivesUp, Go, After
<1>13. CASE ReaderError
  BY <1>13 DEF ReaderError, Go, Call
<1>14. CASE OnHeaders
  BY <1>14 DEF OnHeaders
<1>15. ASSUME NEW n \in unanswered, deliverPingAck(n) PROVE PingsAccounted'
  BY <1>15 DEF deliverPingAck
<1>16. CASE ReadFails
  BY <1>16 DEF ReadFails, Go
<1>17. CASE ReaderExits
  BY <1>17 DEF ReaderExits, Go
<1>18. CASE Accepts
  <2>1. UNCHANGED <<closed, goAwaySentID, wmu, pingVars, procVars, histVars>>
    BY <1>18, ZenonT(60) DEF Accepts, AcceptStream, deliver, AcceptEnds
  <2> QED BY <2>1
<1>19. CASE PeerStalls \/ PeerReads \/ LinkDies
  <2>1. UNCHANGED <<closed, goAwaySentID, wmu, pingVars, procVars, histVars>>
    BY <1>19 DEF PeerStalls, PeerReads, LinkDies, SetLink
  <2> QED BY <2>1
<1>20. CASE UNCHANGED vars
  BY <1>20 DEF vars
<1> HIDE DEF TeardownInv, TypeOK, WmuInv, ProcInv, PingInv, Pinging, PingsAccounted, Procs,
           GoAways, connVars, netVars, pingVars, procVars, acceptVars, histVars
<1> QED
  BY ZenonT(60), <1>1, <1>2, <1>3, <1>4, <1>5, <1>6, <1>7, <1>8, <1>9, <1>10,
     <1>11, <1>12, <1>13, <1>14, <1>15, <1>16, <1>17, <1>18, <1>19, <1>20
  DEF Next, Starts, Under, ReaderStep, Finished

\* clampGoAwayID stays at or below what is on the wire.
LEMMA NextClamp ==
  ASSUME TeardownInv, [Next]_vars PROVE (goAwaySentID <= lastSent)'
<1> USE DEF TeardownInv, TypeOK, ProcInv, Procs, GoAways,
           connVars, netVars, pingVars, procVars, acceptVars, histVars
<1>1. ASSUME NEW p \in Procs, Close(p) PROVE (goAwaySentID <= lastSent)'
  BY <1>1 DEF Close, Go, Call, readerDone
<1>2. ASSUME NEW p \in Procs, NEW o \in {"goaway", "graceful"},
            GoAway(p, o) PROVE (goAwaySentID <= lastSent)'
  BY <1>2 DEF GoAway, Go, Call
<1>3. ASSUME NEW p \in Procs, Ping(p) PROVE (goAwaySentID <= lastSent)'
  BY <1>3 DEF Ping, Go, Call, After
<1>4. ASSUME NEW p \in Procs, NEW o \in {"data", "pingack"},
            Frame(p, o) PROVE (goAwaySentID <= lastSent)'
  BY <1>4 DEF Frame, Go, Call, After
<1>5. ASSUME NEW p \in Procs, Lock(p) PROVE (goAwaySentID <= lastSent)'
  BY <1>5 DEF Lock, Go, After, clampGoAwayID, LastStreamID
<1>6. ASSUME NEW p \in Procs, NEW ok \in BOOLEAN, WriteGoAway(p, ok) PROVE (goAwaySentID <= lastSent)'
  BY <1>6 DEF WriteGoAway, Write, Go, After
<1>7. ASSUME NEW p \in Procs, NEW ok \in BOOLEAN, WritePing(p, ok) PROVE (goAwaySentID <= lastSent)'
  BY <1>7 DEF WritePing, Write, Go, After
<1>8. ASSUME NEW p \in Procs, NEW ok \in BOOLEAN, WriteFrame(p, ok) PROVE (goAwaySentID <= lastSent)'
  BY <1>8 DEF WriteFrame, Write, Go, After
<1>9. ASSUME NEW p \in Procs, Hangup(p) PROVE (goAwaySentID <= lastSent)'
  BY <1>9 DEF Hangup, Go
<1>10. ASSUME NEW p \in Procs, CloseReturns(p) PROVE (goAwaySentID <= lastSent)'
  BY <1>10 DEF CloseReturns, Go
<1>11. ASSUME NEW p \in Procs, PingAnswered(p) PROVE (goAwaySentID <= lastSent)'
  BY <1>11 DEF PingAnswered, Go, After
<1>12. ASSUME NEW p \in Procs, PingGivesUp(p) PROVE (goAwaySentID <= lastSent)'
  BY <1>12 DEF PingGivesUp, Go, After
<1>13. CASE ReaderError
  BY <1>13 DEF ReaderError, Go, Call
<1>14. CASE OnHeaders
  BY <1>14 DEF OnHeaders
<1>15. ASSUME NEW n \in unanswered, deliverPingAck(n) PROVE (goAwaySentID <= lastSent)'
  BY <1>15 DEF deliverPingAck
<1>16. CASE ReadFails
  BY <1>16 DEF ReadFails, Go
<1>17. CASE ReaderExits
  BY <1>17 DEF ReaderExits, Go
<1>18. CASE Accepts
  <2>1. UNCHANGED <<closed, goAwaySentID, wmu, pingVars, procVars, histVars>>
    BY <1>18, ZenonT(60) DEF Accepts, AcceptStream, deliver, AcceptEnds
  <2> QED BY <2>1
<1>19. CASE PeerStalls \/ PeerReads \/ LinkDies
  <2>1. UNCHANGED <<closed, goAwaySentID, wmu, pingVars, procVars, histVars>>
    BY <1>19 DEF PeerStalls, PeerReads, LinkDies, SetLink
  <2> QED BY <2>1
<1>20. CASE UNCHANGED vars
  BY <1>20 DEF vars
<1> HIDE DEF TeardownInv, TypeOK, ProcInv, Procs, GoAways,
           connVars, netVars, pingVars, procVars, acceptVars, histVars
<1> QED
  BY ZenonT(60), <1>1, <1>2, <1>3, <1>4, <1>5, <1>6, <1>7, <1>8, <1>9, <1>10,
     <1>11, <1>12, <1>13, <1>14, <1>15, <1>16, <1>17, <1>18, <1>19, <1>20
  DEF Next, Starts, Under, ReaderStep, Finished

\* The inductive invariant of teardown.
THEOREM TeardownInvariant == Spec => []TeardownInv
<1>1. Init => TeardownInv
  <2> SUFFICES ASSUME Init PROVE TeardownInv
    OBVIOUS
  <2>1. TypeOK
    <3>1. op \in [Procs -> GoAways \cup {"ping", "data", "pingack"}]
      BY DEF Init, GoAways
    <3>2. pc \in [Procs -> {"idle", "done"}]
      BY DEF Init
    <3>3. acc \in {"call", "done"} /\ payload \in [Procs -> 0..MaxPings]
      BY DEF Init
    <3>4. /\ maxClient \in 0..MaxStreams /\ taken \in 0..maxClient
          /\ pingCounter \in 0..MaxPings
          /\ goAwaySentID = maxStreamID /\ lastSent = maxStreamID
      BY DEF Init
    <3>5. pc \in [Procs -> {"idle", "lock", "write", "hangup", "wait", "join",
                           "failed", "shut", "done"}]
      BY <3>2
    <3> QED BY ZenonT(60), <3>1, <3>3, <3>4, <3>5 DEF Init, TypeOK
  <2>2. WmuInv /\ ProcInv
    BY DEF Init, WmuInv, ProcInv, Procs, GoAways
  <2>3. CloseInv
    BY DEF Init, CloseInv, Closing, Procs
  <2>4. PingInv /\ PingsAccounted /\ goAwaySentID <= lastSent
    BY DEF Init, PingInv, Pinging, PingsAccounted, Procs
  <2> QED BY <2>1, <2>2, <2>3, <2>4 DEF TeardownInv
<1>2. TeardownInv /\ [Next]_vars => TeardownInv'
  BY NextTypeOK, NextWmuInv, NextProcInv, NextCloseInv, NextPingInv,
     NextPingsAccounted, NextClamp DEF TeardownInv
<1> QED BY <1>1, <1>2, PTL DEF Spec

\* pingWaiters and the Pings in progress agree in every reachable state.
THEOREM PingsNeverLeak == Spec => []PingsAccounted
<1>1. TeardownInv => PingsAccounted
  BY DEF TeardownInv
<1> QED BY <1>1, TeardownInvariant, PTL

\* Only the GOAWAY and PING writers put something a peer can answer on the wire.
LEMMA OnlyWritersAnnounce ==
  ASSUME Next
  PROVE  \/ lastSent' = lastSent /\ sent' = sent /\ unanswered' \subseteq unanswered
         \/ \E p \in Procs, ok \in BOOLEAN : WriteGoAway(p, ok) \/ WritePing(p, ok)
<1> DEFINE Silent == lastSent' = lastSent /\ sent' = sent
                     /\ unanswered' \subseteq unanswered
<1>1. ASSUME NEW p \in Procs, Close(p) \/ Ping(p) PROVE Silent
  BY <1>1, ZenonT(60) DEF Close, Ping, pingVars, histVars
<1>2. ASSUME NEW p \in Procs, NEW o, GoAway(p, o) \/ Frame(p, o) PROVE Silent
  BY <1>2, ZenonT(60) DEF GoAway, Frame, pingVars, histVars
<1>3. ASSUME NEW p \in Procs, Lock(p) \/ Hangup(p) \/ CloseReturns(p) PROVE Silent
  BY <1>3, ZenonT(60) DEF Lock, Hangup, CloseReturns, pingVars, histVars
<1>4. ASSUME NEW p \in Procs, PingAnswered(p) \/ PingGivesUp(p) PROVE Silent
  BY <1>4, ZenonT(60) DEF PingAnswered, PingGivesUp, histVars
<1>5. ASSUME NEW p \in Procs, NEW ok \in BOOLEAN, WriteFrame(p, ok) PROVE Silent
  BY <1>5 DEF WriteFrame, pingVars, histVars
<1>6. ASSUME ReaderStep PROVE Silent
  BY <1>6 DEF ReaderStep, ReaderError, OnHeaders, ReadFails, ReaderExits,
              deliverPingAck, pingVars, histVars
<1>7. ASSUME Accepts PROVE Silent
  BY <1>7, ZenonT(60) DEF Accepts, AcceptStream, deliver, AcceptEnds, pingVars, histVars
<1>8. ASSUME PeerStalls \/ PeerReads \/ LinkDies \/ Finished PROVE Silent
  BY <1>8 DEF PeerStalls, PeerReads, LinkDies, SetLink, Finished, vars, pingVars,
              histVars
<1> HIDE DEF Silent
<1> QED
  <2>1. Silent \/ \E p \in Procs, ok \in BOOLEAN : WriteGoAway(p, ok) \/ WritePing(p, ok)
    BY ZenonT(60), <1>1, <1>2, <1>3, <1>4, <1>5, <1>6, <1>7, <1>8
       DEF Next, Starts, Under
  <2> QED
    BY <2>1 DEF Silent

\* The last-stream-id this server announces never rises, for any calls of Close,
\* GoAway, GoAwayGraceful and any connection error.
THEOREM LastStreamIdFalls == Spec => [][GoAwayNeverRises]_vars
<1>1. ASSUME TeardownInv, Next PROVE lastSent' <= lastSent \/ UNCHANGED vars
  <2>1. ASSUME NEW p \in Procs, NEW ok \in BOOLEAN, WriteGoAway(p, ok)
        PROVE lastSent' <= lastSent
    BY <1>1, <2>1 DEF TeardownInv, TypeOK, WriteGoAway
  <2>2. ASSUME NEW p \in Procs, NEW ok \in BOOLEAN, WritePing(p, ok)
        PROVE lastSent' = lastSent
    BY <2>2 DEF WritePing, histVars
  <2>3. lastSent \in Int
    BY <1>1 DEF TeardownInv, TypeOK
  <2> QED BY <1>1, <2>1, <2>2, <2>3, OnlyWritersAnnounce
<1>2. TeardownInv /\ [Next]_vars => [GoAwayNeverRises]_vars
  BY <1>1 DEF GoAwayNeverRises
<1> QED BY <1>2, TeardownInvariant, PTL DEF Spec

\* After Close's GOAWAY this server sends no other GOAWAY and no PING.
THEOREM NothingAfterClose == Spec => [][CloseHasTheLastWord]_vars
<1>1. ASSUME TeardownInv, Next PROVE CloseHasTheLastWord
  <2>1. ASSUME NEW p \in Procs, NEW ok \in BOOLEAN,
               WriteGoAway(p, ok) \/ WritePing(p, ok)
        PROVE CloseHasTheLastWord
    BY <1>1, <2>1, ZenonT(60) DEF CloseHasTheLastWord, TeardownInv, TypeOK, WmuInv, CloseInv, WriteGoAway, WritePing,
                      Write, GoAways, Procs
  <2> QED BY <1>1, <2>1, OnlyWritersAnnounce DEF CloseHasTheLastWord
<1>2. TeardownInv /\ [Next]_vars => [CloseHasTheLastWord]_vars
  BY <1>1
<1> QED BY <1>2, TeardownInvariant, PTL DEF Spec

\* The GOAWAY frames of any number of callers keep their order.
THEOREM GoAwaysKeepOrder == Spec => GoAwaysInOrder
BY LastStreamIdFalls, NothingAfterClose, PTL DEF GoAwaysInOrder

=============================================================================

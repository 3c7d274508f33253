----------------------------- MODULE HealthCall -----------------------------
(***************************************************************************)
(* A Watch call of the health service, from the status update to the wire: *)
(* HealthWatch's stream "call" is the method of a GrpcCall of the kind     *)
(* "watch".  A response that HealthWatch sends in one step is here a call  *)
(* on the response writer, which takes several and may fail between any    *)
(* two of them; its context ends when the stream is reset or its           *)
(* connection closed.                                                      *)
(***************************************************************************)
EXTENDS GrpcCall

CONSTANTS Services, Buffer, MaxUpdates   \* those of HealthWatch

ASSUME HealthAssumption == Buffer \in Nat \ {0} /\ MaxUpdates \in Nat

VARIABLES
  status, updates, watchers, ch, hpc, service, report, sent, dropped, htodo,
  sending   \* a response is on its way through the response writer

healthVars ==
  <<status, updates, watchers, ch, hpc, service, report, sent, dropped, htodo>>
allVars == <<grpcVars, healthVars, sending>>

H == INSTANCE HealthWatch WITH Watches <- {"call"}, pc <- hpc, todo <- htodo

HealthInit ==
  /\ GrpcInit /\ H!Init /\ sending = FALSE
  /\ in.kind # "watch" => service["call"] = CHOOSE s \in Services : TRUE

\* The application sets a status, or shuts the service down.
HealthUpdates ==
  /\ in.kind = "watch" /\ pc # "done"
  /\ \/ \E s \in Services : H!SetServingStatus(s) \/ H!ShutdownMarks(s)
     \/ H!Shutdown
  /\ UNCHANGED <<grpcVars, sending>>

\* Mutant: the first status is read, and only then does the stream subscribe.
WatchStartsLate ==
  /\ InMethod /\ in.kind = "watch" /\ ~ sending
  /\ \/ /\ hpc["call"] = "new" /\ hpc' = [hpc EXCEPT !["call"] = "status"]
        /\ report' = [report EXCEPT !["call"] = status[service["call"]]]
        /\ UNCHANGED <<status, updates, watchers, ch, service, sent, dropped, htodo>>
     \/ /\ hpc["call"] = "status" /\ hpc' = [hpc EXCEPT !["call"] = "send"]
        /\ watchers' = [watchers EXCEPT ![service["call"]] = {"call"}]
        /\ UNCHANGED <<status, updates, ch, service, report, sent, dropped, htodo>>
     \/ H!receive("call")
  /\ UNCHANGED <<grpcVars, sending>>

\* Watch: subscribe, read the status, wait for another.
WatchStarts ==
  /\ InMethod /\ in.kind = "watch" /\ ~ sending
  /\ H!subscribe("call") \/ H!Status("call") \/ H!receive("call")
  /\ UNCHANGED <<grpcVars, sending>>

WatchSends ==
  /\ InMethod /\ hpc["call"] = "send" /\ ~ sending /\ sending' = TRUE
  /\ callData(report["call"]) /\ c' = [c EXCEPT !.mine = FALSE]
  /\ UNCHANGED <<calls, healthVars>>

WatchSent ==
  /\ InMethod /\ sending /\ sending' = FALSE
  /\ H!send("call") /\ (hpc'["call"] = "leave" <=> err)
  /\ UNCHANGED grpcVars

WatchDone ==
  /\ InMethod /\ ~ sending /\ gone
  /\ H!Done("call")
  /\ UNCHANGED <<grpcVars, sending>>

\* The deferred unsubscribe, and the method returns send's error or none.
WatchReturns ==
  /\ InMethod /\ H!unsubscribe("call")
  /\ returns(IF err THEN "other" ELSE "none", FALSE)
  /\ UNCHANGED sending

Watch == WatchStarts \/ WatchSends \/ WatchSent \/ WatchDone \/ WatchReturns

Next ==
  \/ GrpcNext /\ UNCHANGED <<healthVars, sending>>
  \/ HealthUpdates \/ Watch
  \/ pc = "done" /\ UNCHANGED allVars

Spec == HealthInit /\ [][Next]_allVars

\* Goroutines run while they can; a client that may send its body does, or goes away.
FairSpec ==
  /\ Spec
  /\ WF_allVars(ExchangeStep /\ UNCHANGED <<healthVars, sending>>)
  /\ WF_allVars(GrpcHandler /\ UNCHANGED <<healthVars, sending>>)
  /\ WF_allVars(Watch)

-----------------------------------------------------------------------------
(* Properties *)

\* What the client of a Watch call has on its wire is what its method has sent, in order,
\* but for the response being written.
WatchOnWire ==
  in.kind = "watch" =>
    \/ Body = sent["call"]
    \/ sending /\ Body = Append(sent["call"], report["call"])

\* A client that is connected and has nothing left to receive knows the current status,
\* unless its channel has been full; after its first two responses it never receives an
\* older status than it already has; and all of this is on its wire.
WatchCurrent == H!TypeOK /\ H!WatchCurrent /\ H!ChannelInOrder /\ WatchOnWire

\* The client of a Watch call always comes to know the current status, unless its channel
\* has been full; and when its stream is reset, or the connection closed, the call
\* unsubscribes and ends.
WatchLearns ==
  []<>(in.kind = "watch" =>
         \/ pc = "done" /\ watchers = [s \in Services |-> {}]
         \/ ~ gone /\ H!CaughtUp("call") /\ (dropped["call"] \/ H!WatchCurrent))
=============================================================================

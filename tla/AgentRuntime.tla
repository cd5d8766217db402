---------------------------- MODULE AgentRuntime ----------------------------
(***************************************************************************)
(* The endpoint agent's runtime and client (core/runtime.py,               *)
(* communication/client.py, config/settings.py) delivering heartbeats over *)
(* a network that loses and delays.                                        *)
(*                                                                         *)
(* One thread runs the loop, another may stop the runtime at any point:    *)
(*                                                                         *)
(*   run   out -> starting -> check -> tick -> sending -> cycled -> check  *)
(*                            check -> finally -> out                      *)
(*   stop  no -> stopping -> set -> no                                     *)
(*                                                                         *)
(* The client repeats an attempt whose answer it does not get, while the   *)
(* server may still be serving it.  Of the server only this is kept: an    *)
(* attempt it serves stores one telemetry row.                             *)
(***************************************************************************)
EXTENDS Integers

CONSTANTS
  MaxAttempts,  (* the attempts at one heartbeat: 3 in the code            *)
  LastBeat      (* the bound on the agent's clock                          *)

ASSUME RuntimeAssumption == MaxAttempts \in Nat \ {0} /\ LastBeat \in Nat \ {0}

VARIABLES
  state,     (* the runtime's state                                        *)
  stopEvent, (* the event that stop sets                                   *)
  loop,      (* where the loop's thread is                                 *)
  stop,      (* where each thread is in stop()                             *)
  now,       (* the agent's clock                                          *)
  beat,      (* the observation time of the latest heartbeat               *)
  attempt,   (* the attempts made at it                                    *)
  answer,    (* what the client has of the last attempt's answer           *)
  inflight,  (* the attempts that the server has not served                *)
  stored,    (* the telemetry rows of each heartbeat                       *)
  late       (* history: the heartbeats begun since the event was set      *)

threadVars == <<state, stopEvent, loop, stop>>
clientVars == <<beat, attempt, answer, inflight, late>>
runtimeVars == <<threadVars, clientVars, now, stored>>

Threads == {"loop", "other"}
Beats == 1 .. LastBeat
NoBeat == 0

RuntimeInit ==
  /\ state = "stopped"
  /\ stopEvent = FALSE
  /\ loop = "out"
  /\ stop = [th \in Threads |-> "no"]
  /\ now = 1
  /\ beat = NoBeat
  /\ attempt = 0
  /\ answer = "none"
  /\ inflight = {}
  /\ stored = [t \in Beats |-> 0]
  /\ late = 0

-----------------------------------------------------------------------------
(* The loop                                                                *)

Goto(from, to) == loop = from /\ loop' = to

(* start: a runtime that starts or runs already is left alone. *)
EnterRun ==
  /\ beat < now
  /\ IF state \in {"running", "starting"}
     THEN Goto("out", "check") /\ UNCHANGED state
     ELSE Goto("out", "starting") /\ state' = "starting"
  /\ UNCHANGED <<stopEvent, stop, clientVars>>

SettingsValid ==
  /\ Goto("starting", "check")
  /\ state' = "running"
  /\ UNCHANGED <<stopEvent, stop, clientVars>>

SettingsInvalid ==
  /\ Goto("starting", "out")
  /\ state' = "error"
  /\ UNCHANGED <<stopEvent, stop, clientVars>>

(* Mutation of CheckLoop: the event is not looked at. *)
CheckLoopStateOnly ==
  /\ Goto("check", IF state = "running" THEN "tick" ELSE "finally")
  /\ UNCHANGED <<state, stopEvent, stop, clientVars>>

CheckLoop ==
  /\ Goto("check", IF state = "running" /\ ~stopEvent THEN "tick" ELSE "finally")
  /\ UNCHANGED <<state, stopEvent, stop, clientVars>>

(* tick: nothing is sent by a runtime that is no longer running. *)
Tick ==
  /\ IF state = "running"
     THEN /\ Goto("tick", "sending")
          /\ beat' = now /\ attempt' = 0 /\ answer' = "none"
          /\ late' = IF stopEvent THEN late + 1 ELSE late
     ELSE Goto("tick", "cycled") /\ UNCHANGED <<beat, attempt, answer, late>>
  /\ UNCHANGED <<state, stopEvent, stop, inflight>>

(* A cycle ends the loop after an error or the last of max_cycles.         *)
(* Otherwise the loop waits for the stop, or for the interval to pass: the *)
(* clock then shows a later time.                                          *)
EndCycle(last) ==
  /\ Goto("cycled", IF state = "error" \/ last THEN "finally" ELSE "check")
  /\ loop' = "finally" \/ stopEvent \/ beat < now
  /\ UNCHANGED <<state, stopEvent, stop, clientVars>>

(* Mutation of LeaveRun: a loop that ends leaves the state alone. *)
LeaveRunQuietly ==
  /\ stop["loop"] = "no"
  /\ Goto("finally", "out")
  /\ UNCHANGED <<state, stopEvent, stop, clientVars>>

(* A loop that ends while running stops the runtime. *)
LeaveRun ==
  /\ stop["loop"] = "no"
  /\ IF state = "running"
     THEN state' = "stopping" /\ stop' = [stop EXCEPT !["loop"] = "stopping"]
          /\ UNCHANGED loop
     ELSE Goto("finally", "out") /\ UNCHANGED <<state, stop>>
  /\ loop = "finally"
  /\ UNCHANGED <<stopEvent, clientVars>>

-----------------------------------------------------------------------------
(* stop(), called by the loop or by another thread                         *)

StopCalled ==
  /\ stop["other"] = "no"
  /\ state # "stopped"
  /\ state' = "stopping"
  /\ stop' = [stop EXCEPT !["other"] = "stopping"]
  /\ UNCHANGED <<stopEvent, loop, clientVars>>

SetStopEvent(th) ==
  /\ stop[th] = "stopping"
  /\ stopEvent' = TRUE
  /\ stop' = [stop EXCEPT ![th] = "set"]
  /\ UNCHANGED <<state, loop, clientVars>>

StopReturns(th) ==
  /\ stop[th] = "set"
  /\ state' = "stopped"
  /\ stop' = [stop EXCEPT ![th] = "no"]
  /\ UNCHANGED <<stopEvent, loop, clientVars>>

-----------------------------------------------------------------------------
(* The client                                                              *)

(* Mutations of MayRetry and of TimeOut: the attempts are not counted; the *)
(* client waits for its answer for ever.                                   *)
MayRetryAlways == TRUE
TimeOutNever == FALSE

MayRetry == attempt < MaxAttempts

(* An attempt reaches the server, or is lost on the way. *)
Send(arrives) ==
  /\ loop = "sending"
  /\ answer = "none"
  /\ MayRetry
  /\ attempt' = attempt + 1
  /\ inflight' = IF arrives THEN inflight \union {[beat |-> beat, attempt |-> attempt']}
                            ELSE inflight
  /\ answer' = "awaited"
  /\ UNCHANGED <<threadVars, beat, late>>

(* The answer does not come in time, or is a transient error; the server   *)
(* may go on serving the attempt.                                          *)
TimeOut ==
  /\ answer # "none"
  /\ answer' = "none"
  /\ UNCHANGED <<threadVars, beat, attempt, inflight, late>>

Receive ==
  /\ Goto("sending", "cycled")
  /\ answer = "sent"
  /\ answer' = "none"
  /\ UNCHANGED <<state, stopEvent, stop, beat, attempt, inflight, late>>

(* The heartbeat is too large to send, no attempt is left, or the answer   *)
(* is a refusal or cannot be read: the exception puts the runtime into its *)
(* error state.                                                            *)
BeatFails ==
  /\ Goto("sending", "cycled")
  /\ \/ answer \in {"sent", "refused"}
     \/ answer = "none" /\ (~MayRetry \/ attempt = 0)
  /\ state' = "error"
  /\ answer' = "none"
  /\ UNCHANGED <<stopEvent, stop, beat, attempt, inflight, late>>

-----------------------------------------------------------------------------
(* The server                                                              *)

Answer(a, with) ==
  IF answer = "awaited" /\ a = [beat |-> beat, attempt |-> attempt] THEN with ELSE answer

ServeAttempt(a) ==
  /\ inflight' = inflight \ {a}
  /\ stored' = [stored EXCEPT ![a.beat] = @ + 1]
  /\ answer' = Answer(a, "sent")
  /\ UNCHANGED <<threadVars, now, beat, attempt, late>>

(* It is refused, or fails on the server, with nothing stored. *)
RefuseAttempt(a) ==
  /\ inflight' = inflight \ {a}
  /\ answer' = Answer(a, "refused")
  /\ UNCHANGED <<threadVars, now, stored, beat, attempt, late>>

TimePasses ==
  /\ now < LastBeat
  /\ now' = now + 1
  /\ UNCHANGED <<threadVars, clientVars, stored>>

-----------------------------------------------------------------------------

RunStep ==
  /\ \/ EnterRun \/ SettingsValid \/ SettingsInvalid \/ CheckLoop \/ Tick
     \/ \E last \in BOOLEAN : EndCycle(last)
     \/ LeaveRun \/ SetStopEvent("loop") \/ StopReturns("loop")
     \/ \E arrives \in BOOLEAN : Send(arrives)
     \/ TimeOut \/ Receive \/ BeatFails
  /\ UNCHANGED <<now, stored>>

OtherStep ==
  /\ StopCalled \/ SetStopEvent("other") \/ StopReturns("other")
  /\ UNCHANGED <<now, stored>>

RuntimeNext ==
  \/ RunStep \/ OtherStep \/ TimePasses
  \/ \E a \in inflight : ServeAttempt(a) \/ RefuseAttempt(a)

(* A thread inside run() takes its next step in the end: every wait of the *)
(* loop and of the client has a timeout.                                   *)
InsideRun == loop # "out" /\ RunStep

RuntimeSpec ==
  /\ RuntimeInit /\ [][RuntimeNext]_runtimeVars
  /\ WF_runtimeVars(InsideRun) /\ WF_runtimeVars(TimePasses)

-----------------------------------------------------------------------------
(* Properties                                                              *)

(* A heartbeat is stored at most as often as it may be attempted, however  *)
(* many answers were lost and however late the server served them; and one *)
(* whose answer the client has was stored.                                 *)
BeatsAreBounded ==
  /\ \A t \in Beats : stored[t] <= MaxAttempts
  /\ answer = "sent" => stored[beat] > 0

(* After the event is set the loop sends at most the heartbeat it had      *)
(* already decided to send, and is silent for good: the event is never     *)
(* cleared, and a run that starts again ends before its first heartbeat.   *)
StoppedIsSilent == late <= 1

(* The loop's thread and the stopping thread, in any order of their writes *)
(* to the state, do not leave a runtime running that nobody runs.          *)
NotLeftRunning ==
  loop = "out" /\ stop["other"] = "no" => state \in {"stopped", "error"}

(* A stop ends the run, also one in the middle of a heartbeat whose        *)
(* answers never come.                                                     *)
StopEndsRun == stopEvent ~> loop = "out"
=============================================================================

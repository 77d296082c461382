------------------------------ MODULE LogStream ------------------------------
(***************************************************************************)
(* The live log of one execution (services/execution_log_service.py): the  *)
(* threads that read the agent's pipes append lines to a buffer and then   *)
(* broadcast them, the runner writes the row and closes the streams, and   *)
(* each client that opens the SSE endpoint is a generator that replays the *)
(* buffer, registers a queue and forwards what is put into it.             *)
(*                                                                         *)
(* A critical section of _lock is one step that needs the lock free. The   *)
(* replay is not one step: subscribe yields its lines while it holds the   *)
(* lock, so that every yield waits for the client to take the line.        *)
(*                                                                         *)
(* A line is the number of its append. Its text, the notice that counts    *)
(* the lines that a replay leaves out, the "status" event that start_      *)
(* execution sends to nobody and the heartbeats are left out. The warnings *)
(* and the [EXIT] or [TIMEOUT] line of the runner are one line.            *)
(***************************************************************************)
EXTENDS Integers, Sequences

CONSTANTS Readers,      \* the threads of the two pipes
          Runner,       \* the thread of run_trigger
          Clients,      \* one opened stream each; a reconnect is another client
          Nobody,       \* the lock is free
          Verdict,      \* the event "complete"
          EndMark,      \* None in a queue
          ReplayLimit,  \* SSE_REPLAY_LIMIT
          MaxLines,     \* bound: lines of the pipes
          MaxFaults     \* bound: failing writes; a second one would leave the run where it is

ASSUME StreamAssumption ==
  /\ Nobody \notin Clients /\ Runner \notin Readers
  /\ Verdict \notin Nat /\ EndMark \notin Nat /\ Verdict # EndMark
  /\ ReplayLimit \in Nat /\ MaxLines \in Nat /\ MaxFaults \in {0, 1}

VARIABLES
  row,      \* execution_logs.status: "none", "running" or "final"
  run,      \* where the runner is; _log_buffers has an entry from "open" to "close"
  kept,     \* the lines in the buffer are 1..kept
  lines,    \* lines appended so far
  writing,  \* per thread: the line it has appended and not broadcast yet, or 0
  reading,  \* readers that have not come to the end of their pipe
  lock,     \* the client whose replay holds _lock
  subs,     \* _subscribers: the clients whose queue is listed
  queue,    \* per client: its queue
  pc,       \* per client: "off", "replay", "check", "live", "closed"
  next,     \* per client: the next line of its replay
  got,      \* per client: what it was sent (history)
  skipped,  \* per client: lines left out of its replay (history)
  early,    \* clients that registered before the entry was made (history)
  gone,     \* clients that disconnected (history)
  late,     \* lines broadcast after the streams were closed (history)
  faults

Writers == Readers \cup {Runner}
Lines   == 1..(MaxLines + 1)
runVars    == <<row, run, faults>>
lineVars   == <<kept, lines, writing, reading>>
clientVars == <<pc, next, got, skipped, early, gone>>
vars == <<runVars, lineVars, clientVars, lock, subs, queue, late>>
Free == lock = Nobody

Init ==
  /\ row = "none" /\ run = "none" /\ faults = 0
  /\ kept = 0 /\ lines = 0 /\ writing = [w \in Writers |-> 0] /\ reading = {}
  /\ lock = Nobody /\ subs = {} /\ queue = [c \in Clients |-> <<>>]
  /\ pc = [c \in Clients |-> "off"] /\ next = [c \in Clients |-> 1]
  /\ got = [c \in Clients |-> {}] /\ skipped = [c \in Clients |-> 0]
  /\ early = {} /\ gone = {} /\ late = {}

(* _broadcast. What is put into the queue of a generator that has returned *)
(* is of no further interest.                                              *)
PutAll(e) == queue' = [c \in Clients |-> IF c \in subs /\ pc[c] # "closed"
                                         THEN Append(queue[c], e) ELSE queue[c]]

-----------------------------------------------------------------------------
(* start_execution: the row, then the entries, which replace what a client  *)
(* that already saw the row may have put there.                             *)
CreateRow ==
  /\ run = "none" /\ run' = "created" /\ row' = "running"
  /\ UNCHANGED <<faults, lineVars, clientVars, lock, subs, queue, late>>

OpenBuffer ==
  /\ run = "created" /\ Free
  /\ run' = "open" /\ reading' = Readers /\ subs' = {}
  /\ UNCHANGED <<row, faults, kept, lines, writing, clientVars, lock, queue, late>>

(* append_log: one critical section for the buffer, one for the queues. *)
AppendLine(w) ==
  /\ Free /\ writing[w] = 0
  /\ lines' = lines + 1
  /\ kept' = IF run = "done" THEN kept ELSE lines + 1
  /\ writing' = [writing EXCEPT ![w] = lines + 1]

Broadcast(w) ==
  /\ Free /\ writing[w] # 0
  /\ PutAll(writing[w])
  /\ late' = late \cup (IF run = "done" THEN {writing[w]} ELSE {})
  /\ writing' = [writing EXCEPT ![w] = 0]
  /\ UNCHANGED <<kept, lines, reading, clientVars, lock, subs>>

ReadLine(r) ==
  /\ r \in reading /\ lines < MaxLines
  /\ AppendLine(r)
  /\ UNCHANGED <<runVars, reading, clientVars, lock, subs, queue, late>>

ReadEnd(r) ==
  /\ r \in reading /\ writing[r] = 0
  /\ reading' = reading \ {r}
  /\ UNCHANGED <<runVars, kept, lines, writing, clientVars, lock, subs, queue, late>>

(* The process has ended. The readers are joined, with a timeout: a reader  *)
(* that waits for the lock, or whose pipe a grandchild keeps open, goes on. *)
ProcessEnds ==
  /\ run = "open" /\ run' = "exit"
  /\ AppendLine(Runner)
  /\ UNCHANGED <<row, faults, reading, clientVars, lock, subs, queue, late>>

(* finish_execution: the lines are copied under the lock, then the row is   *)
(* written. If that fails, run_trigger's handler calls it once more.        *)
Finish ==
  /\ run = "exit" /\ writing[Runner] = 0 /\ Free
  /\ run' = "write"
  /\ UNCHANGED <<row, faults, lineVars, clientVars, lock, subs, queue, late>>

WriteRow ==
  /\ run = "write"
  /\ \/ run' = "tell" /\ row' = "final" /\ UNCHANGED faults
     \/ faults < MaxFaults /\ faults' = faults + 1 /\ run' = "exit" /\ UNCHANGED row
  /\ UNCHANGED <<lineVars, clientVars, lock, subs, queue, late>>

TellVerdict ==
  /\ run = "tell" /\ Free
  /\ PutAll(Verdict) /\ run' = "close"
  /\ UNCHANGED <<row, faults, lineVars, clientVars, lock, subs, late>>

BugCloseStreams ==
  /\ run = "close" /\ Free
  /\ run' = "done" /\ subs' = {}
  /\ UNCHANGED <<row, faults, lineVars, clientVars, lock, queue, late>>

CloseStreams ==
  /\ run = "close" /\ Free
  /\ run' = "done" /\ PutAll(EndMark) /\ subs' = {}
  /\ UNCHANGED <<row, faults, lineVars, clientVars, lock, late>>

-----------------------------------------------------------------------------
(* subscribe. The route has found the row. *)
Connect(c) ==
  /\ pc[c] = "off" /\ row # "none" /\ Free
  /\ lock' = c /\ pc' = [pc EXCEPT ![c] = "replay"]
  /\ LET from == IF run \in {"created", "done"} THEN kept
                 ELSE IF kept > ReplayLimit THEN kept - ReplayLimit ELSE 0
     IN next' = [next EXCEPT ![c] = from + 1] /\ skipped' = [skipped EXCEPT ![c] = from]
  /\ UNCHANGED <<runVars, lineVars, subs, queue, got, early, gone, late>>

BugReplayed(c) == next[c] >= kept
Replayed(c)    == next[c] > kept

(* The client takes a line; the lock stays held. *)
ReplayLine(c) ==
  /\ pc[c] = "replay" /\ ~Replayed(c)
  /\ got' = [got EXCEPT ![c] = @ \cup {next[c]}]
  /\ next' = [next EXCEPT ![c] = @ + 1]
  /\ UNCHANGED <<runVars, lineVars, lock, subs, queue, pc, skipped, early, gone, late>>

Register(c) ==
  /\ pc[c] = "replay" /\ Replayed(c)
  /\ subs' = subs \cup {c} /\ lock' = Nobody
  /\ pc' = [pc EXCEPT ![c] = "check"]
  /\ early' = IF run = "created" THEN early \cup {c} ELSE early
  /\ next' = [next EXCEPT ![c] = 1]
  /\ UNCHANGED <<runVars, lineVars, queue, got, skipped, gone, late>>

(* The row is final: the verdict is sent and the generator returns, before  *)
(* the try whose finally would take the queue off the list.                 *)
CheckRow(c) ==
  /\ pc[c] = "check"
  /\ pc' = [pc EXCEPT ![c] = IF row = "final" THEN "closed" ELSE "live"]
  /\ got' = [got EXCEPT ![c] = IF row = "final" THEN @ \cup {Verdict} ELSE @]
  /\ queue' = [queue EXCEPT ![c] = IF row = "final" THEN <<>> ELSE @]
  /\ UNCHANGED <<runVars, lineVars, lock, subs, next, skipped, early, gone, late>>

Forward(c) ==
  /\ pc[c] = "live" /\ queue[c] # <<>>
  /\ got' = [got EXCEPT ![c] = @ \cup {Head(queue[c])}]
  /\ queue' = [queue EXCEPT ![c] = Tail(@)]
  /\ pc' = [pc EXCEPT ![c] = IF Head(queue[c]) = EndMark THEN "closed" ELSE @]
  /\ UNCHANGED <<runVars, lineVars, lock, subs, next, skipped, early, gone, late>>

(* GeneratorExit at a yield: the replay releases the lock, the loop takes   *)
(* the queue off the list.                                                  *)
Disconnect(c) ==
  /\ \/ pc[c] = "replay" /\ lock' = Nobody /\ UNCHANGED subs
     \/ pc[c] = "live" /\ Free /\ subs' = subs \ {c} /\ UNCHANGED lock
  /\ pc' = [pc EXCEPT ![c] = "closed"] /\ gone' = gone \cup {c}
  /\ queue' = [queue EXCEPT ![c] = <<>>]
  /\ UNCHANGED <<runVars, lineVars, next, got, skipped, early, late>>

-----------------------------------------------------------------------------
ReadPipe(r) == ReadLine(r) \/ ReadEnd(r)
Say(w) == Broadcast(w) /\ UNCHANGED runVars
RunnerStep == CreateRow \/ OpenBuffer \/ ProcessEnds \/ Finish \/ WriteRow \/ TellVerdict \/ CloseStreams
ClientStep(c) == Connect(c) \/ ReplayLine(c) \/ Register(c) \/ CheckRow(c) \/ Forward(c)

Next ==
  \/ RunnerStep
  \/ \E w \in Writers : Say(w)
  \/ \E r \in Readers : ReadPipe(r)
  \/ \E c \in Clients : ClientStep(c) \/ Disconnect(c)

Spec == Init /\ [][Next]_vars

(* The threads of the run go on, and every client that is connected takes   *)
(* what it is sent or goes away. The second is not the server's to promise: *)
(* without it a client that stops reading in its replay stops the run.      *)
FairSpec ==
  /\ Spec
  /\ WF_vars(RunnerStep) /\ \A w \in Writers : WF_vars(Say(w))
  /\ \A c \in Clients : WF_vars(ReplayLine(c) \/ Register(c) \/ CheckRow(c) \/ Forward(c))

-----------------------------------------------------------------------------
(* What nobody was sent: appended and not broadcast, or broadcast too late. *)
Unsaid == ({writing[w] : w \in Writers} \ {0}) \cup late

(* A stream that is not broken off by its client ends with the verdict. One *)
(* that runs to the end mark has been sent every line but those that its    *)
(* replay announced as left out and those of a reader that outlived its     *)
(* join: no line falls between the replay and the registration, or between  *)
(* the append and the broadcast. Exempt is a client that registered before  *)
(* start_execution made the entries: its queue was thrown away. (A stream   *)
(* that finds the row final just after it registered drops what was put in  *)
(* its queue in between; it never comes to an end mark.)                    *)
StreamIsWhole ==
  \A c \in Clients \ early :
    /\ pc[c] = "closed" /\ c \notin gone => Verdict \in got[c]
    /\ EndMark \in got[c] => (skipped[c] + 1)..lines \subseteq got[c] \cup Unsaid

(* The run comes to its end, and every stream to its.                       *)
StreamsEnd ==
  /\ (run = "created") ~> (run = "done")
  /\ \A c \in Clients : (pc[c] # "off" /\ c \notin early) ~> (pc[c] = "closed" \/ c \in early)
=============================================================================

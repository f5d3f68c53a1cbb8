--------------------------- MODULE HelperSession ---------------------------
(***************************************************************************)
(* The administrator session: the GTK main loop, the root helper it talks   *)
(* to over two pipes, the helper's request threads and the engine processes *)
(* they run.  The main loop, the helper's reader, each request thread and   *)
(* each engine interleave; the pipes are FIFO.                              *)
(***************************************************************************)
EXTENDS Naturals, Sequences

CONSTANTS
  MaxReq,      \* bound: run requests sent
  MaxStop,     \* bound: Stop requests sent
  MaxCrash,    \* bound: helper processes lost
  MaxFault,    \* bound: exceptions while a line of output is handled
  MaxExpire    \* bound: engines that outlast the 120 s safe-stop wait

ASSUME SessionAssumption == {MaxReq, MaxStop, MaxCrash, MaxFault, MaxExpire} \subseteq Nat

Id == 1..MaxReq

NoId == 0

VARIABLES
  gui,         \* the window's fields, see TypeOK
  toHelper,    \* the helper's stdin: run and stop requests
  toGui,       \* the helper's stdout, then the end of file
  helper,      \* the helper process: "down", "auth" (pkexec asks), "up"
  reader,      \* the engine the helper's reader is about to signal, or NoId
  active,      \* _active_request_id and _active_process
  hasOutput,   \* _active_has_output
  pendingStop, \* _pending_stop
  thread,      \* where each request's run_request thread is
  engine,      \* each request's engine process
  signalled,   \* requests whose running engine was sent SIGINT
  count,       \* how often each bounded event happened
  aborted,     \* auxiliary: requests whose engine outlived its helper
  early        \* auxiliary: a Stop signalled an engine before its first output

helperVars == <<helper, reader, active, hasOutput, pendingStop, thread>>

vars == <<gui, toHelper, toGui, helperVars, engine, signalled, count, aborted, early>>

Alive(id) == engine[id] \in {"init", "live"}

Purpose == {"mutation", "analysis"}

-----------------------------------------------------------------------------
(* The main loop.  Operators on the window's fields return the new fields. *)

_set_operation_started(g, purpose) ==
  [g EXCEPT !.busy = TRUE, !.stop_requested = FALSE, !.pending = purpose]

_command_finished(g) == [g EXCEPT !.busy = FALSE, !.stop_requested = FALSE]

(* The request leaves unless the helper process is gone, which fails it. *)
_begin_helper_operation(g) ==
  LET begun == [g EXCEPT !.request_id = @ + 1, !.active_id = g.request_id + 1,
                         !.current = g.pending, !.pending = "none"]
  IN IF helper = "down"
     THEN gui' = _command_finished(begun) /\ toHelper' = toHelper
     ELSE gui' = begun /\ toHelper' = Append(toHelper, [action |-> "run", id |-> begun.active_id])

(* Begin at once when the helper is ready, else keep the command and start  *)
(* a helper unless one is starting.                                         *)
_run_privileged_command(g, purpose) ==
  LET started == _set_operation_started(g, purpose) IN
  IF g.ready
  THEN _begin_helper_operation(started) /\ helper' = helper
  ELSE /\ gui' = [started EXCEPT !.starting = TRUE]
       /\ toHelper' = toHelper
       /\ helper' = IF g.starting THEN helper ELSE "auth"

(* analyze and start_mutation, by the user. *)
StartOperation(purpose) ==
  /\ ~gui.busy
  /\ gui.request_id + 1 < MaxReq       \* leaves an id for the refresh
  /\ _run_privileged_command(gui, purpose)
  /\ UNCHANGED <<toGui, reader, active, hasOutput, pendingStop, thread, engine, signalled,
                 count, aborted, early>>

(* _request_stop.  Before a helper process exists the send raises and the   *)
(* button is enabled again.                                                 *)
_request_stop ==
  /\ gui.busy /\ ~gui.stop_requested
  /\ count.stop < MaxStop
  /\ count' = [count EXCEPT !.stop = @ + 1]
  /\ gui' = [gui EXCEPT !.stop_requested = helper # "down"]
  /\ toHelper' = IF helper = "down" THEN toHelper
                 ELSE Append(toHelper, [action |-> "stop",
                        id |-> IF gui.active_id # NoId THEN gui.active_id ELSE gui.request_id])
  /\ UNCHANGED <<toGui, helperVars, engine, signalled, aborted, early>>

Receive(type) ==
  /\ toGui # <<>> /\ Head(toGui).type = type
  /\ toGui' = Tail(toGui)
  /\ UNCHANGED <<reader, active, hasOutput, pendingStop, thread, engine, signalled, count, aborted, early>>

HandleReady ==
  /\ Receive("ready")
  /\ LET g == [gui EXCEPT !.ready = TRUE, !.starting = FALSE] IN
     IF g.pending = "none"
     THEN gui' = g /\ toHelper' = toHelper
     ELSE _begin_helper_operation(g)
  /\ UNCHANGED helper

(* An error message only adds to the log. *)
HandleError ==
  /\ Receive("error")
  /\ UNCHANGED <<gui, toHelper, helper>>

HandleStopResult ==
  /\ Receive("stop-result")
  /\ gui' = IF Head(toGui).delivered THEN gui ELSE [gui EXCEPT !.stop_requested = FALSE]
  /\ UNCHANGED <<toHelper, helper>>

(* A mutation that succeeded or stopped safely starts the map refresh in    *)
(* the same callback.                                                       *)
HandleFinished ==
  /\ Receive("finished")
  /\ LET m == Head(toGui)
         done == [_command_finished(gui) EXCEPT !.active_id = NoId, !.current = "none"]
     IN IF m.id # gui.active_id \/ gui.current = "none"
        THEN UNCHANGED <<gui, toHelper, helper>>
        ELSE IF gui.current = "mutation" /\ m.returncode # "failed"
        THEN _run_privileged_command(done, "analysis")
        ELSE gui' = done /\ UNCHANGED <<toHelper, helper>>

(* Mutant: the lost helper is only logged. *)
HandleExitLogged ==
  /\ Receive("exit")
  /\ gui' = [gui EXCEPT !.ready = FALSE, !.starting = FALSE]
  /\ UNCHANGED <<toHelper, helper>>

(* _helper_exited, the last event of a helper's output. *)
HandleExit ==
  /\ Receive("exit")
  /\ LET g == [gui EXCEPT !.ready = FALSE, !.starting = FALSE] IN
     gui' = IF g.busy
            THEN [_command_finished(g) EXCEPT !.active_id = NoId, !.current = "none",
                                              !.pending = "none"]
            ELSE g
  /\ UNCHANGED <<toHelper, helper>>

Gui == HandleReady \/ HandleError \/ HandleStopResult \/ HandleFinished \/ HandleExit

-----------------------------------------------------------------------------
(* The helper. *)

emit(message) == toGui' = Append(toGui, message)

(* pkexec ends: the helper announces itself, or access was refused. *)
Authenticate ==
  /\ helper = "auth"
  /\ \/ helper' = "up" /\ emit([type |-> "ready"])
     \/ helper' = "down" /\ emit([type |-> "exit"])
  /\ toHelper' = IF helper' = "down" THEN <<>> ELSE toHelper
  /\ UNCHANGED <<gui, reader, active, hasOutput, pendingStop, thread, engine, signalled, count, aborted, early>>

Read(action) ==
  /\ helper = "up" /\ reader = NoId
  /\ toHelper # <<>> /\ Head(toHelper).action = action
  /\ toHelper' = Tail(toHelper)
  /\ UNCHANGED <<gui, helper, active, hasOutput, engine, signalled, count, aborted, early>>

(* The check for an active operation and the thread's own registration of   *)
(* its process are separate steps.                                          *)
handle_run ==
  /\ Read("run")
  /\ LET id == Head(toHelper).id IN
     IF active # NoId
     THEN emit([type |-> "error", id |-> id]) /\ thread' = thread
     ELSE thread' = [thread EXCEPT ![id] = "started"] /\ toGui' = toGui
  /\ UNCHANGED <<reader, pendingStop>>

(* Mutant: the answer to a Stop has a type the window does not know. *)
handle_stop_mistyped ==
  /\ Read("stop")
  /\ emit([type |-> "stopped", delivered |-> active # NoId])
  /\ reader' = active
  /\ UNCHANGED <<pendingStop, thread>>

(* Mutant: the Stop is not queued while the engine starts. *)
handle_stop_at_once ==
  /\ Read("stop")
  /\ IF active = NoId
     THEN emit([type |-> "stop-result", delivered |-> FALSE]) /\ reader' = reader
     ELSE reader' = active /\ toGui' = toGui
  /\ UNCHANGED <<pendingStop, thread>>

(* A Stop is queued until the engine's first output; otherwise the signal   *)
(* is sent after the lock is released.                                      *)
handle_stop ==
  /\ Read("stop")
  /\ IF active = NoId
     THEN emit([type |-> "stop-result", delivered |-> FALSE]) /\ UNCHANGED <<reader, pendingStop>>
     ELSE IF ~hasOutput
     THEN emit([type |-> "stop-result", delivered |-> TRUE]) /\ pendingStop' = TRUE /\ reader' = reader
     ELSE reader' = active /\ UNCHANGED <<toGui, pendingStop>>
  /\ UNCHANGED thread

(* SIGINT to the process group; a process not yet reaped ignores it. *)
Signal(id) ==
  /\ signalled' = IF Alive(id) THEN signalled \cup {id} ELSE signalled
  /\ early' = (early \/ engine[id] = "init")

(* killpg fails only once the request thread has reaped its process. *)
SendSignal ==
  /\ helper = "up" /\ reader # NoId
  /\ LET reaped == thread[reader] \in {"cleanup", "done"} IN
     /\ emit([type |-> "stop-result", delivered |-> ~reaped])
     /\ IF reaped THEN UNCHANGED <<signalled, early>> ELSE Signal(reader)
  /\ reader' = NoId
  /\ UNCHANGED <<gui, toHelper, helper, active, hasOutput, pendingStop, thread, engine, count,
                 aborted>>

-----------------------------------------------------------------------------
(* run_request, a thread per accepted request. *)

ThreadStep(id, from, to) ==
  /\ helper = "up"
  /\ thread[id] = from
  /\ thread' = [thread EXCEPT ![id] = to]
  /\ UNCHANGED <<gui, toHelper, helper, reader, aborted>>

Spawn(id) ==
  /\ ThreadStep(id, "started", "spawned")
  /\ engine' = [engine EXCEPT ![id] = "init"]
  /\ UNCHANGED <<toGui, active, hasOutput, pendingStop, signalled, count, early>>

(* allowed_command or Popen raises: the request fails before it has begun. *)
SpawnFails(id) ==
  /\ ThreadStep(id, "started", "cleanup")
  /\ toGui' = toGui \o <<[type |-> "error", id |-> id],
                         [type |-> "finished", id |-> id, returncode |-> "failed"]>>
  /\ UNCHANGED <<active, hasOutput, pendingStop, engine, signalled, count, early>>

Register(id) ==
  /\ ThreadStep(id, "spawned", "reading")
  /\ active' = id /\ hasOutput' = FALSE /\ pendingStop' = FALSE
  /\ UNCHANGED <<toGui, engine, signalled, count, early>>

(* The first line of output takes a queued Stop, delivered after it. *)
FirstLine(id) ==
  /\ engine[id] \in {"live", "exited"} /\ ~hasOutput
  /\ ThreadStep(id, "reading", IF pendingStop THEN "deliver" ELSE "reading")
  /\ hasOutput' = TRUE /\ pendingStop' = FALSE
  /\ UNCHANGED <<toGui, active, engine, signalled, count, early>>

DeliverQueuedStop(id) ==
  /\ ThreadStep(id, "deliver", "reading")
  /\ Signal(id)
  /\ emit([type |-> "stop-result", delivered |-> TRUE])
  /\ UNCHANGED <<active, hasOutput, pendingStop, engine, count>>

(* Mutant: the result is reported without waiting for the process. *)
ReportFinishedEarly(id) ==
  /\ hasOutput
  /\ ThreadStep(id, "reading", "cleanup")
  /\ \E rc \in {"ok", "failed"} : emit([type |-> "finished", id |-> id, returncode |-> rc])
  /\ UNCHANGED <<active, hasOutput, pendingStop, engine, signalled, count, early>>

(* End of output: the process is reaped, then the result is reported.  An   *)
(* engine that succeeds or stops safely has printed its result.             *)
ReportFinished(id) ==
  /\ engine[id] \in {"exited", "silent"}
  /\ engine[id] = "exited" => hasOutput
  /\ ThreadStep(id, "reading", "cleanup")
  /\ \E rc \in {"failed"} \cup (IF engine[id] = "exited" THEN {"ok"} ELSE {})
                         \cup (IF id \in signalled THEN {"stopped"} ELSE {}) :
       emit([type |-> "finished", id |-> id, returncode |-> rc])
  /\ UNCHANGED <<active, hasOutput, pendingStop, engine, signalled, count, early>>

(* An exception while a line is handled: a running engine is told to stop   *)
(* and waited for, at most 120 s, before the failure is reported.           *)
HandlingFails(id) ==
  /\ count.fault < MaxFault /\ hasOutput
  /\ count' = [count EXCEPT !.fault = @ + 1]
  /\ ThreadStep(id, "reading", "stopping")
  /\ Signal(id)
  /\ UNCHANGED <<toGui, active, hasOutput, pendingStop, engine>>

ReportFailed(id) ==
  /\ ThreadStep(id, "stopping", "cleanup")
  /\ IF Alive(id)
     THEN count.expire < MaxExpire /\ count' = [count EXCEPT !.expire = @ + 1]
     ELSE count' = count
  /\ toGui' = toGui \o <<[type |-> "error", id |-> id],
                         [type |-> "finished", id |-> id, returncode |-> "failed"]>>
  /\ UNCHANGED <<active, hasOutput, pendingStop, engine, signalled, early>>

(* finally: the operation is forgotten, after its end was reported. *)
Cleanup(id) ==
  /\ ThreadStep(id, "cleanup", "done")
  /\ active' = NoId /\ hasOutput' = FALSE /\ pendingStop' = FALSE
  /\ UNCHANGED <<toGui, engine, signalled, count, early>>

Thread(id) ==
  \/ Spawn(id) \/ SpawnFails(id) \/ Register(id) \/ FirstLine(id)
  \/ DeliverQueuedStop(id) \/ ReportFinished(id)
  \/ HandlingFails(id) \/ ReportFailed(id) \/ Cleanup(id)

-----------------------------------------------------------------------------
(* The engine process: it installs its handlers, writes output and ends. *)
EngineStep(id, from, to) ==
  /\ engine[id] = from
  /\ engine' = [engine EXCEPT ![id] = to]
  /\ UNCHANGED <<gui, toHelper, toGui, helperVars, signalled, count, aborted, early>>

FirstOutput(id) == EngineStep(id, "init", "live")

EngineExits(id) == EngineStep(id, "live", "exited")

EngineExitsSilently(id) == EngineStep(id, "init", "silent")

Engine(id) == FirstOutput(id) \/ EngineExits(id) \/ EngineExitsSilently(id)

(* The helper process is lost; its engines run on in their own sessions. *)
HelperCrash ==
  /\ helper = "up" /\ count.crash < MaxCrash
  /\ count' = [count EXCEPT !.crash = @ + 1]
  /\ helper' = "down" /\ reader' = NoId
  /\ active' = NoId /\ hasOutput' = FALSE /\ pendingStop' = FALSE
  /\ thread' = [id \in Id |-> IF thread[id] = "none" THEN "none" ELSE "done"]
  /\ aborted' = aborted \cup {id \in Id : Alive(id)}
  /\ toHelper' = <<>>
  /\ emit([type |-> "exit"])
  /\ UNCHANGED <<gui, engine, signalled, early>>

-----------------------------------------------------------------------------
(* The window opens and asks for the administrator session. *)
Init ==
  /\ gui = [busy |-> FALSE, stop_requested |-> FALSE, ready |-> FALSE, starting |-> TRUE,
            pending |-> "none", current |-> "none", active_id |-> NoId, request_id |-> 0]
  /\ toHelper = <<>> /\ toGui = <<>>
  /\ helper = "auth" /\ reader = NoId
  /\ active = NoId /\ hasOutput = FALSE /\ pendingStop = FALSE
  /\ thread = [id \in Id |-> "none"]
  /\ engine = [id \in Id |-> "none"]
  /\ signalled = {}
  /\ count = [stop |-> 0, crash |-> 0, fault |-> 0, expire |-> 0]
  /\ aborted = {} /\ early = FALSE

User == _request_stop \/ \E purpose \in Purpose : StartOperation(purpose)

HelperReader == handle_run \/ handle_stop \/ SendSignal

Next ==
  \/ User \/ Gui \/ Authenticate \/ HelperReader \/ HelperCrash
  \/ \E id \in Id : Thread(id) \/ Engine(id)

Spec == Init /\ [][Next]_vars

(* Every thread runs, pkexec is answered and an engine ends; the user does  *)
(* nothing for certain.                                                     *)
FairSpec ==
  /\ Spec
  /\ WF_vars(Gui) /\ WF_vars(Authenticate) /\ WF_vars(HelperReader)
  /\ \A id \in Id : WF_vars(Thread(id)) /\ WF_vars(Engine(id))

-----------------------------------------------------------------------------
TypeOK ==
  /\ gui \in [busy : BOOLEAN, stop_requested : BOOLEAN, ready : BOOLEAN, starting : BOOLEAN,
              pending : Purpose \cup {"none"}, current : Purpose \cup {"none"},
              active_id : Id \cup {NoId}, request_id : 0..MaxReq]
  /\ \A i \in DOMAIN toHelper : toHelper[i].action \in {"run", "stop"}
  /\ \A i \in DOMAIN toGui :
       toGui[i].type \in {"ready", "error", "stop-result", "finished", "exit"}
  /\ helper \in {"down", "auth", "up"}
  /\ reader \in Id \cup {NoId} /\ active \in Id \cup {NoId}
  /\ hasOutput \in BOOLEAN /\ pendingStop \in BOOLEAN
  /\ thread \in [Id -> {"none", "started", "spawned", "reading", "deliver", "stopping",
                    "cleanup", "done"}]
  /\ engine \in [Id -> {"none", "init", "live", "exited", "silent"}]
  /\ signalled \subseteq Id
  /\ count \in [stop : 0..MaxStop, crash : 0..MaxCrash, fault : 0..MaxFault, expire : 0..MaxExpire]
  /\ aborted \subseteq Id /\ early \in BOOLEAN

(* A window that offers its buttons has no engine of its session at work:   *)
(* "finished" is sent only after the engine has left the device.  Engines   *)
(* that outlived a lost helper are the exception.                           *)
NoEngineWhenIdle == ~gui.busy => \A id \in Id : Alive(id) => id \in aborted

(* Two engines never work at once, although handle_run's check and the      *)
(* thread's registration are not atomic.                                    *)
OneEngine == \A i, j \in Id \ aborted : Alive(i) /\ Alive(j) => i = j

(* handle_stop never signals an engine that has not installed its handlers: *)
(* a Stop before the first output is queued.                                *)
NoEarlySignal == ~early

(* Every operation the helper accepted ends in the window too, whatever     *)
(* Stop requests, exceptions in its thread or the loss of the helper meet   *)
(* it: run_request always reports "finished" or _helper_exited stands in.   *)
AcceptedEnds ==
  \A id \in Id : (gui.busy /\ gui.active_id = id /\ thread[id] # "none") ~> gui.active_id # id

(* The window never stays busy for ever: every operation it starts ends,    *)
(* the map refresh after a safe stop included.                              *)
BusyEnds == gui.busy ~> ~gui.busy
=============================================================================

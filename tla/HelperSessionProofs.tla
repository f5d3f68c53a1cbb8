------------------------ MODULE HelperSessionProofs -------------------------
(***************************************************************************)
(* Safety of the administrator session for every bound on requests, Stops, *)
(* lost helpers, exceptions and expired waits.  The inductive invariant says *)
(* that the operation the window waits for is in one place: a run request on *)
(* its way to the helper, a request thread, or a "finished" message on its *)
(* way back.  First what adding and taking a message does to the two pipes *)
(* and the steps of the request threads and of the engines, then the       *)
(* window's handlers and the theorems.                                     *)
(***************************************************************************)
EXTENDS HelperSession, TLAPS

(* What the pipes carry. *)
Request == [action : {"run", "stop"}, id : Id \cup {NoId}]

Message ==
  [type : {"ready", "exit"}] \cup [type : {"error"}, id : Id]
  \cup [type : {"stop-result"}, delivered : BOOLEAN]
  \cup [type : {"finished"}, id : Id, returncode : {"ok", "failed", "stopped"}]

(* run_request is under way and has not reported its end. *)
Working(id) == thread[id] \in {"started", "spawned", "reading", "deliver", "stopping"}

(* The helper's output: its end is the last message, and a request whose    *)
(* end was reported has left run_request's loop.                            *)
Inbox ==
  /\ toGui \in Seq(Message)
  /\ \A i \in DOMAIN toGui :
       /\ toGui[i].type = "exit" => helper = "down" /\ i = Len(toGui)
       /\ toGui[i].type = "finished" => thread[toGui[i].id] \in {"cleanup", "done"}

(* The helper's input: at most one run request, the window's operation. *)
Outbox ==
  /\ toHelper \in Seq(Request)
  /\ helper = "down" => toHelper = <<>>
  /\ \A i \in DOMAIN toHelper : toHelper[i].action = "run" =>
       /\ gui.busy /\ gui.ready
       /\ toHelper[i].id = gui.active_id /\ gui.active_id # NoId
       /\ thread[gui.active_id] = "none"
  /\ \A i, k \in DOMAIN toHelper :
       toHelper[i].action = "run" /\ toHelper[k].action = "run" => i = k

(* No helper is started before the end of the previous one was handled. *)
Helpers ==
  /\ helper = "auth" => toGui = <<>> /\ gui.starting /\ ~gui.ready
  /\ ~gui.ready /\ ~gui.starting => helper = "down" /\ toGui = <<>>
  /\ gui.pending # "none" => gui.busy /\ ~gui.ready /\ gui.starting

(* Request numbers: none is used twice, and one is left for the refresh. *)
Numbers ==
  /\ gui.active_id \in {NoId, gui.request_id}
  /\ \A id \in Id : id > gui.request_id => thread[id] = "none" /\ engine[id] = "none"
  /\ gui.pending = "mutation" => gui.request_id + 1 < MaxReq
  /\ gui.pending = "analysis" => gui.request_id < MaxReq
  /\ gui.current = "mutation" => gui.request_id < MaxReq

(* A thread at work has the operation the window waits for, and the window *)
(* waits for a request that has had a thread.                              *)
Threads ==
  /\ \A id \in Id : Working(id) =>
       helper = "up" /\ gui.busy /\ gui.ready /\ gui.active_id = id
  /\ \A id \in Id : thread[id] # "none" /\ gui.active_id = id =>
       gui.busy /\ gui.pending = "none"

(* Engines have a thread, unless their helper was lost. *)
Supervised ==
  /\ \A id \in Id : thread[id] \in {"none", "started"} => engine[id] = "none"
  /\ MaxExpire = 0 => \A id \in Id : Alive(id) /\ id \notin aborted => Working(id)

(* The engine has written its first line, so its handlers are installed. *)
Printed(id) == engine[id] \notin {"none", "init"}

(* The thread has published its engine in _active_process. *)
Registered(id) == thread[id] \in {"reading", "deliver", "stopping", "cleanup", "done"}

(* What the globals under _active_lock say of the engine that is signalled. *)
Signals ==
  /\ reader # NoId => Registered(reader) /\ Printed(reader)
  /\ active # NoId => Registered(active) /\ (hasOutput => Printed(active))
  /\ \A id \in Id : thread[id] \in {"reading", "deliver", "stopping"} => active \in {NoId, id}
  /\ \A id \in Id : hasOutput /\ thread[id] = "reading" => Printed(id)
  /\ \A id \in Id : thread[id] = "deliver" => Printed(id)
  /\ ~early

(* The state of the window, of a thread and of the bounds. *)
GuiFields ==
  [busy : BOOLEAN, stop_requested : BOOLEAN, ready : BOOLEAN, starting : BOOLEAN,
   pending : Purpose \cup {"none"}, current : Purpose \cup {"none"},
   active_id : Id \cup {NoId}, request_id : 0..MaxReq]

ThreadPlace ==
  {"none", "started", "spawned", "reading", "deliver", "stopping", "cleanup", "done"}

Counts == [stop : 0..MaxStop, crash : 0..MaxCrash, fault : 0..MaxFault, expire : 0..MaxExpire]

(* TypeOK without the pipes. *)
Fields ==
  /\ gui \in GuiFields
  /\ helper \in {"down", "auth", "up"}
  /\ reader \in Id \cup {NoId} /\ active \in Id \cup {NoId}
  /\ hasOutput \in BOOLEAN /\ pendingStop \in BOOLEAN
  /\ thread \in [Id -> ThreadPlace]
  /\ engine \in [Id -> {"none", "init", "live", "exited", "silent"}]
  /\ signalled \subseteq Id
  /\ count \in Counts
  /\ aborted \subseteq Id /\ early \in BOOLEAN

(* Holds in every state of the session: see SessionInvariant. *)
SessionInv ==
  Fields /\ Inbox /\ Outbox /\ Helpers /\ Numbers /\ Threads /\ Supervised /\ Signals

-----------------------------------------------------------------------------

(* What the receiver of a queue finds after an Append or a Tail. *)
LEMMA AppendFacts ==
  ASSUME NEW S, NEW q \in Seq(S), NEW m \in S
  PROVE  /\ Append(q, m) \in Seq(S) /\ Append(q, m) # <<>>
         /\ Len(Append(q, m)) = Len(q) + 1
         /\ \A i \in DOMAIN Append(q, m) :
              \/ i \in DOMAIN q /\ Append(q, m)[i] = q[i]
              \/ i = Len(Append(q, m)) /\ Append(q, m)[i] = m
  OBVIOUS

(* What is left of a queue when its first message was taken. *)
LEMMA TailFacts ==
  ASSUME NEW S, NEW q \in Seq(S), q # <<>>
  PROVE  /\ Tail(q) \in Seq(S) /\ Len(Tail(q)) = Len(q) - 1
         /\ Head(q) = q[1] /\ Head(q) \in S /\ 1 \in DOMAIN q
         /\ Len(q) = 1 => Tail(q) = <<>>
         /\ \A i \in DOMAIN Tail(q) : i \in Nat /\ i # 0 /\ i + 1 \in DOMAIN q /\ Tail(q)[i] = q[i + 1]
  <1>1. /\ Tail(q) \in Seq(S) /\ Len(Tail(q)) = Len(q) - 1
        /\ Head(q) = q[1] /\ Head(q) \in S /\ 1 \in DOMAIN q
        /\ \A i \in DOMAIN Tail(q) : i \in Nat /\ i # 0 /\ i + 1 \in DOMAIN q /\ Tail(q)[i] = q[i + 1]
    OBVIOUS
  <1>2. \A t \in Seq(S) : Len(t) = 0 => t = <<>>
    OBVIOUS
  <1> QED
    BY <1>1, <1>2, SMT

(* What the helper can write. *)
LEMMA MessageTypes ==
  ASSUME NEW q \in Seq(Message)
  PROVE  \A i \in DOMAIN q : q[i].type \in {"ready", "error", "stop-result", "finished", "exit"}
  BY DEF Message

(* What the window can write. *)
LEMMA RequestTypes ==
  ASSUME NEW q \in Seq(Request)
  PROVE  \A i \in DOMAIN q : q[i].action \in {"run", "stop"} /\ q[i].id \in Id \cup {NoId}
  <1>1. \A i \in DOMAIN q : q[i] \in Request
    OBVIOUS
  <1>2. \A m \in Request : m.action \in {"run", "stop"} /\ m.id \in Id \cup {NoId}
    BY DEF Request
  <1> QED
    BY <1>1, <1>2

(* The invariant is at least as strong as the type invariant. *)
LEMMA InvTypes == SessionInv => TypeOK
  BY MessageTypes, RequestTypes DEF SessionInv, Fields, GuiFields, ThreadPlace, Counts, Inbox, Outbox, TypeOK

(* The helper writes a message. *)
LEMMA InboxAppend ==
  ASSUME Inbox, NEW m \in Message, toGui' = Append(toGui, m), helper # "down",
         m.type = "exit" => helper' = "down",
         \A id \in Id : thread[id] \in {"cleanup", "done"} => thread'[id] \in {"cleanup", "done"},
         m.type = "finished" => thread'[m.id] \in {"cleanup", "done"}
  PROVE  Inbox' /\ toGui' # <<>>
  <1>1. \A i \in DOMAIN toGui : toGui[i].type = "finished" => toGui[i].id \in Id
    BY DEF Inbox, Message
  <1> QED
    BY <1>1, AppendFacts, SMT DEF Inbox

(* The window takes one. *)
LEMMA InboxTail ==
  ASSUME Inbox, toGui # <<>>, toGui' = Tail(toGui), UNCHANGED <<helper, thread>>
  PROVE  /\ Inbox' /\ Head(toGui) \in Message
         /\ Head(toGui).type = "exit" => helper = "down" /\ toGui' = <<>>
         /\ Head(toGui).type = "finished" => thread[Head(toGui).id] \in {"cleanup", "done"}
  BY TailFacts DEF Inbox

(* A step of a thread or of the helper that writes nothing. *)
LEMMA InboxSame ==
  ASSUME Inbox, UNCHANGED toGui, helper = "down" => helper' = "down" \/ toGui = <<>>,
         \A id \in Id : thread[id] \in {"cleanup", "done"} => thread'[id] \in {"cleanup", "done"}
  PROVE  Inbox'
  <1>1. \A i \in DOMAIN toGui : toGui[i].type = "finished" => toGui[i].id \in Id
    BY DEF Inbox, Message
  <1> QED
    BY <1>1, SMT DEF Inbox

(* The helper takes a request; only a run request lets a thread begin. *)
LEMMA OutboxTail ==
  ASSUME Outbox, toHelper # <<>>, toHelper' = Tail(toHelper), UNCHANGED <<helper, gui>>,
         helper # "down", thread' # thread => Head(toHelper).action = "run"
  PROVE  Outbox' /\ Head(toHelper) = toHelper[1] /\ 1 \in DOMAIN toHelper
         /\ Head(toHelper).id \in Id \cup {NoId}
  BY TailFacts, RequestTypes DEF Outbox

(* A step that leaves the requests alone starts no thread. *)
LEMMA OutboxSame ==
  ASSUME Outbox, UNCHANGED <<toHelper, helper, gui>>,
         \A id \in Id : thread[id] = "none" => thread'[id] = "none",
         gui.active_id \in Id \cup {NoId}
  PROVE  Outbox'
  BY DEF Outbox

(* The two messages of a request that failed. *)
LEMMA InboxFailed ==
  ASSUME Inbox, NEW id \in Id, helper # "down",
         toGui' = toGui \o <<[type |-> "error", id |-> id],
                             [type |-> "finished", id |-> id, returncode |-> "failed"]>>,
         \A k \in Id : thread[k] \in {"cleanup", "done"} => thread'[k] \in {"cleanup", "done"},
         thread'[id] \in {"cleanup", "done"}
  PROVE  Inbox' /\ toGui' # <<>>
  <1> DEFINE a == [type |-> "error", id |-> id]
             b == [type |-> "finished", id |-> id, returncode |-> "failed"]
  <1>1. a \in Message /\ b \in Message
    BY DEF Message
  <1>2. toGui \in Seq(Message)
    BY DEF Inbox
  <1> HIDE DEF a, b
  <1>3. toGui \o <<a, b>> = Append(Append(toGui, a), b)
    BY <1>1, <1>2
  <1>4. /\ toGui' \in Seq(Message) /\ toGui' # <<>>
        /\ \A i \in DOMAIN toGui' :
             \/ i \in DOMAIN toGui /\ toGui'[i] = toGui[i]
             \/ toGui'[i] = a
             \/ toGui'[i] = b
    <2>1. toGui' = Append(Append(toGui, a), b)
      BY <1>3 DEF a, b
    <2> DEFINE c == Append(toGui, a)
    <2>2. /\ c \in Seq(Message)
          /\ \A i \in DOMAIN c : (i \in DOMAIN toGui /\ c[i] = toGui[i]) \/ c[i] = a
      BY <1>1, <1>2, AppendFacts
    <2> HIDE DEF c
    <2>3. /\ Append(c, b) \in Seq(Message) /\ Append(c, b) # <<>>
          /\ \A i \in DOMAIN Append(c, b) :
               (i \in DOMAIN c /\ Append(c, b)[i] = c[i]) \/ Append(c, b)[i] = b
      BY <1>1, <2>2, AppendFacts
    <2>4. toGui' = Append(c, b)
      BY <2>1 DEF c
    <2> QED
      BY Zenon, <2>2, <2>3, <2>4
  <1>5. \A i \in DOMAIN toGui : toGui[i].type = "finished" => toGui[i].id \in Id
    BY DEF Inbox, Message
  <1>6. a.type = "error" /\ b.type = "finished" /\ b.id = id
    BY DEF a, b
  <1>7. ASSUME NEW i \in DOMAIN toGui'
        PROVE  /\ toGui'[i].type = "exit" => helper' = "down" /\ i = Len(toGui')
               /\ toGui'[i].type = "finished" => thread'[toGui'[i].id] \in {"cleanup", "done"}
    <2>1. CASE i \in DOMAIN toGui /\ toGui'[i] = toGui[i]
      BY <2>1, <1>5 DEF Inbox
    <2>2. CASE toGui'[i] = a \/ toGui'[i] = b
      BY <2>2, <1>6
    <2> QED
      BY <1>4, <2>1, <2>2
  <1> QED
    BY <1>4, <1>7 DEF Inbox

(* Every bounded event is counted up to its bound. *)
LEMMA CountUp ==
  ASSUME NEW c \in Counts
  PROVE  /\ c.stop < MaxStop => [c EXCEPT !.stop = @ + 1] \in Counts
         /\ c.crash < MaxCrash => [c EXCEPT !.crash = @ + 1] \in Counts
         /\ c.fault < MaxFault => [c EXCEPT !.fault = @ + 1] \in Counts
         /\ c.expire < MaxExpire => [c EXCEPT !.expire = @ + 1] \in Counts
  BY SessionAssumption DEF Counts

-----------------------------------------------------------------------------
(* run_request starts the engine process. *)
LEMMA SpawnKeeps ==
  ASSUME SessionInv, NEW id \in Id, Spawn(id)
  PROVE  SessionInv'
  <1> USE DEF SessionInv, Spawn, ThreadStep, Id, NoId
  <1>1. Fields'
    BY DEF Fields, ThreadPlace
  <1>2. Inbox'
    BY InboxSame DEF Fields
  <1>3. Outbox'
    BY OutboxSame DEF Fields, GuiFields
  <1>4. Helpers'
    BY DEF Helpers, Fields
  <1>5. Numbers'
    BY DEF Numbers, Threads, Working, Fields
  <1>6. Threads'
    BY DEF Threads, Working, Fields
  <1>7. Supervised'
    BY DEF Supervised, Threads, Working, Alive, Fields
  <1>8. Signals'
    BY DEF Signals, Threads, Working, Registered, Printed, Fields
  <1> QED
    BY <1>1, <1>2, <1>3, <1>4, <1>5, <1>6, <1>7, <1>8

(* Popen raises and the request is reported as failed. *)
LEMMA SpawnFailsKeeps ==
  ASSUME SessionInv, NEW id \in Id, SpawnFails(id)
  PROVE  SessionInv'
  <1> USE DEF SessionInv, SpawnFails, ThreadStep, Id, NoId
  <1>1. Fields'
    BY DEF Fields, ThreadPlace
  <1>2. Inbox'
    BY Zenon, InboxFailed DEF Fields
  <1>3. Outbox'
    BY OutboxSame DEF Fields, GuiFields
  <1>4. Helpers'
    BY DEF Helpers, Fields
  <1>5. Numbers'
    BY DEF Numbers, Threads, Working, Fields
  <1>6. Threads'
    BY DEF Threads, Working, Fields
  <1>7. Supervised'
    BY DEF Supervised, Threads, Working, Alive, Fields
  <1>8. Signals'
    BY DEF Signals, Threads, Working, Registered, Printed, Fields
  <1> QED
    BY <1>1, <1>2, <1>3, <1>4, <1>5, <1>6, <1>7, <1>8

(* run_request registers its engine under _active_lock. *)
LEMMA RegisterKeeps ==
  ASSUME SessionInv, NEW id \in Id, Register(id)
  PROVE  SessionInv'
  <1> USE DEF SessionInv, Register, ThreadStep, Id, NoId
  <1>1. Fields'
    BY Zenon DEF Fields, ThreadPlace
  <1>2. Inbox'
    BY InboxSame DEF Fields
  <1>3. Outbox'
    BY OutboxSame DEF Fields, GuiFields
  <1>4. Helpers'
    BY DEF Helpers, Fields
  <1>5. Numbers'
    BY DEF Numbers, Threads, Working, Fields
  <1>6. Threads'
    BY DEF Threads, Working, Fields
  <1>7. Supervised'
    BY DEF Supervised, Threads, Working, Alive, Fields
  <1>8. Signals'
    BY DEF Signals, Threads, Working, Registered, Printed, Fields
  <1> QED
    BY <1>1, <1>2, <1>3, <1>4, <1>5, <1>6, <1>7, <1>8

(* The first output line is seen: a queued Stop is taken up. *)
LEMMA FirstLineKeeps ==
  ASSUME SessionInv, NEW id \in Id, FirstLine(id)
  PROVE  SessionInv'
  <1> USE DEF SessionInv, FirstLine, ThreadStep, Id, NoId
  <1>1. Fields'
    <2>1. thread' \in [Id -> ThreadPlace]
      BY DEF Fields, ThreadPlace
    <2> QED
      BY Zenon, <2>1 DEF Fields
  <1>2. Inbox'
    BY InboxSame DEF Fields
  <1>3. Outbox'
    BY OutboxSame DEF Fields, GuiFields
  <1>4. Helpers'
    BY DEF Helpers, Fields
  <1>5. Numbers'
    BY DEF Numbers, Threads, Working, Fields
  <1>6. Threads'
    BY DEF Threads, Working, Fields
  <1>7. Supervised'
    BY DEF Supervised, Threads, Working, Alive, Fields
  <1>8. Signals'
    BY DEF Signals, Threads, Working, Registered, Printed, Fields
  <1> QED
    BY <1>1, <1>2, <1>3, <1>4, <1>5, <1>6, <1>7, <1>8

(* The queued Stop is signalled after the lock was released. *)
LEMMA DeliverQueuedStopKeeps ==
  ASSUME SessionInv, NEW id \in Id, DeliverQueuedStop(id)
  PROVE  SessionInv'
  <1> USE DEF SessionInv, DeliverQueuedStop, ThreadStep, Signal, emit, Alive, Id, NoId
  <1>1. Fields'
    BY DEF Fields, ThreadPlace
  <1>2. Inbox'
    <2>1. [type |-> "stop-result", delivered |-> TRUE] \in Message
      BY DEF Message
    <2> QED
      BY <2>1, InboxAppend DEF Fields
  <1>3. Outbox'
    BY OutboxSame DEF Fields, GuiFields
  <1>4. Helpers'
    BY DEF Helpers, Fields
  <1>5. Numbers'
    BY DEF Numbers, Threads, Working, Fields
  <1>6. Threads'
    BY DEF Threads, Working, Fields
  <1>7. Supervised'
    BY DEF Supervised, Threads, Working, Alive, Fields
  <1>8. Signals'
    BY DEF Signals, Threads, Working, Registered, Printed, Fields
  <1> QED
    BY <1>1, <1>2, <1>3, <1>4, <1>5, <1>6, <1>7, <1>8

(* The engine has ended and its end is reported. *)
LEMMA ReportFinishedKeeps ==
  ASSUME SessionInv, NEW id \in Id, ReportFinished(id)
  PROVE  SessionInv'
  <1> USE DEF SessionInv, ReportFinished, ThreadStep, emit, Id, NoId
  <1>1. Fields'
    BY DEF Fields, ThreadPlace
  <1>2. Inbox'
    <2>1. PICK rc \in {"ok", "failed", "stopped"} :
            toGui' = Append(toGui, [type |-> "finished", id |-> id, returncode |-> rc])
      OBVIOUS
    <2>2. [type |-> "finished", id |-> id, returncode |-> rc] \in Message
      BY DEF Message
    <2> QED
      BY <2>1, <2>2, InboxAppend DEF Fields
  <1>3. Outbox'
    BY OutboxSame DEF Fields, GuiFields
  <1>4. Helpers'
    BY DEF Helpers, Fields
  <1>5. Numbers'
    BY DEF Numbers, Threads, Working, Fields
  <1>6. Threads'
    BY DEF Threads, Working, Fields
  <1>7. Supervised'
    BY DEF Supervised, Threads, Working, Alive, Fields
  <1>8. Signals'
    BY DEF Signals, Threads, Working, Registered, Printed, Fields
  <1> QED
    BY <1>1, <1>2, <1>3, <1>4, <1>5, <1>6, <1>7, <1>8

(* An exception in the loop over the output makes the thread stop the engine. *)
LEMMA HandlingFailsKeeps ==
  ASSUME SessionInv, NEW id \in Id, HandlingFails(id)
  PROVE  SessionInv'
  <1> USE DEF SessionInv, HandlingFails, ThreadStep, Signal, Alive, Id, NoId
  <1>1. Fields'
    <2>1. thread' \in [Id -> ThreadPlace]
      BY DEF Fields, ThreadPlace
    <2>2. count' \in Counts
      BY Zenon, CountUp DEF Fields
    <2> QED
      BY <2>1, <2>2 DEF Fields
  <1>2. Inbox'
    BY InboxSame DEF Fields
  <1>3. Outbox'
    BY OutboxSame DEF Fields, GuiFields
  <1>4. Helpers'
    BY DEF Helpers, Fields
  <1>5. Numbers'
    BY DEF Numbers, Threads, Working, Fields
  <1>6. Threads'
    BY DEF Threads, Working, Fields
  <1>7. Supervised'
    BY DEF Supervised, Threads, Working, Alive, Fields
  <1>8. Signals'
    BY DEF Signals, Threads, Working, Registered, Printed, Fields
  <1> QED
    BY <1>1, <1>2, <1>3, <1>4, <1>5, <1>6, <1>7, <1>8

(* The safe stop ended or expired and the request is reported as failed. *)
LEMMA ReportFailedKeeps ==
  ASSUME SessionInv, NEW id \in Id, ReportFailed(id)
  PROVE  SessionInv'
  <1> USE DEF SessionInv, ReportFailed, ThreadStep, Alive, Id, NoId
  <1>1. Fields'
    <2>1. thread' \in [Id -> ThreadPlace]
      BY DEF Fields, ThreadPlace
    <2>2. count' \in Counts
      BY Zenon, CountUp DEF Fields
    <2> QED
      BY <2>1, <2>2 DEF Fields
  <1>2. Inbox'
    BY Zenon, InboxFailed DEF Fields
  <1>3. Outbox'
    BY OutboxSame DEF Fields, GuiFields
  <1>4. Helpers'
    BY DEF Helpers, Fields
  <1>5. Numbers'
    BY DEF Numbers, Threads, Working, Fields
  <1>6. Threads'
    BY DEF Threads, Working, Fields
  <1>7. Supervised'
    <2>1. count.expire < MaxExpire => MaxExpire # 0
      BY SessionAssumption DEF Fields, Counts
    <2> QED
      BY <2>1 DEF Supervised, Threads, Working, Fields
  <1>8. Signals'
    BY DEF Signals, Threads, Working, Registered, Printed, Fields
  <1> QED
    BY <1>1, <1>2, <1>3, <1>4, <1>5, <1>6, <1>7, <1>8

(* The finally block gives up the globals if they are still its own. *)
LEMMA CleanupKeeps ==
  ASSUME SessionInv, NEW id \in Id, Cleanup(id)
  PROVE  SessionInv'
  <1> USE DEF SessionInv, Cleanup, ThreadStep, Id, NoId
  <1>1. Fields'
    BY Zenon DEF Fields, ThreadPlace
  <1>2. Inbox'
    BY InboxSame DEF Fields
  <1>3. Outbox'
    BY OutboxSame DEF Fields, GuiFields
  <1>4. Helpers'
    BY DEF Helpers, Fields
  <1>5. Numbers'
    BY DEF Numbers, Threads, Working, Fields
  <1>6. Threads'
    BY DEF Threads, Working, Fields
  <1>7. Supervised'
    BY DEF Supervised, Threads, Working, Alive, Fields
  <1>8. Signals'
    BY DEF Signals, Threads, Working, Registered, Printed, Fields
  <1> QED
    BY <1>1, <1>2, <1>3, <1>4, <1>5, <1>6, <1>7, <1>8

(* An engine installs its handlers, prints or ends. *)
LEMMA EngineKeeps ==
  ASSUME SessionInv, NEW id \in Id, Engine(id)
  PROVE  SessionInv'
  <1> USE DEF SessionInv, helperVars, Id, NoId
  <1>a. UNCHANGED <<gui, toHelper, toGui, helperVars, signalled, count, aborted, early>>
    BY DEF Engine, FirstOutput, EngineExits, EngineExitsSilently, EngineStep
  <1>0. /\ engine' \in [Id -> {"none", "init", "live", "exited", "silent"}]
        /\ \A k \in Id : /\ Alive(k)' => Alive(k)
                         /\ engine'[k] = "none" <=> engine[k] = "none"
                         /\ Printed(k) => Printed(k)'
    <2>1. CASE FirstOutput(id)
      BY <2>1 DEF FirstOutput, EngineStep, Fields, Alive, Printed
    <2>2. CASE EngineExits(id)
      BY <2>2 DEF EngineExits, EngineStep, Fields, Alive, Printed
    <2>3. CASE EngineExitsSilently(id)
      BY <2>3 DEF EngineExitsSilently, EngineStep, Fields, Alive, Printed
    <2> QED
      BY <2>1, <2>2, <2>3 DEF Engine
  <1>1. Fields'
    BY <1>a, <1>0 DEF Fields, ThreadPlace
  <1>2. Inbox'
    BY <1>a, InboxSame DEF Fields
  <1>3. Outbox'
    BY <1>a, OutboxSame DEF Fields, GuiFields
  <1>4. Helpers'
    BY <1>a, <1>0 DEF Helpers, Fields
  <1>5. Numbers'
    BY <1>a, <1>0 DEF Numbers, Threads, Working, Fields
  <1>6. Threads'
    BY <1>a, <1>0 DEF Threads, Working, Fields
  <1>7. Supervised'
    BY <1>a, <1>0 DEF Supervised, Threads, Working, Fields
  <1>8. Signals'
    BY <1>a, <1>0 DEF Signals, Registered, Printed, Fields
  <1> QED
    BY <1>1, <1>2, <1>3, <1>4, <1>5, <1>6, <1>7, <1>8

-----------------------------------------------------------------------------
(* What no handler of the window touches. *)
LEMMA WindowKeeps ==
  ASSUME SessionInv, gui' \in GuiFields, helper' \in {"down", "auth", "up"}, count' \in Counts,
         UNCHANGED <<reader, active, hasOutput, pendingStop, thread, engine, signalled, aborted, early>>,
         Inbox', Outbox', Helpers', Numbers', Threads'
  PROVE  SessionInv'
  <1>1. Fields'
    BY DEF SessionInv, Fields
  <1>2. Supervised'
    BY DEF SessionInv, Supervised, Working, Alive
  <1>3. Signals'
    BY DEF SessionInv, Signals, Registered, Printed
  <1> QED
    BY <1>1, <1>2, <1>3 DEF SessionInv

(* No operation is on its way to the helper or with a thread. *)
Quiet ==
  /\ \A i \in DOMAIN toHelper : toHelper[i].action # "run"
  /\ \A id \in Id : ~Working(id)

(* An idle window, or one without a helper, has nothing under way. *)
LEMMA IdleQuiet == SessionInv /\ (~gui.busy \/ ~gui.ready) => Quiet
  BY DEF SessionInv, Outbox, Threads, Quiet

(* A request leaves for the helper or fails at once. It is the only one. *)
LEMMA BeginKeeps ==
  ASSUME SessionInv, Quiet, helper # "auth", UNCHANGED <<helper, thread, engine>>,
         NEW g \in GuiFields, _begin_helper_operation(g),
         g.request_id = gui.request_id, g.busy, g.ready, g.pending \in Purpose,
         g.request_id < MaxReq, g.pending = "mutation" => g.request_id + 1 < MaxReq
  PROVE  gui' \in GuiFields /\ Outbox' /\ Helpers' /\ Numbers' /\ Threads'
  <1> DEFINE n == g.request_id + 1
  <1>1. n \in Id /\ thread[n] = "none" /\ g.request_id \in Nat
    BY SessionAssumption DEF SessionInv, Numbers, Fields, GuiFields, Id
  <1>2. /\ gui' \in GuiFields
        /\ gui'.request_id = n /\ gui'.active_id = n /\ gui'.pending = "none"
        /\ gui'.current = g.pending /\ gui'.ready = g.ready
        /\ helper # "down" => gui'.busy = g.busy
    <2> DEFINE begun == [g EXCEPT !.request_id = @ + 1, !.active_id = g.request_id + 1,
                                  !.current = g.pending, !.pending = "none"]
    <2>1. gui' \in {begun, _command_finished(begun)} /\ (helper # "down" => gui' = begun)
      BY DEF _begin_helper_operation
    <2>a. n \in Id \cup {NoId} /\ n \in 0..MaxReq /\ g.pending \in Purpose \cup {"none"}
      BY <1>1, SessionAssumption DEF Id
    <2>b. begun = [g EXCEPT !.request_id = n, !.active_id = n, !.current = g.pending,
                            !.pending = "none"]
      OBVIOUS
    <2> HIDE DEF begun, n
    <2>2. /\ begun \in GuiFields
          /\ begun.request_id = n /\ begun.active_id = n /\ begun.pending = "none"
          /\ begun.current = g.pending /\ begun.ready = g.ready /\ begun.busy = g.busy
      BY Zenon, <2>a, <2>b DEF GuiFields
    <2>c. _command_finished(begun) \in GuiFields
      BY Zenon, <2>2 DEF _command_finished, GuiFields
    <2>d. LET f == _command_finished(begun) IN
            /\ f.request_id = n /\ f.active_id = n /\ f.pending = "none"
            /\ f.current = g.pending /\ f.ready = g.ready
      BY Zenon, <2>2 DEF _command_finished, GuiFields
    <2> HIDE DEF GuiFields
    <2>3. CASE gui' = begun
      BY ZenonT(30), <2>2, <2>3
    <2>4. CASE helper = "down" /\ gui' = _command_finished(begun)
      BY ZenonT(30), <2>c, <2>d, <2>4
    <2> QED
      BY ZenonT(30), <2>1, <2>3, <2>4
  <1>3. Outbox'
    <2>1. CASE helper = "down"
      BY <2>1 DEF _begin_helper_operation, SessionInv, Outbox
    <2>2. CASE helper # "down"
      <3> DEFINE m == [action |-> "run", id |-> n]
      <3>1. m \in Request /\ m.action = "run" /\ m.id = n
        BY <1>1 DEF Request
      <3>2. toHelper' = Append(toHelper, m)
        BY <2>2 DEF _begin_helper_operation
      <3> HIDE DEF m
      <3>3. n # NoId
        BY <1>1 DEF Id, NoId
      <3> HIDE DEF n
      <3>4. /\ toHelper \in Seq(Request)
            /\ \A i \in DOMAIN toHelper : toHelper[i].action # "run"
        BY DEF SessionInv, Outbox, Quiet
      <3>5. /\ toHelper' \in Seq(Request)
            /\ \A i \in DOMAIN toHelper' : toHelper'[i].action = "run" => i = Len(toHelper') /\ toHelper'[i] = m
        BY <3>1, <3>2, <3>4, AppendFacts
      <3> QED
        BY Zenon, <3>1, <3>3, <3>5, <1>1, <1>2, <2>2 DEF Outbox
    <2> QED
      BY <2>1, <2>2
  <1>4. Helpers'
    BY <1>2 DEF Helpers
  <1>5. Numbers'
    BY <1>1, <1>2 DEF SessionInv, Numbers, Fields, GuiFields, Purpose, Id, NoId
  <1>6. Threads'
    BY <1>1, <1>2 DEF Threads, Quiet, Working
  <1> QED
    BY <1>2, <1>3, <1>4, <1>5, <1>6

(* A command begins at once or waits for a helper to start. *)
LEMMA RunCommandKeeps ==
  ASSUME SessionInv, Quiet, UNCHANGED <<thread, engine>>,
         NEW g \in GuiFields, NEW purpose \in Purpose, _run_privileged_command(g, purpose),
         g.ready = gui.ready, g.starting = gui.starting, g.request_id = gui.request_id,
         g.active_id \in {NoId, g.request_id}, g.active_id \in Id => thread[g.active_id] = "none",
         g.request_id < MaxReq, purpose = "mutation" => g.request_id + 1 < MaxReq,
         toGui = <<>> => toGui' = <<>>
  PROVE  /\ gui' \in GuiFields /\ Outbox' /\ Helpers' /\ Numbers' /\ Threads'
         /\ helper' \in {"down", "auth", "up"}
         /\ helper' = helper \/ toGui = <<>>
  <1> DEFINE started == _set_operation_started(g, purpose)
  <1>1. /\ started \in GuiFields /\ started.busy /\ started.pending = purpose
        /\ started.ready = g.ready /\ started.request_id = g.request_id
        /\ started.active_id = g.active_id
    BY Zenon DEF _set_operation_started, GuiFields
  <1>2. CASE g.ready
    <2>1. _begin_helper_operation(started) /\ helper' = helper
      BY <1>2 DEF _run_privileged_command
    <2>2. helper # "auth"
      BY <1>2 DEF SessionInv, Helpers
    <2> HIDE DEF started
    <2>3. gui' \in GuiFields /\ Outbox' /\ Helpers' /\ Numbers' /\ Threads'
      BY Zenon, <1>1, <1>2, <2>1, <2>2, BeginKeeps
    <2> QED
      BY <2>1, <2>3 DEF SessionInv, Fields
  <1>3. CASE ~g.ready
    <2>1. /\ gui' = [started EXCEPT !.starting = TRUE] /\ toHelper' = toHelper
          /\ helper' = IF g.starting THEN helper ELSE "auth"
      BY <1>3 DEF _run_privileged_command
    <2> HIDE DEF started
    <2>2. /\ gui' \in GuiFields /\ gui'.starting /\ gui'.busy /\ ~gui'.ready
          /\ gui'.pending = purpose /\ gui'.request_id = g.request_id
          /\ gui'.active_id = g.active_id
      BY Zenon, <1>1, <1>3, <2>1 DEF GuiFields
    <2>3. helper' = helper \/ (toGui = <<>> /\ helper = "down" /\ helper' = "auth")
      BY <1>3, <2>1 DEF SessionInv, Helpers, Fields, GuiFields
    <2>4. Outbox'
      BY <2>1, <2>3 DEF SessionInv, Outbox, Quiet
    <2>5. Helpers'
      BY <2>2, <2>3 DEF SessionInv, Helpers, Purpose
    <2>6. Numbers'
      BY <2>2 DEF SessionInv, Numbers, Fields, GuiFields, Purpose
    <2>7. Threads'
      BY <2>2 DEF Threads, Quiet, Working
    <2> QED
      BY <2>2, <2>3, <2>4, <2>5, <2>6, <2>7 DEF SessionInv, Fields
  <1> QED
    BY <1>2, <1>3

(* The user starts an operation in an idle window. *)
LEMMA StartOperationKeeps ==
  ASSUME SessionInv, NEW purpose \in Purpose, StartOperation(purpose)
  PROVE  SessionInv'
  <1>1. /\ ~gui.busy /\ gui.request_id + 1 < MaxReq /\ _run_privileged_command(gui, purpose)
        /\ UNCHANGED <<toGui, reader, active, hasOutput, pendingStop, thread, engine, signalled,
                      count, aborted, early>>
    BY DEF StartOperation
  <1>2. Quiet
    BY <1>1, IdleQuiet
  <1>3. gui \in GuiFields /\ gui.request_id \in Nat /\ gui.request_id < MaxReq /\ count \in Counts
    BY <1>1, SessionAssumption DEF SessionInv, Fields, GuiFields
  <1>4. gui.active_id \in {NoId, gui.request_id}
    BY ZenonT(40) DEF SessionInv, Numbers
  <1>4a. gui.active_id \in Id => thread[gui.active_id] = "none"
    BY <1>1 DEF SessionInv, Threads
  <1>5. /\ gui' \in GuiFields /\ Outbox' /\ Helpers' /\ Numbers' /\ Threads'
        /\ helper' \in {"down", "auth", "up"}
        /\ helper' = helper \/ toGui = <<>>
    BY <1>1, <1>2, <1>3, <1>4, <1>4a, RunCommandKeeps
  <1>6. Inbox'
    BY <1>1, <1>5, InboxSame DEF SessionInv
  <1> QED
    BY <1>1, <1>3, <1>5, <1>6, WindowKeeps

(* The user presses Stop. *)
LEMMA RequestStopKeeps ==
  ASSUME SessionInv, _request_stop
  PROVE  SessionInv'
  <1> DEFINE m == [action |-> "stop",
                   id |-> IF gui.active_id # NoId THEN gui.active_id ELSE gui.request_id]
  <1>1. UNCHANGED <<toGui, helper, reader, active, hasOutput, pendingStop, thread, engine,
                    signalled, aborted, early>>
    BY DEF _request_stop, helperVars
  <1>2. /\ gui' \in GuiFields
        /\ \A field \in DOMAIN gui \ {"stop_requested"} : gui'[field] = gui[field]
        /\ gui'.busy = gui.busy /\ gui'.ready = gui.ready /\ gui'.starting = gui.starting
        /\ gui'.pending = gui.pending /\ gui'.current = gui.current
        /\ gui'.active_id = gui.active_id /\ gui'.request_id = gui.request_id
    BY Zenon DEF _request_stop, SessionInv, Fields, GuiFields
  <1>3. count' \in Counts
    BY Zenon, CountUp DEF _request_stop, SessionInv, Fields
  <1>4. m \in Request /\ m.action = "stop"
    BY DEF SessionInv, Fields, GuiFields, Request, Id, NoId
  <1>5. toHelper' = toHelper \/ (helper # "down" /\ toHelper' = Append(toHelper, m))
    BY DEF _request_stop
  <1> HIDE DEF m
  <1>6. Outbox'
    <2>1. CASE toHelper' = toHelper
      BY <2>1, <1>1, <1>2 DEF SessionInv, Outbox
    <2>2. CASE helper # "down" /\ toHelper' = Append(toHelper, m)
      <3>1. toHelper \in Seq(Request)
        BY DEF SessionInv, Outbox
      <3>2. /\ toHelper' \in Seq(Request)
            /\ \A i \in DOMAIN toHelper' : toHelper'[i].action = "run" =>
                 i \in DOMAIN toHelper /\ toHelper'[i] = toHelper[i]
        BY <2>2, <3>1, <1>4, AppendFacts
      <3> QED
        BY <2>2, <3>2, <1>1, <1>2 DEF SessionInv, Outbox
    <2> QED
      BY <1>5, <2>1, <2>2
  <1>7. Inbox'
    BY <1>1, InboxSame DEF SessionInv
  <1>8. Helpers' /\ Numbers' /\ Threads' /\ helper' \in {"down", "auth", "up"}
    BY <1>1, <1>2 DEF SessionInv, Helpers, Numbers, Threads, Working, Fields
  <1> QED
    BY <1>1, <1>2, <1>3, <1>6, <1>7, <1>8, WindowKeeps

(* The helper is ready: the waiting command begins. *)
LEMMA HandleReadyKeeps ==
  ASSUME SessionInv, HandleReady
  PROVE  SessionInv'
  <1> DEFINE g == [gui EXCEPT !.ready = TRUE, !.starting = FALSE]
  <1>1. /\ toGui # <<>> /\ toGui' = Tail(toGui)
        /\ UNCHANGED <<helper, reader, active, hasOutput, pendingStop, thread, engine, signalled,
                      count, aborted, early>>
    BY DEF HandleReady, Receive
  <1>2. /\ g \in GuiFields /\ g.ready /\ g.busy = gui.busy /\ g.pending = gui.pending
        /\ g.current = gui.current
        /\ g.active_id = gui.active_id /\ g.request_id = gui.request_id /\ count \in Counts
    BY Zenon DEF SessionInv, Fields, GuiFields
  <1>3. Inbox' /\ helper # "auth" /\ helper' \in {"down", "auth", "up"}
    BY <1>1, InboxTail DEF SessionInv, Helpers, Fields
  <1>4. \/ gui.pending = "none" /\ gui' = g /\ toHelper' = toHelper
        \/ gui.pending # "none" /\ _begin_helper_operation(g)
    BY <1>2 DEF HandleReady
  <1> HIDE DEF g
  <1>5. CASE gui.pending = "none" /\ gui' = g /\ toHelper' = toHelper
    <2>1. Outbox' /\ Threads'
      <3>1. Outbox'
        BY <1>1, <1>2, <1>5 DEF SessionInv, Outbox
      <3>2. Threads'
        BY <1>1, <1>2, <1>5 DEF SessionInv, Threads, Working
      <3> QED
        BY <3>1, <3>2
    <2>2. Helpers' /\ Numbers'
      <3>1. Helpers'
        BY <1>1, <1>2, <1>3, <1>5 DEF SessionInv, Helpers
      <3>2. Numbers'
        BY <1>1, <1>2, <1>3, <1>5 DEF SessionInv, Numbers
      <3> QED
        BY <3>1, <3>2
    <2> QED
      BY <1>1, <1>2, <1>3, <1>5, <2>1, <2>2, WindowKeeps
  <1>6. CASE gui.pending # "none" /\ _begin_helper_operation(g)
    <2>1. gui.busy /\ ~gui.ready /\ gui.pending \in Purpose
      BY <1>6 DEF SessionInv, Helpers, Fields, GuiFields
    <2>2. Quiet
      BY <2>1, IdleQuiet
    <2>3. gui.request_id < MaxReq /\ (gui.pending = "mutation" => gui.request_id + 1 < MaxReq)
      BY <2>1, SessionAssumption DEF SessionInv, Numbers, Fields, GuiFields, Purpose
    <2>4. gui' \in GuiFields /\ Outbox' /\ Helpers' /\ Numbers' /\ Threads'
      BY Zenon, <1>1, <1>2, <1>3, <1>6, <2>1, <2>2, <2>3, BeginKeeps
    <2> QED
      BY <1>1, <1>2, <1>3, <2>4, WindowKeeps
  <1> QED
    BY <1>4, <1>5, <1>6

(* Errors are logged; an undelivered Stop enables the button again. *)
LEMMA HandleOtherKeeps ==
  ASSUME SessionInv, HandleError \/ HandleStopResult
  PROVE  SessionInv'
  <1>1. /\ toGui # <<>> /\ toGui' = Tail(toGui)
        /\ UNCHANGED <<toHelper, helper, reader, active, hasOutput, pendingStop, thread, engine,
                      signalled, count, aborted, early>>
    BY DEF HandleError, HandleStopResult, Receive
  <1>2. /\ gui' \in GuiFields /\ count \in Counts
        /\ gui'.busy = gui.busy /\ gui'.ready = gui.ready /\ gui'.starting = gui.starting
        /\ gui'.pending = gui.pending /\ gui'.current = gui.current
        /\ gui'.active_id = gui.active_id /\ gui'.request_id = gui.request_id
    <2>1. gui' = gui \/ gui' = [gui EXCEPT !.stop_requested = FALSE]
      BY DEF HandleError, HandleStopResult
    <2> QED
      BY Zenon, <2>1 DEF SessionInv, Fields, GuiFields
  <1>3. Inbox' /\ helper # "auth" /\ (gui.ready \/ gui.starting) /\ helper' \in {"down", "auth", "up"}
    BY <1>1, InboxTail DEF SessionInv, Helpers, Fields
  <1>4. Outbox' /\ Threads'
    <2>1. Outbox'
      BY <1>1, <1>2 DEF SessionInv, Outbox
    <2>2. Threads'
      BY <1>1, <1>2 DEF SessionInv, Threads, Working
    <2> QED
      BY <2>1, <2>2
  <1>5. Helpers' /\ Numbers'
    <2>1. Helpers'
      BY <1>1, <1>2, <1>3 DEF SessionInv, Helpers
    <2>2. Numbers'
      BY <1>1, <1>2, <1>3 DEF SessionInv, Numbers
    <2> QED
      BY <2>1, <2>2
  <1> QED
    BY <1>1, <1>2, <1>3, <1>4, <1>5, WindowKeeps

(* The end of the window's operation, which may start the map refresh. *)
LEMMA HandleFinishedKeeps ==
  ASSUME SessionInv, HandleFinished
  PROVE  SessionInv'
  <1> DEFINE done == [_command_finished(gui) EXCEPT !.active_id = NoId, !.current = "none"]
             msg == Head(toGui)
  <1>1. /\ toGui # <<>> /\ toGui' = Tail(toGui) /\ msg.type = "finished"
        /\ UNCHANGED <<reader, active, hasOutput, pendingStop, thread, engine, signalled,
                      count, aborted, early>>
    BY DEF HandleFinished, Receive
  <1>2. /\ done \in GuiFields /\ ~done.busy /\ done.ready = gui.ready /\ done.starting = gui.starting
        /\ done.pending = gui.pending /\ done.current = "none"
        /\ done.active_id = NoId /\ done.request_id = gui.request_id
        /\ gui \in GuiFields /\ count \in Counts
    BY Zenon DEF SessionInv, Fields, GuiFields, _command_finished
  <1>3. /\ helper # "auth" /\ (gui.ready \/ gui.starting)
        /\ helper \in {"down", "auth", "up"}
    BY <1>1 DEF SessionInv, Helpers, Fields
  <1>4. helper' = helper => Inbox'
    BY <1>1, InboxTail DEF SessionInv
  <1>5. thread[msg.id] \in {"cleanup", "done"}
    BY <1>1, TailFacts DEF SessionInv, Inbox
  <1>6. \/ UNCHANGED <<gui, toHelper, helper>>
        \/ /\ msg.id = gui.active_id
           /\ \/ gui.current = "mutation" /\ _run_privileged_command(done, "analysis")
              \/ gui' = done /\ UNCHANGED <<toHelper, helper>>
    BY DEF HandleFinished
  <1> HIDE DEF done, msg
  <1>7. CASE UNCHANGED <<gui, toHelper, helper>>
    <2>1. Outbox' /\ Threads' /\ Helpers' /\ Numbers'
      <3>1. Outbox'
        BY <1>1, <1>3, <1>7 DEF SessionInv, Outbox
      <3>2. Threads'
        BY <1>1, <1>3, <1>7 DEF SessionInv, Threads, Working
      <3>3. Helpers'
        BY <1>1, <1>3, <1>7 DEF SessionInv, Helpers
      <3>4. Numbers'
        BY <1>1, <1>3, <1>7 DEF SessionInv, Numbers
      <3> QED
        BY <3>1, <3>2, <3>3, <3>4
    <2> QED
      BY <1>1, <1>2, <1>3, <1>4, <1>7, <2>1, WindowKeeps
  <1>8. ASSUME msg.id = gui.active_id
        PROVE  Quiet
    BY <1>5, <1>8 DEF SessionInv, Outbox, Threads, Working, Quiet
  <1>9. CASE msg.id = gui.active_id /\ gui.current = "mutation" /\ _run_privileged_command(done, "analysis")
    <2>1. gui.request_id < MaxReq
      BY <1>9 DEF SessionInv, Numbers
    <2>1a. "analysis" \in Purpose /\ done.active_id \notin Id /\ (toGui = <<>> => toGui' = <<>>)
      BY <1>1, <1>2 DEF Purpose, Id, NoId
    <2>2. /\ gui' \in GuiFields /\ Outbox' /\ Helpers' /\ Numbers' /\ Threads'
          /\ helper' \in {"down", "auth", "up"}
          /\ helper' = helper \/ toGui = <<>>
      BY <1>1, <1>2, <1>8, <1>9, <2>1, <2>1a, RunCommandKeeps
    <2> QED
      BY <1>1, <1>2, <1>4, <2>2, WindowKeeps
  <1>10. CASE msg.id = gui.active_id /\ gui' = done /\ UNCHANGED <<toHelper, helper>>
    <2>1. Outbox' /\ Threads'
      <3>1. Outbox'
        BY <1>1, <1>2, <1>8, <1>10 DEF SessionInv, Outbox, Quiet, Id, NoId
      <3>2. Threads'
        BY <1>1, <1>2, <1>8, <1>10 DEF SessionInv, Threads, Working, Quiet, Id, NoId
      <3> QED
        BY <3>1, <3>2
    <2>2. msg.id \in Id
      BY <1>1, TailFacts DEF msg, SessionInv, Inbox, Message
    <2>2a. gui.pending = "none"
      BY <1>5, <1>10, <2>2 DEF SessionInv, Threads
    <2>3. Helpers' /\ Numbers'
      <3>1. Helpers'
        BY <1>1, <1>2, <1>3, <1>10, <2>2a DEF SessionInv, Helpers
      <3>2. Numbers'
        BY <1>1, <1>2, <1>3, <1>10, <2>2a DEF SessionInv, Numbers
      <3> QED
        BY <3>1, <3>2
    <2> QED
      BY <1>1, <1>2, <1>3, <1>4, <1>10, <2>1, <2>3, WindowKeeps
  <1> QED
    BY <1>6, <1>7, <1>9, <1>10

(* The helper has gone: the operation the window waits for ends with it. *)
LEMMA HandleExitKeeps ==
  ASSUME SessionInv, HandleExit
  PROVE  SessionInv'
  <1>1. /\ toGui # <<>> /\ toGui' = Tail(toGui) /\ Head(toGui).type = "exit"
        /\ UNCHANGED <<toHelper, helper, reader, active, hasOutput, pendingStop, thread, engine,
                      signalled, count, aborted, early>>
    BY DEF HandleExit, Receive
  <1>2. Inbox' /\ toGui' = <<>> /\ helper = "down" /\ toHelper = <<>>
    BY <1>1, InboxTail DEF SessionInv, Outbox
  <1>3. gui.pending # "none" => gui.busy
    BY DEF SessionInv, Helpers
  <1>4. /\ gui' \in GuiFields /\ count \in Counts
        /\ ~gui'.busy /\ ~gui'.ready /\ ~gui'.starting /\ gui'.pending = "none"
        /\ gui'.request_id = gui.request_id
        /\ gui'.active_id = NoId \/ (gui'.active_id = gui.active_id /\ ~gui.busy)
        /\ gui'.current \in {"none", gui.current}
    BY Zenon, <1>3 DEF HandleExit, _command_finished, SessionInv, Fields, GuiFields
  <1>5. Outbox' /\ Threads'
    <2>1. Outbox'
      BY <1>1, <1>2, <1>4 DEF SessionInv, Outbox, Id, NoId
    <2>2. Threads'
      BY <1>1, <1>2, <1>4 DEF SessionInv, Threads, Working, Id, NoId
    <2> QED
      BY <2>1, <2>2
  <1>6. Helpers' /\ Numbers'
    <2>1. Helpers'
      BY <1>1, <1>2, <1>4 DEF SessionInv, Helpers
    <2>2. Numbers'
      BY <1>1, <1>2, <1>4 DEF SessionInv, Numbers
    <2> QED
      BY <2>1, <2>2
  <1> QED
    BY <1>1, <1>2, <1>4, <1>5, <1>6, WindowKeeps

-----------------------------------------------------------------------------
(* The helper is lost with its unread input; its engines run on. *)
LEMMA HelperCrashKeeps ==
  ASSUME SessionInv, HelperCrash
  PROVE  SessionInv'
  <1> USE DEF SessionInv, HelperCrash, emit, Id, NoId
  <1>1. Fields'
    <2>1. thread' \in [Id -> ThreadPlace]
      BY DEF Fields, ThreadPlace
    <2>2. count' \in Counts
      BY Zenon, CountUp DEF Fields
    <2> QED
      BY Zenon, <2>1, <2>2 DEF Fields, Alive
  <1>2. Inbox'
    <2>1. [type |-> "exit"] \in Message
      BY DEF Message
    <2> QED
      BY <2>1, InboxAppend DEF Fields
  <1>3. Outbox'
    BY DEF Outbox, Request
  <1>4. Helpers'
    BY <1>2, InboxAppend DEF Helpers, Fields
  <1>5. Numbers'
    BY DEF Numbers, Threads, Working, Fields
  <1>6. Threads'
    BY DEF Threads, Working, Fields
  <1>7. Supervised'
    BY DEF Supervised, Threads, Working, Alive, Fields
  <1>8. Signals'
    BY DEF Signals, Threads, Working, Registered, Printed, Fields
  <1> QED
    BY <1>1, <1>2, <1>3, <1>4, <1>5, <1>6, <1>7, <1>8

(* pkexec ends with a ready helper or with a refusal. *)
LEMMA AuthenticateKeeps ==
  ASSUME SessionInv, Authenticate
  PROVE  SessionInv'
  <1> USE DEF SessionInv, Authenticate, emit, Id, NoId
  <1>1. Fields'
    BY DEF Fields, ThreadPlace
  <1>2. Inbox'
    <2>1. [type |-> "exit"] \in Message /\ [type |-> "ready"] \in Message
      BY DEF Message
    <2>2. CASE toGui' = Append(toGui, [type |-> "ready"])
      BY <2>1, <2>2, InboxAppend DEF Fields
    <2>3. CASE toGui' = Append(toGui, [type |-> "exit"]) /\ helper' = "down"
      BY <2>1, <2>3, InboxAppend DEF Fields
    <2> QED
      BY <2>2, <2>3
  <1>3. Outbox'
    BY DEF Outbox, Request, Fields
  <1>4. Helpers'
    BY DEF Helpers, Fields
  <1>5. Numbers'
    BY DEF Numbers, Threads, Working, Fields
  <1>6. Threads'
    BY DEF Threads, Working, Fields
  <1>7. Supervised'
    BY DEF Supervised, Threads, Working, Alive, Fields
  <1>8. Signals'
    BY DEF Signals, Threads, Working, Registered, Printed, Fields
  <1> QED
    BY <1>1, <1>2, <1>3, <1>4, <1>5, <1>6, <1>7, <1>8

(* The reader accepts the run request of the window, or refuses it. *)
LEMMA RunKeeps ==
  ASSUME SessionInv, handle_run
  PROVE  SessionInv'
  <1> USE DEF SessionInv
  <1> DEFINE req == Head(toHelper).id
  <1>a. /\ helper = "up" /\ toHelper # <<>> /\ Head(toHelper).action = "run"
        /\ toHelper' = Tail(toHelper)
        /\ UNCHANGED <<gui, helper, active, hasOutput, engine, signalled, count, aborted, early,
                      reader, pendingStop>>
    BY DEF handle_run, Read
  <1>b. /\ req \in Id /\ req = gui.active_id /\ gui.busy /\ gui.ready /\ thread[req] = "none"
    BY <1>a, TailFacts DEF Outbox, Fields, GuiFields
  <1>c. /\ thread' \in [Id -> ThreadPlace]
        /\ thread' = thread \/ thread' = [thread EXCEPT ![req] = "started"]
        /\ \A k \in Id : thread[k] # "none" => thread'[k] = thread[k]
        /\ \A k \in Id : k # req => thread'[k] = thread[k]
    BY <1>a, <1>b DEF handle_run, emit, Fields, ThreadPlace
  <1> HIDE DEF req
  <1>1. Fields'
    BY <1>a, <1>c DEF Fields
  <1>2. Inbox'
    <2>1. CASE active # NoId
      <3>1. [type |-> "error", id |-> req] \in Message
        BY <1>b DEF Message
      <3>2. toGui' = Append(toGui, [type |-> "error", id |-> req]) /\ thread' = thread
        BY <2>1 DEF handle_run, emit, req
      <3> QED
        BY <1>a, <3>1, <3>2, InboxAppend DEF Fields
    <2>2. CASE active = NoId
      BY <1>a, <1>c, <2>2, InboxSame DEF handle_run, Fields
    <2> QED
      BY <2>1, <2>2
  <1>3. Outbox'
    BY <1>a, OutboxTail DEF Fields
  <1>4. Helpers'
    BY <1>a DEF Helpers, Fields
  <1>5. Numbers'
    BY <1>a, <1>b, <1>c DEF Numbers, Fields, Id, NoId
  <1>6. Threads'
    BY <1>a, <1>b, <1>c DEF Threads, Helpers, Working, Fields
  <1>7. Supervised'
    BY <1>a, <1>b, <1>c DEF Supervised, Threads, Working, Alive, Fields
  <1>8. Signals'
    BY <1>a, <1>b, <1>c DEF Signals, Threads, Working, Registered, Printed, Fields
  <1> QED
    BY <1>1, <1>2, <1>3, <1>4, <1>5, <1>6, <1>7, <1>8

(* The reader queues a Stop, picks an engine to signal or has none. *)
LEMMA StopKeeps ==
  ASSUME SessionInv, handle_stop
  PROVE  SessionInv'
  <1> USE DEF SessionInv
  <1>a. /\ helper = "up" /\ toHelper # <<>> /\ toHelper' = Tail(toHelper)
        /\ UNCHANGED <<gui, helper, active, hasOutput, engine, signalled, count, aborted, early, thread>>
    BY DEF handle_stop, Read
  <1>b. /\ reader' \in {reader, active}
        /\ reader' # reader => active # NoId /\ hasOutput
        /\ pendingStop' \in BOOLEAN
    BY Zenon DEF handle_stop, Fields
  <1>1. Fields'
    BY <1>a, <1>b DEF Fields
  <1>2. Inbox'
    <2>1. \A b \in BOOLEAN : [type |-> "stop-result", delivered |-> b] \in Message
      BY DEF Message
    <2>2. \/ toGui' = toGui
          \/ \E b \in BOOLEAN : toGui' = Append(toGui, [type |-> "stop-result", delivered |-> b])
      BY Zenon DEF handle_stop, emit
    <2>3. CASE toGui' = toGui
      BY <1>a, <2>3, InboxSame
    <2>4. ASSUME NEW b \in BOOLEAN, toGui' = Append(toGui, [type |-> "stop-result", delivered |-> b])
          PROVE  Inbox'
      BY <1>a, <2>1, <2>4, InboxAppend
    <2> QED
      BY Zenon, <2>2, <2>3, <2>4
  <1>3. Outbox'
    BY <1>a, OutboxTail DEF Fields
  <1>4. Helpers'
    BY <1>a DEF Helpers, Fields
  <1>5. Numbers'
    BY <1>a DEF Numbers
  <1>6. Threads'
    BY <1>a DEF Threads, Working
  <1>7. Supervised'
    BY <1>a DEF Supervised, Working, Alive
  <1>8. Signals'
    BY <1>a, <1>b DEF Signals, Registered, Printed, Fields, NoId
  <1> QED
    BY <1>1, <1>2, <1>3, <1>4, <1>5, <1>6, <1>7, <1>8

(* The reader signals the engine it picked under the lock. *)
LEMMA SendSignalKeeps ==
  ASSUME SessionInv, SendSignal
  PROVE  SessionInv'
  <1> USE DEF SessionInv
  <1>a. /\ helper = "up" /\ reader # NoId /\ reader' = NoId
        /\ UNCHANGED <<gui, toHelper, helper, active, hasOutput, pendingStop, thread, engine, count, aborted>>
    BY DEF SendSignal
  <1>b. reader \in Id /\ engine[reader] # "init"
    BY <1>a DEF Signals, Printed, Fields
  <1>c. signalled' \subseteq Id /\ early' = FALSE
    BY <1>b DEF SendSignal, Signal, Signals, Fields
  <1>1. Fields'
    BY Zenon, <1>a, <1>c DEF Fields
  <1>2. Inbox'
    <2>1. \A b \in BOOLEAN : [type |-> "stop-result", delivered |-> b] \in Message
      BY DEF Message
    <2>2. PICK b \in BOOLEAN : toGui' = Append(toGui, [type |-> "stop-result", delivered |-> b])
      BY Zenon DEF SendSignal, emit
    <2> QED
      BY <1>a, <2>1, <2>2, InboxAppend
  <1>3. Outbox'
    BY <1>a, OutboxSame DEF Fields, GuiFields
  <1>4. Helpers'
    BY <1>a DEF Helpers, Fields
  <1>5. Numbers'
    BY <1>a DEF Numbers
  <1>6. Threads'
    BY <1>a DEF Threads, Working
  <1>7. Supervised'
    BY <1>a DEF Supervised, Working, Alive
  <1>8. Signals'
    BY <1>a, <1>c DEF Signals, Registered, Printed
  <1> QED
    BY <1>1, <1>2, <1>3, <1>4, <1>5, <1>6, <1>7, <1>8

-----------------------------------------------------------------------------

(* The window starts with a helper being authenticated and nothing running. *)
LEMMA InitInv == Init => SessionInv
  <1> SUFFICES ASSUME Init PROVE SessionInv
    OBVIOUS
  <1>1. Fields
    <2>1. 0 \in 0..MaxReq /\ 0 \in 0..MaxStop /\ 0 \in 0..MaxCrash /\ 0 \in 0..MaxFault
          /\ 0 \in 0..MaxExpire
      BY SessionAssumption
    <2>2. gui \in GuiFields
      BY <2>1 DEF Init, GuiFields
    <2>3. count \in Counts
      BY <2>1 DEF Init, Counts
    <2>4. thread \in [Id -> ThreadPlace]
      BY DEF Init, ThreadPlace
    <2> QED
      BY Zenon, <2>2, <2>3, <2>4 DEF Init, Fields
  <1>2. Inbox
    BY DEF Init, Inbox
  <1>2a. Outbox
    BY DEF Init, Outbox
  <1>2b. Helpers
    BY DEF Init, Helpers
  <1>3. Numbers /\ Threads
    BY DEF Init, Numbers, Threads, Working, Id, NoId
  <1>4. Supervised /\ Signals
    BY DEF Init, Supervised, Alive, Signals, NoId
  <1> QED
    BY <1>1, <1>2, <1>2a, <1>2b, <1>3, <1>4 DEF SessionInv

(* Every step of every process keeps the invariant. *)
LEMMA NextInv == SessionInv /\ [Next]_vars => SessionInv'
  <1> SUFFICES ASSUME SessionInv, [Next]_vars PROVE SessionInv'
    OBVIOUS
  <1>1. CASE User
    BY <1>1, RequestStopKeeps, StartOperationKeeps DEF User
  <1>2. CASE Gui
    BY <1>2, HandleReadyKeeps, HandleOtherKeeps, HandleFinishedKeeps, HandleExitKeeps DEF Gui
  <1>3. CASE Authenticate \/ HelperCrash
    BY <1>3, AuthenticateKeeps, HelperCrashKeeps
  <1>4. CASE HelperReader
    BY <1>4, RunKeeps, StopKeeps, SendSignalKeeps DEF HelperReader
  <1>5. ASSUME NEW id \in Id, Thread(id) PROVE SessionInv'
    BY <1>5, SpawnKeeps, SpawnFailsKeeps, RegisterKeeps, FirstLineKeeps, DeliverQueuedStopKeeps,
       ReportFinishedKeeps, HandlingFailsKeeps, ReportFailedKeeps, CleanupKeeps DEF Thread
  <1>6. ASSUME NEW id \in Id, Engine(id) PROVE SessionInv'
    BY <1>6, EngineKeeps
  <1>7. CASE UNCHANGED vars
    <2>1. Fields' /\ Inbox' /\ Outbox' /\ Helpers'
      <3>1. Fields'
        BY ZenonT(40), <1>7 DEF SessionInv, Fields, vars, helperVars
      <3>2. Inbox'
        BY <1>7 DEF SessionInv, Inbox, vars, helperVars
      <3>3. Outbox'
        BY <1>7 DEF SessionInv, Outbox, vars, helperVars
      <3>4. Helpers'
        BY <1>7 DEF SessionInv, Helpers, vars, helperVars
      <3> QED
        BY <3>1, <3>2, <3>3, <3>4
    <2>2. Numbers' /\ Threads' /\ Supervised' /\ Signals'
      <3>1. Numbers'
        BY <1>7 DEF SessionInv, Numbers, vars, helperVars
      <3>2. Threads'
        BY <1>7 DEF SessionInv, Threads, Working, vars, helperVars
      <3>3. Supervised'
        BY <1>7 DEF SessionInv, Supervised, Working, Alive, vars, helperVars
      <3>4. Signals'
        BY <1>7 DEF SessionInv, Signals, Registered, Printed, vars, helperVars
      <3> QED
        BY <3>1, <3>2, <3>3, <3>4
    <2> QED
      BY <2>1, <2>2 DEF SessionInv
  <1> QED
    BY <1>1, <1>2, <1>3, <1>4, <1>5, <1>6, <1>7 DEF Next

(* SessionInv holds throughout, for any number of requests, Stops, lost     *)
(* helpers, exceptions and expired waits.                                   *)
THEOREM SessionInvariant == Spec => []SessionInv
  BY InitInv, NextInv, PTL DEF Spec

(* The session's state keeps its types: no handler of the window or of the  *)
(* helper leaves the set of requests, messages or thread places.            *)
THEOREM SessionTypeCorrect == Spec => []TypeOK
  BY SessionInvariant, InvTypes, PTL

(* handle_stop and the delivery of a queued Stop never signal an engine     *)
(* that has not installed its handlers.                                     *)
THEOREM StopNeverEarly == Spec => []NoEarlySignal
  <1>1. SessionInv => NoEarlySignal
    BY DEF SessionInv, Signals, NoEarlySignal
  <1> QED
    BY <1>1, SessionInvariant, PTL

(* handle_run's test of _active_process and run_request's registration are  *)
(* not atomic, yet two engines never work at once, as long as every engine  *)
(* ends within the 120 s of a safe stop.                                    *)
THEOREM OneEngineAtATime == Spec => [](MaxExpire = 0 => OneEngine)
  <1>1. SessionInv => (MaxExpire = 0 => OneEngine)
    BY DEF SessionInv, Supervised, Threads, OneEngine
  <1> QED
    BY <1>1, SessionInvariant, PTL

(* A window that offers its buttons has no engine of its session at work,   *)
(* under the same assumption; engines that outlived a lost helper are       *)
(* excepted.                                                                *)
THEOREM IdleMeansNoEngine == Spec => [](MaxExpire = 0 => NoEngineWhenIdle)
  <1>1. SessionInv => (MaxExpire = 0 => NoEngineWhenIdle)
    BY DEF SessionInv, Supervised, Threads, NoEngineWhenIdle
  <1> QED
    BY <1>1, SessionInvariant, PTL
=============================================================================

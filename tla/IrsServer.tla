------------------------------ MODULE IrsServer ------------------------------
(***************************************************************************)
(* The process of irs-machine (irs-server): the main thread configures and *)
(* runs the server, waits for SIGINT and stops it, the io thread handles   *)
(* one message after the other, and the actions thread has nothing to do.  *)
(* No lock orders them: the main thread deletes the memory while the io    *)
(* thread may be handling a message.                                       *)
(*                                                                         *)
(* The memory is a set of requests whose documents it indexed.  What an    *)
(* index is worth is the subject of IrsStorage.                            *)
(***************************************************************************)
EXTENDS Integers, Sequences

CONSTANTS
    Clients,        \* who may connect
    MaxRequests     \* bound: messages sent by all clients

ASSUME BoundAssumption == MaxRequests \in Nat

\* What a message is to the handler.  A malformed one does not parse, is no
\* object, or has a type or an id of another JSON type.  An invalid one is null
\* or has a null member.  An undefined one lacks a member, or has a type or a
\* method that does not exist.  The payload of a rejected one does not fit its
\* command.  The others are good: an add, or one of the three queries.
Kinds == {"malformed", "invalid", "undefined", "rejected", "add", "get"}

VARIABLES
    main,           \* what the main thread does next
    actions, io,    \* the two other threads
    core,           \* m_instance exists
    log,            \* what it logs to: "console", "file", or a "freed" file
    listening,      \* its acceptor is open
    ioStopped,      \* its stop() was called
    failed,         \* Run threw an exception
    handler,        \* of SIGINT: "default", "empty" or "set"
    isRun,          \* the flag main waits for
    interrupted,    \* history: a SIGINT came after Run
    memory,         \* m_memory: "none", "live", "freed" or "null"
    stored,         \* requests whose documents the memory indexed
    saved,          \* the same, as of the save
    early,          \* history: stored and answered before Stop
    raced,          \* history: an add was running during the save
    connected,      \* clients with an open connection
    arrived,        \* the messages sent so far: client and kind
    taken,          \* how many of them the io thread has taken
    refNull,        \* the handler formed *m_memory from the null pointer
    status,         \* of the answer that is about to be sent
    answers,        \* the answers sent: request and status
    over            \* "no", or how the process ended

objects == <<core, log>>
signals == <<handler, isRun, interrupted>>
process == <<objects, listening, failed, signals>>
data    == <<memory, stored, saved, early, raced>>
traffic == <<connected, arrived, taken, refNull, status, answers>>
vars == <<main, actions, io, core, log, listening, ioStopped, failed, handler,
          isRun, interrupted, memory, stored, saved, early, raced, connected,
          arrived, taken, refNull, status, answers, over>>

Running == over = "no"
Answered == {answers[i].req : i \in DOMAIN answers}

Init ==
    /\ main = "configure" /\ actions = "none" /\ io = "none"
    /\ core = TRUE /\ log = "console" /\ listening = FALSE
    /\ ioStopped = FALSE /\ failed = FALSE
    /\ handler = "default" /\ isRun = TRUE /\ interrupted = FALSE
    /\ memory = "none" /\ stored = {} /\ saved = {} /\ early = {}
    /\ raced = FALSE
    /\ connected = {} /\ arrived = <<>> /\ taken = 0 /\ refNull = FALSE
    /\ status = FALSE /\ answers = <<>>
    /\ over = "no"

-----------------------------------------------------------------------------
(* The main thread: main.cpp and IrsServer *)

MainGoes(from, to) == Running /\ main = from /\ main' = to

Configure ==
    /\ MainGoes("configure", "listen")
    /\ log' \in {"console", "file"}
    /\ memory' = "live"
    /\ UNCHANGED <<actions, io, core, listening, failed, signals, ioStopped,
                   stored, saved, early, raced, traffic, over>>

\* An exception leaves no server, and the handler of main uses it all the same.
ConfigureFails ==
    /\ MainGoes("configure", "configure")
    /\ over' = "crashed"
    /\ UNCHANGED <<actions, io, process, ioStopped, data, traffic>>

Listen ==
    /\ MainGoes("listen", "startActions")
    /\ listening' = TRUE
    /\ UNCHANGED <<actions, io, objects, ioStopped, failed, signals, data,
                   traffic, over>>

StartActions ==
    /\ MainGoes("startActions", "startIo")
    /\ actions' = "running"
    /\ UNCHANGED <<io, process, ioStopped, data, traffic, over>>

StartIo ==
    /\ MainGoes("startIo", "handleSignals")
    /\ io' = "idle"
    /\ UNCHANGED <<actions, process, ioStopped, data, traffic, over>>

\* Run throws, before or after the acceptor is open, or no thread can be had.
RunFails ==
    /\ \E step \in {"listen", "startActions", "startIo"} :
         MainGoes(step, "clearLog")
    /\ failed' = TRUE
    /\ listening' \in {listening, TRUE}
    /\ UNCHANGED <<actions, io, objects, ioStopped, signals, data, traffic,
                   over>>

\* ClearLogOptions deletes the log and its file, and makes one of the console.
\* In between the core has the stream of the file.
DeleteLog(from, to) ==
    /\ MainGoes(from, to)
    /\ log' = IF log = "file" THEN "freed" ELSE log
    /\ UNCHANGED <<actions, io, core, listening, failed, signals, ioStopped,
                   data, traffic, over>>

NewLog(from, to) ==
    /\ MainGoes(from, to)
    /\ log' = "console"
    /\ UNCHANGED <<actions, io, core, listening, failed, signals, ioStopped,
                   data, traffic, over>>

ClearLogOptions ==
    \/ DeleteLog("clearLog", "newLog") \/ NewLog("newLog", "stop")
    \/ DeleteLog("shutdown", "shutdownLog")
    \/ NewLog("shutdownLog", "deleteCore")

\* sigaction comes first, and what it is to call second.
HandleSignals ==
    /\ MainGoes("handleSignals", "setCallback")
    /\ handler' = "empty"
    /\ UNCHANGED <<actions, io, objects, listening, ioStopped, failed, isRun,
                   interrupted, data, traffic, over>>

SetCallback ==
    /\ MainGoes("setCallback", "wait")
    /\ handler' = "set"
    /\ UNCHANGED <<actions, io, objects, listening, ioStopped, failed, isRun,
                   interrupted, data, traffic, over>>

Leave ==
    /\ MainGoes("wait", "stop") /\ ~isRun
    /\ UNCHANGED <<actions, io, process, ioStopped, data, traffic, over>>

\* The acceptor is closed: open connections are not.
StopListening ==
    /\ listening
    /\ MainGoes("stop", "save")
    /\ listening' = FALSE
    /\ early' = stored \cap Answered
    /\ UNCHANGED <<actions, io, objects, ioStopped, failed, signals, memory,
                   stored, saved, raced, traffic, over>>

\* stop_listening throws when Run did not get as far as to listen: the rest of
\* Stop is left out.
StopThrows ==
    /\ ~listening
    /\ MainGoes("stop", "shutdown")
    /\ UNCHANGED <<actions, io, process, ioStopped, data, traffic, over>>

\* AfterInitialize: the destructor of the memory saves it, and shuts it down,
\* and then the pointer is reset.  An add that is running changes the index
\* while save walks it, and what the walk then misses is anybody's guess.
\* The variants save nothing, and what the storage did not take.
NothingSaved == saved
AnsweredSaved == Answered
WhatIsSaved == stored

Save ==
    /\ MainGoes("save", "free")
    /\ LET adding == io = "command" /\ arrived[taken].kind = "add"
       IN /\ saved' \in IF adding THEN SUBSET WhatIsSaved ELSE {WhatIsSaved}
          /\ raced' = adding
    /\ UNCHANGED <<actions, io, process, ioStopped, memory, stored, early,
                   traffic, over>>

Free ==
    /\ MainGoes("free", "reset")
    /\ memory' = "freed"
    /\ UNCHANGED <<actions, io, process, ioStopped, stored, saved, early,
                   raced, traffic, over>>

Reset ==
    /\ MainGoes("reset", "joinActions")
    /\ memory' = "null"
    /\ UNCHANGED <<actions, io, process, ioStopped, stored, saved, early,
                   raced, traffic, over>>

\* A thread that was never started is not joinable.  The variant does not wait.
Detached(thread) == TRUE
Joined(thread) == thread \in {"none", "exited"}

JoinActions ==
    /\ Joined(actions)
    /\ MainGoes("joinActions", IF io = "none" THEN "shutdown" ELSE "stopIo")
    /\ UNCHANGED <<actions, io, process, ioStopped, data, traffic, over>>

\* m_instance->stop().  The variant leaves it out.
StopForgotten == ioStopped
StopCalled == TRUE
StopIo ==
    /\ MainGoes("stopIo", "joinIo")
    /\ ioStopped' = StopCalled
    /\ UNCHANGED <<actions, io, process, data, traffic, over>>

JoinIo ==
    /\ Joined(io)
    /\ MainGoes("joinIo", "shutdown")
    /\ UNCHANGED <<actions, io, process, ioStopped, data, traffic, over>>

\* The destructor of IrsServer deletes m_instance and m_log, and main returns.
Shutdown ==
    /\ MainGoes("deleteCore", "deleteCore")
    /\ core' = FALSE
    /\ over' = IF failed THEN "failure" ELSE "success"
    /\ UNCHANGED <<actions, io, log, listening, ioStopped, failed, signals,
                   data, traffic>>

Main ==
    \/ Configure \/ ConfigureFails
    \/ Listen \/ StartActions \/ StartIo \/ RunFails \/ ClearLogOptions
    \/ HandleSignals \/ SetCallback \/ Leave
    \/ StopListening \/ StopThrows \/ Save \/ Free \/ Reset
    \/ JoinActions \/ StopIo \/ JoinIo \/ Shutdown

\* EmitActions is empty.
EmitActions ==
    /\ Running /\ actions = "running"
    /\ actions' = "exited"
    /\ UNCHANGED <<main, io, process, ioStopped, data, traffic, over>>

-----------------------------------------------------------------------------
(* The io thread: OnMessage and the JSON handler *)

IoGoes(from, to) == Running /\ io = from /\ io' = to

Kind == arrived[taken].kind

Dies ==
    /\ Running
    /\ over' = "crashed"
    /\ UNCHANGED <<main, actions, io, process, ioStopped, data, traffic>>

\* OnMessage: *m_memory is formed before the message is looked at.
Take ==
    /\ IoGoes("idle", "dispatch") /\ ~ioStopped
    /\ taken < Len(arrived)
    /\ taken' = taken + 1
    /\ refNull' = (memory = "null")
    /\ UNCHANGED <<main, actions, process, ioStopped, data, connected, arrived,
                   status, answers, over>>

\* The request is answered and no command is completed: Handle finds a null, or
\* the command throws at its payload.
Refuse ==
    /\ IoGoes("dispatch", "answer")
    /\ Kind \in {"invalid", "undefined", "rejected"}
    /\ status' = FALSE
    /\ UNCHANGED <<main, actions, process, ioStopped, data, connected, arrived,
                   taken, refNull, answers, over>>

\* Exceptions of the parser leave the thread.  The entry after the last of a map
\* is used as one, and a list that no method made.
DispatchDies ==
    /\ io = "dispatch"
    /\ Kind \in {"malformed", "undefined"}
    /\ Dies

StartCommand ==
    /\ IoGoes("dispatch", "command")
    /\ Kind \in {"add", "get"} /\ ~refNull
    /\ UNCHANGED <<main, actions, process, ioStopped, data, traffic, over>>

\* A command without the memory, with one that is being deleted or was, or with
\* an answer that is no UTF-8.
CommandDies ==
    /\ \/ io = "dispatch" /\ Kind \in {"add", "get"} /\ refNull
       \/ io = "command" /\ memory # "live"
       \/ io = "command" /\ Kind = "add" /\ main \in {"save", "free"}
       \/ io = "command" /\ Kind = "get"
    /\ Dies

\* The answer to an add is TRUE whether the storage took the documents or not.
\* A query may fail to read its answer.  With a deleted memory anything goes.
FinishCommand ==
    /\ IoGoes("command", "answer")
    /\ stored' \in IF Kind = "add" /\ memory = "live"
                   THEN {stored, stored \cup {taken}}
                   ELSE {stored}
    /\ status' \in IF Kind = "add" THEN {TRUE} ELSE BOOLEAN
    /\ UNCHANGED <<main, actions, process, ioStopped, memory, saved, early,
                   raced, connected, arrived, taken, refNull, answers, over>>

\* The answer is sent and the thread returns to its loop.  The variant leaves it
\* after a request that failed.
ExitsOnFailure == IF status THEN "idle" ELSE "exited"
AfterAnswer == "idle"

\* The variant has no answer for a request with a null.
AnswerUnlessInvalid ==
    IF Kind = "invalid" THEN answers
    ELSE Append(answers, [req |-> taken, status |-> status])
AnswerSent == Append(answers, [req |-> taken, status |-> status])

Answer ==
    /\ IoGoes("answer", AfterAnswer)
    /\ answers' = AnswerSent
    /\ UNCHANGED <<main, actions, process, ioStopped, data, connected, arrived,
                   taken, refNull, status, over>>

\* run() returns when it is told to, or when it has nothing to wait for.
Exit ==
    /\ IoGoes("idle", "exited")
    /\ ioStopped \/ (~listening /\ connected = {})
    /\ UNCHANGED <<main, actions, process, ioStopped, data, traffic, over>>

Io ==
    \/ Take \/ Refuse \/ StartCommand \/ FinishCommand \/ Answer \/ Exit
    \/ DispatchDies \/ CommandDies

-----------------------------------------------------------------------------
(* The clients, and the user *)

\* Connections are opened and closed by the io thread, between two messages.
Connect(c) ==
    /\ Running /\ io = "idle" /\ ~ioStopped /\ listening
    /\ connected' = connected \cup {c}
    /\ UNCHANGED <<main, actions, io, process, ioStopped, data, arrived, taken,
                   refNull, status, answers, over>>

Disconnect(c) ==
    /\ Running /\ io = "idle" /\ ~ioStopped /\ c \in connected
    /\ \A i \in taken + 1 .. Len(arrived) : arrived[i].client # c
    /\ connected' = connected \ {c}
    /\ UNCHANGED <<main, actions, io, process, ioStopped, data, arrived, taken,
                   refNull, status, answers, over>>

Send(c, kind) ==
    /\ Running /\ io # "exited" /\ c \in connected
    /\ Len(arrived) < MaxRequests
    /\ arrived' = Append(arrived, [client |-> c, kind |-> kind])
    /\ UNCHANGED <<main, actions, io, process, ioStopped, data, connected,
                   taken, refNull, status, answers, over>>

\* SIGINT.  With the default action it ends the process, and with a handler that
\* has nothing to call yet it has no effect.
InterruptKills ==
    /\ Running /\ handler = "default"
    /\ over' = "killed"
    /\ UNCHANGED <<main, actions, io, process, ioStopped, data, traffic>>

Interrupt ==
    /\ Running /\ handler # "default" /\ isRun
    /\ interrupted' = TRUE
    /\ isRun' = (handler # "set")
    /\ UNCHANGED <<main, actions, io, objects, listening, ioStopped, failed,
                   handler, data, traffic, over>>

\* The process is over.
Over == ~Running /\ UNCHANGED vars

Next ==
    \/ Main \/ EmitActions \/ Io
    \/ \E c \in Clients :
         Connect(c) \/ Disconnect(c) \/ \E kind \in Kinds : Send(c, kind)
    \/ InterruptKills \/ Interrupt
    \/ Over

\* The operating system runs every thread that can go on, and a command comes to
\* its end: its loops are over lists and files.  Nobody has to connect, to send
\* or to interrupt.
Fairness == WF_vars(Main) /\ WF_vars(EmitActions) /\ WF_vars(Io)

Spec == Init /\ [][Next]_vars /\ Fairness

-----------------------------------------------------------------------------
(* Properties *)

Requests == 1 .. MaxRequests

TypeOK ==
    /\ main \in {"configure", "listen", "startActions", "startIo",
                 "handleSignals", "setCallback", "wait", "stop", "save", "free",
                 "reset", "joinActions", "stopIo", "joinIo", "clearLog",
                 "newLog", "shutdown", "shutdownLog", "deleteCore"}
    /\ actions \in {"none", "running", "exited"}
    /\ io \in {"none", "idle", "dispatch", "command", "answer", "exited"}
    /\ core \in BOOLEAN /\ listening \in BOOLEAN /\ ioStopped \in BOOLEAN
    /\ failed \in BOOLEAN /\ isRun \in BOOLEAN /\ interrupted \in BOOLEAN
    /\ raced \in BOOLEAN /\ refNull \in BOOLEAN /\ status \in BOOLEAN
    /\ log \in {"console", "file", "freed"}
    /\ handler \in {"default", "empty", "set"}
    /\ memory \in {"none", "live", "freed", "null"}
    /\ stored \subseteq Requests /\ saved \subseteq stored
    /\ early \subseteq stored
    /\ connected \subseteq Clients
    /\ arrived \in Seq([client : Clients, kind : Kinds])
    /\ taken \in 0 .. Len(arrived)
    /\ answers \in Seq([req : Requests, status : BOOLEAN])
    /\ over \in {"no", "success", "failure", "crashed", "killed"}

\* m_instance is not deleted while a thread still runs in it, nor the file it
\* logs to while the io thread may log, whichever step of Run failed and what-
\* ever the io thread was doing when Stop was called (IrsServer::Stop,
\* IrsServer::Shutdown, IrsServer::ClearLogOptions).
CoreOutlivesThreads ==
    /\ ~core => actions \in {"none", "exited"} /\ io \in {"none", "exited"}
    /\ log = "freed" => io \in {"none", "exited"}

\* What the storage took and a client was told of before Stop is saved when the
\* process returns from main, whatever the io thread did meanwhile, except when
\* it was adding during the save, and a failure of Run that keeps the memory
\* from being deleted loses nothing (IrsServerImpl::AfterInitialize).
KeepsWhatItAnswered ==
    over \in {"success", "failure"} /\ ~raced => early \subseteq saved

\* Every message is answered once and in the order of arrival, none is left out,
\* as long as the process lives (IrsServerImpl::OnMessage).
AnswersInOrder ==
    /\ \A i \in DOMAIN answers : answers[i].req = i
    /\ Len(answers) = IF io \in {"dispatch", "command", "answer"}
                      THEN taken - 1 ELSE taken

\* A SIGINT that main sees ends the process: Stop never waits for a thread that
\* waits in turn, for a client or for another message (IrsServer::Stop).
StopEnds == ~isRun ~> ~Running

\* Every message is answered, unless the process ends.
EveryMessageAnswered ==
    \A i \in Requests : Len(arrived) >= i ~> (i \in Answered \/ ~Running)

-----------------------------------------------------------------------------
(* What a comment says, and main does not keep *)

\* A SIGINT is handled from the moment there is a handler for it.
InterruptEnds == interrupted ~> ~Running
=============================================================================

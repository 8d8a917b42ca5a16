--------------------------- MODULE IrsServerProofs ---------------------------
(***************************************************************************)
(* Proofs about IrsServer, for any clients and any number of messages: the *)
(* objects the threads use outlive them, messages are answered in order,   *)
(* and what was stored and answered before the stop is saved.              *)
(***************************************************************************)
EXTENDS IrsServer, TLAPS

Busy == {"dispatch", "command", "answer"}
Last == {"shutdown", "shutdownLog", "deleteCore"}

\* Where main is tells which threads there are.  Only a main thread that never
\* listened leaves out the joins, and then it has started none.
ThreadsInv ==
    /\ listening \in BOOLEAN
    /\ main \in {"configure", "listen", "startActions"} => actions = "none"
    /\ main \in {"configure", "listen", "startActions", "startIo", "clearLog",
                 "newLog"} => io = "none"
    /\ main \in {"startActions", "startIo", "handleSignals", "setCallback",
                 "wait"} => listening
    /\ main \in {"clearLog", "newLog", "stop"} /\ ~listening =>
         actions = "none" /\ io = "none"
    /\ main \in {"stopIo", "joinIo"} \cup Last => Joined(actions)
    /\ main \in Last => Joined(io)
    /\ log = "freed" => main \in {"newLog", "shutdownLog"}
    /\ ~core => main = "deleteCore"

\* Nothing is owed to a client before the stop, and after the save what was is
\* saved, unless an add was running.
KeptInv ==
    /\ main \in {"configure", "listen", "startActions", "startIo",
                 "handleSignals", "setCallback", "wait", "clearLog", "newLog",
                 "stop"} => early = {}
    /\ main \in {"free", "reset", "joinActions", "stopIo", "joinIo"} \cup Last
         => (raced \/ early \subseteq saved)
    /\ over \in {"success", "failure"} => main = "deleteCore"

\* The types of what has nothing to do with messages.
ControlOK ==
    /\ main \in {"configure", "listen", "startActions", "startIo",
                 "handleSignals", "setCallback", "wait", "stop", "save", "free",
                 "reset", "joinActions", "stopIo", "joinIo", "clearLog",
                 "newLog", "shutdown", "shutdownLog", "deleteCore"}
    /\ actions \in {"none", "running", "exited"}
    /\ io \in {"none", "idle", "dispatch", "command", "answer", "exited"}
    /\ log \in {"console", "file", "freed"}
    /\ handler \in {"default", "empty", "set"}
    /\ memory \in {"none", "live", "freed", "null"}
    /\ connected \subseteq Clients
    /\ over \in {"no", "success", "failure", "crashed", "killed"}

\* The types of flags, apart because Booleans are proved about apart.
FlagsOK ==
    /\ core \in BOOLEAN /\ listening \in BOOLEAN /\ ioStopped \in BOOLEAN
    /\ failed \in BOOLEAN /\ isRun \in BOOLEAN /\ interrupted \in BOOLEAN
    /\ raced \in BOOLEAN /\ refNull \in BOOLEAN /\ status \in BOOLEAN

\* The io thread has answered what it took, except the message it is at.
OrderInv ==
    /\ arrived \in Seq([client : Clients, kind : Kinds])
    /\ Len(arrived) <= MaxRequests
    /\ taken \in 0 .. Len(arrived)
    /\ answers \in Seq([req : Requests, status : BOOLEAN])
    /\ AnswersInOrder

\* What is saved was stored, and only messages that were taken are.
StoredInv ==
    /\ stored \subseteq Requests
    /\ saved \subseteq stored /\ early \subseteq stored

USE DEF MainGoes, IoGoes, Running, Joined, Kind, objects, signals, process,
        data, traffic, vars

\* The objects the threads use outlive them.
LEMMA ThreadsCorrect == Spec => []ThreadsInv
<1>1. Init => ThreadsInv
  BY DEF Init, ThreadsInv
<1>2. ASSUME ThreadsInv, [Next]_vars
      PROVE  ThreadsInv'
  <2>1. CASE Configure
    BY <1>2, <2>1 DEF Configure, ThreadsInv, Last
  <2>2. CASE ConfigureFails
    BY <1>2, <2>2 DEF ConfigureFails, ThreadsInv, Last
  <2>3. CASE Listen
    BY <1>2, <2>3 DEF Listen, ThreadsInv, Last
  <2>4. CASE StartActions
    BY <1>2, <2>4 DEF StartActions, ThreadsInv, Last
  <2>5. CASE StartIo
    BY <1>2, <2>5 DEF StartIo, ThreadsInv, Last
  <2>6. CASE RunFails
    <3>1. PICK step \in {"listen", "startActions", "startIo"} :
            MainGoes(step, "clearLog")
      BY <2>6 DEF RunFails
    <3>2. /\ io = "none" /\ log # "freed" /\ core # FALSE
          /\ main = "listen" \/ listening = TRUE
          /\ main = "listen" => actions = "none"
      BY <1>2, <3>1 DEF ThreadsInv
    <3>3. /\ main' = "clearLog" /\ listening' \in {listening, TRUE}
          /\ UNCHANGED <<actions, io, log, core>>
      BY <2>6, <3>1 DEF RunFails
    <3>4. QED
      BY <1>2, <3>1, <3>2, <3>3 DEF ThreadsInv, Last
  <2>7. CASE ClearLogOptions
    BY <1>2, <2>7 DEF ClearLogOptions, DeleteLog, NewLog, ThreadsInv, Last
  <2>8. CASE HandleSignals
    BY <1>2, <2>8 DEF HandleSignals, ThreadsInv, Last
  <2>9. CASE SetCallback
    BY <1>2, <2>9 DEF SetCallback, ThreadsInv, Last
  <2>10. CASE Leave
    BY <1>2, <2>10 DEF Leave, ThreadsInv, Last
  <2>11. CASE StopListening
    BY <1>2, <2>11 DEF StopListening, ThreadsInv, Last
  <2>12. CASE StopThrows
    BY <1>2, <2>12 DEF StopThrows, ThreadsInv, Last
  <2>13. CASE Save
    BY <1>2, <2>13 DEF Save, WhatIsSaved, ThreadsInv, Last
  <2>14. CASE Free
    BY <1>2, <2>14 DEF Free, ThreadsInv, Last
  <2>15. CASE Reset
    BY <1>2, <2>15 DEF Reset, ThreadsInv, Last
  <2>16. CASE JoinActions
    BY <1>2, <2>16 DEF JoinActions, ThreadsInv, Last
  <2>17. CASE StopIo
    BY <1>2, <2>17 DEF StopIo, StopCalled, ThreadsInv, Last
  <2>18. CASE JoinIo
    BY <1>2, <2>18 DEF JoinIo, ThreadsInv, Last
  <2>19. CASE Shutdown
    BY <1>2, <2>19 DEF Shutdown, ThreadsInv, Last
  <2>20. CASE EmitActions
    BY <1>2, <2>20 DEF EmitActions, ThreadsInv, Last
  <2>21. CASE Take
    BY <1>2, <2>21 DEF Take, ThreadsInv, Last
  <2>22. CASE Refuse
    BY <1>2, <2>22 DEF Refuse, ThreadsInv, Last
  <2>23. CASE StartCommand
    BY <1>2, <2>23 DEF StartCommand, ThreadsInv, Last
  <2>24. CASE FinishCommand
    BY <1>2, <2>24 DEF FinishCommand, ThreadsInv, Last
  <2>25. CASE Answer
    BY <1>2, <2>25 DEF Answer, AnswerSent, AfterAnswer, ThreadsInv, Last
  <2>26. CASE Exit
    BY <1>2, <2>26 DEF Exit, ThreadsInv, Last
  <2>27. CASE DispatchDies
    BY <1>2, <2>27 DEF DispatchDies, Dies, ThreadsInv, Last
  <2>28. CASE CommandDies
    BY <1>2, <2>28 DEF CommandDies, Dies, ThreadsInv, Last
  <2>29. CASE \E c \in Clients : Connect(c)
    BY <1>2, <2>29 DEF Connect, ThreadsInv, Last
  <2>30. CASE \E c \in Clients : Disconnect(c)
    BY <1>2, <2>30 DEF Disconnect, ThreadsInv, Last
  <2>31. CASE \E c \in Clients, kind \in Kinds : Send(c, kind)
    BY <1>2, <2>31 DEF Send, ThreadsInv, Last
  <2>32. CASE InterruptKills
    BY <1>2, <2>32 DEF InterruptKills, ThreadsInv, Last
  <2>33. CASE Interrupt
    BY <1>2, <2>33 DEF Interrupt, ThreadsInv, Last
  <2>34. CASE UNCHANGED vars
    BY <1>2, <2>34 DEF ThreadsInv, Last
  <2>35. QED
    BY <1>2, <2>1, <2>2, <2>3, <2>4, <2>5, <2>6, <2>7, <2>8, <2>9, <2>10,
    <2>11, <2>12, <2>13, <2>14, <2>15, <2>16, <2>17, <2>18, <2>19, <2>20,
    <2>21, <2>22, <2>23, <2>24, <2>25, <2>26, <2>27, <2>28, <2>29, <2>30,
    <2>31, <2>32, <2>33, <2>34 DEF Next, Main, Io, Over
<1>3. QED
  BY <1>1, <1>2, PTL DEF Spec

\* CoreOutlivesThreads: whichever step of Run fails, and whatever the io thread
\* is doing when Stop is called.
THEOREM CoreOutlivesThreadsCorrect == Spec => []CoreOutlivesThreads
<1>1. ThreadsInv => CoreOutlivesThreads
  BY DEF ThreadsInv, CoreOutlivesThreads, Last
<1>2. QED
  BY <1>1, ThreadsCorrect, PTL

\* The steps of the threads, and the states of what they share.
LEMMA ControlCorrect == Spec => []ControlOK
<1>1. Init => ControlOK
  BY DEF Init, ControlOK
<1>2. ASSUME ControlOK, [Next]_vars
      PROVE  ControlOK'
  <2>1. CASE Configure
    BY <1>2, <2>1 DEF Configure, ControlOK
  <2>2. CASE ConfigureFails
    BY <1>2, <2>2 DEF ConfigureFails, ControlOK
  <2>3. CASE Listen
    BY <1>2, <2>3 DEF Listen, ControlOK
  <2>4. CASE StartActions
    BY <1>2, <2>4 DEF StartActions, ControlOK
  <2>5. CASE StartIo
    BY <1>2, <2>5 DEF StartIo, ControlOK
  <2>6. CASE RunFails
    BY <1>2, <2>6 DEF RunFails, ControlOK
  <2>7. CASE ClearLogOptions
    BY <1>2, <2>7 DEF ClearLogOptions, DeleteLog, NewLog, ControlOK
  <2>8. CASE HandleSignals
    BY <1>2, <2>8 DEF HandleSignals, ControlOK
  <2>9. CASE SetCallback
    BY <1>2, <2>9 DEF SetCallback, ControlOK
  <2>10. CASE Leave
    BY <1>2, <2>10 DEF Leave, ControlOK
  <2>11. CASE StopListening
    BY <1>2, <2>11 DEF StopListening, ControlOK
  <2>12. CASE StopThrows
    BY <1>2, <2>12 DEF StopThrows, ControlOK
  <2>13. CASE Save
    BY <1>2, <2>13 DEF Save, WhatIsSaved, ControlOK
  <2>14. CASE Free
    BY <1>2, <2>14 DEF Free, ControlOK
  <2>15. CASE Reset
    BY <1>2, <2>15 DEF Reset, ControlOK
  <2>16. CASE JoinActions
    BY <1>2, <2>16 DEF JoinActions, ControlOK
  <2>17. CASE StopIo
    BY <1>2, <2>17 DEF StopIo, StopCalled, ControlOK
  <2>18. CASE JoinIo
    BY <1>2, <2>18 DEF JoinIo, ControlOK
  <2>19. CASE Shutdown
    BY <1>2, <2>19 DEF Shutdown, ControlOK
  <2>20. CASE EmitActions
    BY <1>2, <2>20 DEF EmitActions, ControlOK
  <2>21. CASE Take
    BY <1>2, <2>21 DEF Take, ControlOK
  <2>22. CASE Refuse
    BY <1>2, <2>22 DEF Refuse, ControlOK
  <2>23. CASE StartCommand
    BY <1>2, <2>23 DEF StartCommand, ControlOK
  <2>24. CASE FinishCommand
    BY <1>2, <2>24 DEF FinishCommand, ControlOK
  <2>25. CASE Answer
    BY <1>2, <2>25 DEF Answer, AnswerSent, AfterAnswer, ControlOK
  <2>26. CASE Exit
    BY <1>2, <2>26 DEF Exit, ControlOK
  <2>27. CASE DispatchDies
    BY <1>2, <2>27 DEF DispatchDies, Dies, ControlOK
  <2>28. CASE CommandDies
    BY <1>2, <2>28 DEF CommandDies, Dies, ControlOK
  <2>29. CASE \E c \in Clients : Connect(c)
    BY <1>2, <2>29 DEF Connect, ControlOK
  <2>30. CASE \E c \in Clients : Disconnect(c)
    BY <1>2, <2>30 DEF Disconnect, ControlOK
  <2>31. CASE \E c \in Clients, kind \in Kinds : Send(c, kind)
    BY <1>2, <2>31 DEF Send, ControlOK
  <2>32. CASE InterruptKills
    BY <1>2, <2>32 DEF InterruptKills, ControlOK
  <2>33. CASE Interrupt
    BY <1>2, <2>33 DEF Interrupt, ControlOK
  <2>34. CASE UNCHANGED vars
    BY <1>2, <2>34 DEF ControlOK
  <2>35. QED
    BY <1>2, <2>1, <2>2, <2>3, <2>4, <2>5, <2>6, <2>7, <2>8, <2>9, <2>10,
    <2>11, <2>12, <2>13, <2>14, <2>15, <2>16, <2>17, <2>18, <2>19, <2>20,
    <2>21, <2>22, <2>23, <2>24, <2>25, <2>26, <2>27, <2>28, <2>29, <2>30,
    <2>31, <2>32, <2>33, <2>34 DEF Next, Main, Io, Over
<1>3. QED
  BY <1>1, <1>2, PTL DEF Spec

\* Flags are flags.
LEMMA FlagsCorrect == Spec => []FlagsOK
<1>1. Init => FlagsOK
  BY DEF Init, FlagsOK
<1>2. ASSUME FlagsOK, [Next]_vars
      PROVE  FlagsOK'
  <2>1. CASE StopListening \/ Shutdown \/ RunFails \/ Save \/ StopIo
    <3>1. CASE StopListening
      BY <1>2, <3>1, Zenon DEF StopListening, FlagsOK
    <3>2. CASE Shutdown
      BY <1>2, <3>2, Zenon DEF Shutdown, FlagsOK
    <3>3. CASE RunFails
      BY <1>2, <3>3, Zenon DEF RunFails, FlagsOK
    <3>4. CASE Save
      BY <1>2, <3>4, Zenon DEF Save, FlagsOK
    <3>5. CASE StopIo
      BY <1>2, <3>5, Zenon DEF StopIo, StopCalled, FlagsOK
    <3>6. QED
      BY <2>1, <3>1, <3>2, <3>3, <3>4, <3>5
  <2>2. CASE Listen \/ Interrupt \/ Take \/ Refuse \/ FinishCommand
    <3>1. CASE Listen
      BY <1>2, <3>1, Zenon DEF Listen, FlagsOK
    <3>2. CASE Interrupt
      BY <1>2, <3>2, Zenon DEF Interrupt, FlagsOK
    <3>3. CASE Take
      BY <1>2, <3>3, Zenon DEF Take, FlagsOK
    <3>4. CASE Refuse
      BY <1>2, <3>4, Zenon DEF Refuse, FlagsOK
    <3>5. CASE FinishCommand
      <4>1. status' \in BOOLEAN
        BY <3>5 DEF FinishCommand
      <4>2. QED
        BY <1>2, <3>5, <4>1, Zenon DEF FinishCommand, FlagsOK
    <3>6. QED
      BY <2>2, <3>1, <3>2, <3>3, <3>4, <3>5
  <2>3. CASE UNCHANGED <<core, listening, ioStopped, failed, isRun, interrupted,
                         raced, refNull, status>>
    BY <1>2, <2>3 DEF FlagsOK
  <2>4. QED
    BY <1>2, <2>1, <2>2, <2>3
    DEF Next, Main, EmitActions, Io, Over, Configure, ConfigureFails,
        StartActions, StartIo, ClearLogOptions, DeleteLog, NewLog,
        HandleSignals, SetCallback, Leave, StopThrows, Free, Reset, JoinActions,
        JoinIo, StartCommand, Answer, Exit, DispatchDies, CommandDies, Dies, Connect,
        Disconnect, Send, InterruptKills
<1>3. QED
  BY <1>1, <1>2, PTL DEF Spec

\* Messages are taken in the order they arrive, and answered one by one.
LEMMA OrderCorrect == Spec => []OrderInv
<1>1. Init => OrderInv
  BY BoundAssumption DEF Init, OrderInv, AnswersInOrder, Requests
<1>2. ASSUME FlagsOK, ThreadsInv, OrderInv, [Next]_vars
      PROVE  OrderInv'
  <2> DEFINE Waits == io \in Busy
  <2>1. /\ Waits => taken \in 1 .. Len(arrived) /\ Len(answers) = taken - 1
        /\ ~Waits => Len(answers) = taken
    BY <1>2 DEF OrderInv, AnswersInOrder, Busy
  \* Most steps leave messages and answers alone, and the io thread is at one or
  \* it is not.
  <2>2. ASSUME UNCHANGED <<arrived, taken, answers>>, Waits' <=> Waits
        PROVE  OrderInv'
    BY <1>2, <2>2 DEF OrderInv, AnswersInOrder, Busy
  <2>3. CASE Main \/ EmitActions
    <3>1. UNCHANGED <<arrived, taken, answers>>
      BY <2>3 DEF Main, EmitActions, Configure, ConfigureFails, Listen,
         StartActions, StartIo, RunFails, ClearLogOptions, DeleteLog, NewLog,
         HandleSignals, SetCallback, Leave, StopListening, StopThrows, Save,
         Free, Reset, JoinActions, StopIo, JoinIo, Shutdown
    <3>2. CASE StartIo
      BY <1>2, <2>2, <3>1, <3>2 DEF StartIo, ThreadsInv, Busy
    <3>3. ASSUME ~StartIo
          PROVE  io' = io
      BY <2>3, <3>3 DEF Main, EmitActions, Configure, ConfigureFails, Listen,
         StartActions, RunFails, ClearLogOptions, DeleteLog, NewLog,
         HandleSignals, SetCallback, Leave, StopListening, StopThrows, Save,
         Free, Reset, JoinActions, StopIo, JoinIo, Shutdown
    <3>4. QED
      BY <2>2, <3>1, <3>2, <3>3
  <2>4. CASE Take
    BY <1>2, <2>1, <2>4 DEF Take, OrderInv, AnswersInOrder, Busy
  <2>5. CASE Refuse \/ StartCommand \/ FinishCommand \/ Exit
    BY <2>2, <2>5 DEF Refuse, StartCommand, FinishCommand, Exit, Busy
  <2>6. CASE DispatchDies \/ CommandDies
    BY <2>2, <2>6 DEF DispatchDies, CommandDies, Dies, Busy
  <2>7. CASE Answer
    <3>1. /\ answers' = Append(answers, [req |-> taken, status |-> status])
          /\ io = "answer" /\ io' = "idle" /\ UNCHANGED <<arrived, taken>>
      BY <2>7 DEF Answer, AnswerSent, AfterAnswer
    <3>2. taken \in Requests /\ Len(answers) = taken - 1
      BY <1>2, <2>1, <3>1, BoundAssumption DEF OrderInv, Requests, Busy
    <3>3. [req |-> taken, status |-> status]
            \in [req : Requests, status : BOOLEAN]
      BY <1>2, <3>2 DEF FlagsOK
    <3>4. /\ answers' \in Seq([req : Requests, status : BOOLEAN])
          /\ Len(answers') = taken
          /\ \A i \in DOMAIN answers' : answers'[i].req = i
      BY <1>2, <3>1, <3>2, <3>3 DEF OrderInv, AnswersInOrder
    <3>5. QED
      BY <1>2, <3>1, <3>4 DEF OrderInv, AnswersInOrder
  <2>8. CASE \E c \in Clients : Connect(c) \/ Disconnect(c)
    BY <2>2, <2>8 DEF Connect, Disconnect, Busy
  <2>9. CASE \E c \in Clients, kind \in Kinds : Send(c, kind)
    <3>1. PICK c \in Clients, kind \in Kinds : Send(c, kind)
      BY <2>9
    <3>2. /\ arrived' = Append(arrived, [client |-> c, kind |-> kind])
          /\ Len(arrived) < MaxRequests /\ UNCHANGED <<taken, answers, io>>
      BY <3>1 DEF Send
    <3>3. /\ arrived' \in Seq([client : Clients, kind : Kinds])
          /\ Len(arrived') = Len(arrived) + 1
      BY <1>2, <3>2 DEF OrderInv
    <3>4. QED
      BY <1>2, <3>2, <3>3, BoundAssumption DEF OrderInv, AnswersInOrder
  <2>10. CASE InterruptKills \/ Interrupt \/ UNCHANGED vars
    BY <2>2, <2>10 DEF InterruptKills, Interrupt, Busy
  <2>11. QED
    BY <1>2, <2>3, <2>4, <2>5, <2>6, <2>7, <2>8, <2>9, <2>10
    DEF Next, Io, Over
<1>3. QED
  BY <1>1, <1>2, FlagsCorrect, ThreadsCorrect, PTL DEF Spec

\* Only FinishCommand and Save change what is stored and saved.
LEMMA StoredCorrect == Spec => []StoredInv
<1>1. Init => StoredInv
  BY DEF Init, StoredInv
<1>2. ASSUME OrderInv, StoredInv, [Next]_vars
      PROVE  StoredInv'
  <2>1. CASE FinishCommand
    <3>1. taken \in Requests
      <4>1. io \in Busy
        BY <2>1 DEF FinishCommand, Busy
      <4>2. QED
        BY <1>2, <4>1, BoundAssumption
        DEF OrderInv, AnswersInOrder, Requests, Busy
    <3>2. /\ stored' \in {stored, stored \cup {taken}}
          /\ UNCHANGED <<saved, early>>
      BY <2>1 DEF FinishCommand
    <3>3. QED
      BY <1>2, <3>1, <3>2 DEF StoredInv
  <2>2. CASE Save
    <3>1. saved' \subseteq stored /\ UNCHANGED <<stored, early>>
      BY <2>2 DEF Save, WhatIsSaved
    <3>2. QED
      BY <1>2, <3>1 DEF StoredInv
  <2>3. CASE StopListening
    <3>1. early' \subseteq stored /\ UNCHANGED <<stored, saved>>
      BY <2>3 DEF StopListening
    <3>2. QED
      BY <1>2, <3>1 DEF StoredInv
  <2>4. CASE UNCHANGED <<stored, saved, early>>
    BY <1>2, <2>4 DEF StoredInv
  <2>5. QED
    BY <1>2, <2>1, <2>2, <2>3, <2>4
    DEF Next, Main, EmitActions, Io, Over, Configure, ConfigureFails, Listen,
        StartActions, StartIo, RunFails, ClearLogOptions, DeleteLog, NewLog,
        HandleSignals, SetCallback, Leave, StopThrows, Free, Reset, JoinActions,
        StopIo, JoinIo, Shutdown, Take, Refuse, StartCommand, Answer, Exit,
        DispatchDies, CommandDies, Dies, Connect, Disconnect, Send,
        InterruptKills, Interrupt
<1>3. QED
  BY <1>1, <1>2, OrderCorrect, PTL DEF Spec

\* Type correctness of the server.
THEOREM TypeCorrect == Spec => []TypeOK
<1>1. ControlOK /\ FlagsOK /\ OrderInv /\ StoredInv => TypeOK
  BY DEF ControlOK, FlagsOK, OrderInv, StoredInv, TypeOK
<1>2. QED
  BY <1>1, ControlCorrect, FlagsCorrect, OrderCorrect, StoredCorrect, PTL

\* AnswersInOrder: whatever the messages are.
THEOREM AnswersInOrderCorrect == Spec => []AnswersInOrder
<1>1. OrderInv => AnswersInOrder
  BY DEF OrderInv
<1>2. QED
  BY <1>1, OrderCorrect, PTL

\* What is owed to clients at the stop is saved by the save.
LEMMA KeptCorrect == Spec => []KeptInv
<1>1. Init => KeptInv
  BY DEF Init, KeptInv, Last
<1>2. ASSUME StoredInv, KeptInv, [Next]_vars
      PROVE  KeptInv'
  <2>1. CASE Configure
    BY <1>2, <2>1 DEF Configure, KeptInv, Last
  <2>2. CASE ConfigureFails
    BY <1>2, <2>2 DEF ConfigureFails, KeptInv, Last
  <2>3. CASE Listen
    BY <1>2, <2>3 DEF Listen, KeptInv, Last
  <2>4. CASE StartActions
    BY <1>2, <2>4 DEF StartActions, KeptInv, Last
  <2>5. CASE StartIo
    BY <1>2, <2>5 DEF StartIo, KeptInv, Last
  <2>6. CASE RunFails
    BY <1>2, <2>6 DEF RunFails, KeptInv, Last
  <2>7. CASE ClearLogOptions
    BY <1>2, <2>7 DEF ClearLogOptions, DeleteLog, NewLog, KeptInv, Last
  <2>8. CASE HandleSignals
    BY <1>2, <2>8 DEF HandleSignals, KeptInv, Last
  <2>9. CASE SetCallback
    BY <1>2, <2>9 DEF SetCallback, KeptInv, Last
  <2>10. CASE Leave
    BY <1>2, <2>10 DEF Leave, KeptInv, Last
  <2>11. CASE StopListening
    BY <1>2, <2>11 DEF StopListening, KeptInv, Last
  <2>12. CASE StopThrows
    BY <1>2, <2>12 DEF StopThrows, KeptInv, Last
  <2>13. CASE Save
    <3>1. \/ raced' = TRUE
          \/ saved' = stored
      BY <2>13 DEF Save, WhatIsSaved
    <3>2. main' = "free" /\ UNCHANGED <<early, over>> /\ over = "no"
      BY <2>13 DEF Save
    <3>3. QED
      BY <1>2, <3>1, <3>2 DEF KeptInv, StoredInv, Last
  <2>14. CASE Free
    BY <1>2, <2>14 DEF Free, KeptInv, Last
  <2>15. CASE Reset
    BY <1>2, <2>15 DEF Reset, KeptInv, Last
  <2>16. CASE JoinActions
    BY <1>2, <2>16 DEF JoinActions, KeptInv, Last
  <2>17. CASE StopIo
    BY <1>2, <2>17 DEF StopIo, StopCalled, KeptInv, Last
  <2>18. CASE JoinIo
    BY <1>2, <2>18 DEF JoinIo, KeptInv, Last
  <2>19. CASE Shutdown
    BY <1>2, <2>19 DEF Shutdown, KeptInv, Last
  <2>20. CASE EmitActions
    BY <1>2, <2>20 DEF EmitActions, KeptInv, Last
  <2>21. CASE Take
    BY <1>2, <2>21 DEF Take, KeptInv, Last
  <2>22. CASE Refuse
    BY <1>2, <2>22 DEF Refuse, KeptInv, Last
  <2>23. CASE StartCommand
    BY <1>2, <2>23 DEF StartCommand, KeptInv, Last
  <2>24. CASE FinishCommand
    BY <1>2, <2>24 DEF FinishCommand, KeptInv, Last
  <2>25. CASE Answer
    BY <1>2, <2>25 DEF Answer, AnswerSent, AfterAnswer, KeptInv, Last
  <2>26. CASE Exit
    BY <1>2, <2>26 DEF Exit, KeptInv, Last
  <2>27. CASE DispatchDies
    BY <1>2, <2>27 DEF DispatchDies, Dies, KeptInv, Last
  <2>28. CASE CommandDies
    BY <1>2, <2>28 DEF CommandDies, Dies, KeptInv, Last
  <2>29. CASE \E c \in Clients : Connect(c)
    BY <1>2, <2>29 DEF Connect, KeptInv, Last
  <2>30. CASE \E c \in Clients : Disconnect(c)
    BY <1>2, <2>30 DEF Disconnect, KeptInv, Last
  <2>31. CASE \E c \in Clients, kind \in Kinds : Send(c, kind)
    BY <1>2, <2>31 DEF Send, KeptInv, Last
  <2>32. CASE InterruptKills
    BY <1>2, <2>32 DEF InterruptKills, KeptInv, Last
  <2>33. CASE Interrupt
    BY <1>2, <2>33 DEF Interrupt, KeptInv, Last
  <2>34. CASE UNCHANGED vars
    BY <1>2, <2>34 DEF vars, KeptInv, Last
  <2>35. QED
    BY <1>2, <2>1, <2>2, <2>3, <2>4, <2>5, <2>6, <2>7, <2>8, <2>9, <2>10,
    <2>11, <2>12, <2>13, <2>14, <2>15, <2>16, <2>17, <2>18, <2>19, <2>20,
    <2>21, <2>22, <2>23, <2>24, <2>25, <2>26, <2>27, <2>28, <2>29, <2>30,
    <2>31, <2>32, <2>33, <2>34 DEF Next, Main, Io, Over
<1>3. QED
  BY <1>1, <1>2, StoredCorrect, PTL DEF Spec

\* KeepsWhatItAnswered: a process that ends as it should has saved everything.
THEOREM KeepsCorrect == Spec => []KeepsWhatItAnswered
<1>1. FlagsOK /\ KeptInv => KeepsWhatItAnswered
  BY DEF FlagsOK, KeptInv, KeepsWhatItAnswered, Last
<1>2. QED
  BY <1>1, FlagsCorrect, KeptCorrect, PTL
=============================================================================

----------------------------- MODULE MCWorkers -----------------------------
(* Four ways to hand work to another thread, each with threads that sleep and  *)
(* have to be woken: CommandThread, the ring of MelProcessor, the FIFO at its   *)
(* default levels, and the timed execution queue, with the requests of          *)
(* MCTimerQueue.  They share nothing; a behaviour is one of them alone, chosen  *)
(* by "part".                                                                  *)
EXTENDS CommandThread, MelProcessor, Fifo, MCTimerQueue

VARIABLE part

\* Commands to be run at once, and delayed ones that become due in either order
\* and at the same time.
MCDelays == {0, 1, 2}

\* The loops of the FIFO's clients: both also use timeouts and odd lengths.
MCLoopWriters == {<<"write", 2, "forever">>, <<"write", 3, "finite">>}
MCLoopReaders == {<<"read", 2, "forever">>, <<"read", 1, "finite">>}

MCVars == <<part, vars, melVars, fifoVars, timerVars>>

MCInit ==
  /\ part \in {"command", "mel", "fifo", "timer"}
  /\ Init /\ MelInit /\ FifoInit /\ TimerInit

OnlyCommands == part = "command" /\ UNCHANGED <<part, melVars, fifoVars, timerVars>>
OnlyMel      == part = "mel"     /\ UNCHANGED <<part, vars, fifoVars, timerVars>>
OnlyFutexes  == part = "fifo"    /\ UNCHANGED <<part, vars, melVars, timerVars>>
OnlyTimers   == part = "timer"   /\ UNCHANGED <<part, vars, melVars, fifoVars>>

MCNext ==
  \/ OnlyCommands /\ Next
  \/ OnlyMel /\ MelNext
  \/ OnlyFutexes /\ FifoNext
  \/ OnlyTimers /\ TimerNext

\* The fairness of each part, as its module states it.
MCSpec ==
  /\ MCInit /\ [][MCNext]_MCVars
  /\ WF_vars(part = "command" /\ WorkerRuns) /\ WF_vars(part = "command" /\ TaskReturns)
  /\ WF_vars(part = "command" /\ WorkerTimesOut) /\ WF_vars(part = "command" /\ Tick)
  /\ \A w \in Waiters : WF_vars(part = "command" /\ WaiterWakes(w))
  /\ WF_melVars(part = "mel" /\ MelWorker) /\ WF_melVars(part = "mel" /\ DrainPoll)
  /\ WF_melVars(part = "mel" /\ StopNotify) /\ WF_melVars(part = "mel" /\ StopJoin)
  /\ WF_fifoVars(part = "fifo" /\ WriterStep) /\ WF_fifoVars(part = "fifo" /\ WObtain)
  /\ \A r \in Readers : /\ WF_fifoVars(part = "fifo" /\ ReaderStep(r))
                        /\ WF_fifoVars(part = "fifo" /\ RJoin(r))
                        /\ WF_fifoVars(part = "fifo" /\ RObtain(r))
  /\ WF_timerVars(part = "timer" /\ ThreadNext) /\ WF_timerVars(part = "timer" /\ ClockTick)
  /\ WF_timerVars(part = "timer" /\ AlarmResumes)
=============================================================================

--------------------------- MODULE MCXnuScheduler ---------------------------
(***************************************************************************)
(* Instances of XnuScheduler for TLC.                                      *)
(***************************************************************************)
EXTENDS XnuScheduler, TLC

OneProcess == [t \in Threads |-> 0]
NoRealtime == {}
TwoRealtimes == {<<1, 1>>, <<1, 2>>}

\* The calls that change how threads are scheduled, with the guest loop and
\* scheduler time; threads are registered but live forever.
PolicyNext ==
    \/ \E t \in Threads :
          \/ \E base \in TaskPriorities : register_thread(t, base, TRUE)
          \/ Policy(t)
          \/ make_runnable(t)
          \/ \E ticks \in TickCounts :
                \/ \E completion \in {"Continue", "Block"} : complete_slice(t, ticks, completion)
                \/ \E duration \in DepressDurations : depress(t, ticks, duration)
    \/ begin_choosing
    \/ \E proc \in Processors : choose_next(proc) \/ choose_nothing(proc)
    \/ end_choosing
    \/ Time

PolicySpec == Init /\ [][PolicyNext]_vars

\* The guest loop alone: threads run, block, yield, depress themselves and are
\* woken.  The loop is one host thread that never stops taking its next step, so
\* weak fairness of its steps is what the code gives; events need not arrive.
LoopNext ==
    \/ \E t \in Threads : \E ticks \in TickCounts :
          \/ \E completion \in {"Continue", "Yield", "Block"} :
                 complete_slice(t, ticks, completion)
          \/ \E duration \in DepressDurations : depress(t, ticks, duration)
    \/ begin_choosing
    \/ \E proc \in Processors : choose_next(proc) \/ choose_nothing(proc)
    \/ end_choosing
    \/ Time

LiveNext ==
    \/ LoopNext
    \/ \E t \in Threads : make_runnable(t)
    \/ \E t \in Threads, base \in TaskPriorities : register_thread(t, base, TRUE)

LiveSpec == Init /\ [][LiveNext]_vars /\ WF_vars(LoopNext)
=============================================================================

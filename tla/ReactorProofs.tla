---------------------------- MODULE ReactorProofs ----------------------------
(***************************************************************************)
(* Proofs about four parts of the reactor that share no state.             *)
(*                                                                         *)
(* First the sleep protocol (ReactorSleep), for any set of reactors, any   *)
(* of which sleep and any of which send to which.                          *)
(* NoLostWakeup is not inductive: an item is covered when the reactor      *)
(* blocks because it was covered when the last poll looked at its ring     *)
(* (PolledIsCovered), and before that because the barrier emptied the      *)
(* store buffers (FencedIsCovered) after the flag went up; both rest on    *)
(* the flag being down only when a signal is on its way                    *)
(* (ClearedMeansNotified).  One lemma per conjunct of IInv, one step per   *)
(* action.  The epoll backend (PollableFd) follows, then the pollers and   *)
(* the tasks that register and deregister them (Pollers), and the threads  *)
(* that are entered and left (Threads).                                    *)
(***************************************************************************)
EXTENDS ReactorSleep, PollableFd, Pollers, Threads, SequenceCounts, TLAPS

(* Every step keeps the types.                                             *)
LEMMA StepTypeOK ==
    TypeOK /\ [Next]_vars => TypeOK'
<1> SUFFICES ASSUME TypeOK, [Next]_vars PROVE TypeOK'  OBVIOUS
<1> USE DEF TypeOK, Pairs, Phases, Steps
<1>1. ASSUME NEW r \in Reactors, NEW s \in Reactors, StartPush(r, s)
      PROVE  TypeOK'
  BY <1>1 DEF StartPush, memVars, sleepVars, sigVars
<1>2. ASSUME NEW r \in Reactors, PushItem(r) PROVE TypeOK'
  BY <1>2 DEF PushItem, pushVars, sleepVars, sigVars
<1>3. ASSUME NEW r \in Reactors, PushLastItem(r) PROVE TypeOK'
  BY <1>3 DEF PushLastItem, sleepVars, sigVars
<1>4. ASSUME NEW r \in Reactors, CheckSleeping(r) PROVE TypeOK'
  BY <1>4 DEF CheckSleeping, EndPush, sleepVars, sigVars
<1>5. ASSUME NEW r \in Reactors, Wakeup(r) PROVE TypeOK'
  BY <1>5 DEF Wakeup, Flush, EndPush, sleepVars
<1>6. ASSUME NEW r \in Reactors, Deliver(r) PROVE TypeOK'
  BY <1>6 DEF Deliver, Unmasked, pushVars, memVars, sleepVars
<1>7. ASSUME NEW r \in Reactors, PollOnce(r) PROVE TypeOK'
  BY <1>7 DEF PollOnce, pushVars, sleepVars
<1>8. ASSUME NEW r \in Reactors, KeepPolling(r) PROVE TypeOK'
  BY <1>8 DEF KeepPolling, pushVars, memVars, sleepVars, sigVars
<1>9. ASSUME NEW r \in Reactors, EnterSignalPoller(r) PROVE TypeOK'
  BY <1>9 DEF EnterSignalPoller, Flush, pushVars, sleepVars
<1>10. ASSUME NEW r \in Reactors, TryLock(r) PROVE TypeOK'
  BY <1>10 DEF TryLock, pushVars, memVars, sigVars
<1>11. ASSUME NEW r \in Reactors, RaiseFlag(r) PROVE TypeOK'
  BY <1>11 DEF RaiseFlag, pushVars, sleepVars, sigVars
<1>12. ASSUME NEW r \in Reactors, NEW s \in Reactors, FenceThread(r, s)
       PROVE  TypeOK'
  BY <1>12 DEF FenceThread, Flush, pushVars, sigVars
<1>13. ASSUME NEW r \in Reactors, BarrierDone(r) PROVE TypeOK'
  BY <1>13 DEF BarrierDone, pushVars, memVars, sigVars
<1>14. ASSUME NEW r \in Reactors, NEW s \in Reactors, PollSource(r, s)
       PROVE  TypeOK'
  BY <1>14 DEF PollSource, Others, pushVars, sigVars
<1>15. ASSUME NEW r \in Reactors, PollDone(r) PROVE TypeOK'
  BY <1>15 DEF PollDone, Others, pushVars, sigVars
<1>16. ASSUME NEW r \in Reactors, LaterPollerRefuses(r) PROVE TypeOK'
  BY <1>16 DEF LaterPollerRefuses, pushVars, memVars, sleepVars, sigVars
<1>17. ASSUME NEW r \in Reactors, Sleep(r) PROVE TypeOK'
  BY <1>17 DEF Sleep, Flush, pushVars, sleepVars, sigVars
<1>18. ASSUME NEW r \in Reactors, WakeBySignal(r) PROVE TypeOK'
  BY <1>18 DEF WakeBySignal, pushVars, memVars, sleepVars
<1>19. ASSUME NEW r \in Reactors, LowerFlag(r) PROVE TypeOK'
  BY <1>19 DEF LowerFlag, pushVars, sleepVars, sigVars
<1>20. ASSUME NEW r \in Reactors, Unmask(r) PROVE TypeOK'
  BY <1>20 DEF Unmask, Flush, pushVars, sleepVars, sigVars
<1>21. ASSUME NEW r \in Reactors, WakeByEvent(r) PROVE TypeOK'
  BY <1>21 DEF WakeByEvent, pushVars, memVars, sleepVars, sigVars
<1>22. ASSUME NEW p \in Pairs, IndexReachesMemory(p) PROVE TypeOK'
  BY <1>22 DEF IndexReachesMemory, pushVars, sleepVars, sigVars
<1>23. ASSUME NEW p \in Pairs, ClearReachesMemory(p) PROVE TypeOK'
  BY <1>23 DEF ClearReachesMemory, pushVars, sleepVars, sigVars
<1>24. CASE UNCHANGED vars  BY <1>24 DEF vars, pushVars, memVars, sleepVars, sigVars
<1> QED
  BY <1>1, <1>2, <1>3, <1>4, <1>5, <1>6, <1>7, <1>8, <1>9, <1>10, <1>11, <1>12,
     <1>13, <1>14, <1>15, <1>16, <1>17, <1>18, <1>19, <1>20, <1>21, <1>22,
     <1>23, <1>24
  DEF Next, Send, Loop, EnterSleep, LeaveSleep, Memory

(* The lock is taken once and given back.                                  *)
LEMMA StepBarrierLock ==
    TypeOK /\ BarrierLock /\ [Next]_vars => BarrierLock'
<1> SUFFICES ASSUME TypeOK, BarrierLock, [Next]_vars PROVE BarrierLock'  OBVIOUS
<1> USE DEF TypeOK, BarrierLock
<1>1. ASSUME NEW r \in Reactors, NEW s \in Reactors, StartPush(r, s)
      PROVE  BarrierLock'
  BY <1>1 DEF StartPush, memVars, sleepVars, sigVars
<1>2. ASSUME NEW r \in Reactors, PushItem(r) PROVE BarrierLock'
  BY <1>2 DEF PushItem, pushVars, sleepVars, sigVars
<1>3. ASSUME NEW r \in Reactors, PushLastItem(r) PROVE BarrierLock'
  BY <1>3 DEF PushLastItem, sleepVars, sigVars
<1>4. ASSUME NEW r \in Reactors, CheckSleeping(r) PROVE BarrierLock'
  BY <1>4 DEF CheckSleeping, EndPush, sleepVars, sigVars
<1>5. ASSUME NEW r \in Reactors, Wakeup(r) PROVE BarrierLock'
  BY <1>5 DEF Wakeup, Flush, EndPush, sleepVars
<1>6. ASSUME NEW r \in Reactors, Deliver(r) PROVE BarrierLock'
  BY <1>6 DEF Deliver, Unmasked, pushVars, memVars, sleepVars
<1>7. ASSUME NEW r \in Reactors, PollOnce(r) PROVE BarrierLock'
  BY <1>7 DEF PollOnce, pushVars, sleepVars
<1>8. ASSUME NEW r \in Reactors, KeepPolling(r) PROVE BarrierLock'
  BY <1>8 DEF KeepPolling, pushVars, memVars, sleepVars, sigVars
<1>9. ASSUME NEW r \in Reactors, EnterSignalPoller(r) PROVE BarrierLock'
  BY <1>9 DEF EnterSignalPoller, Flush, pushVars, sleepVars
<1>10. ASSUME NEW r \in Reactors, TryLock(r) PROVE BarrierLock'
  BY <1>10 DEF TryLock, pushVars, memVars, sigVars
<1>11. ASSUME NEW r \in Reactors, RaiseFlag(r) PROVE BarrierLock'
  BY <1>11 DEF RaiseFlag, pushVars, sleepVars, sigVars
<1>12. ASSUME NEW r \in Reactors, NEW s \in Reactors, FenceThread(r, s)
       PROVE  BarrierLock'
  BY <1>12 DEF FenceThread, Flush, pushVars, sigVars
<1>13. ASSUME NEW r \in Reactors, BarrierDone(r) PROVE BarrierLock'
  BY <1>13 DEF BarrierDone, pushVars, memVars, sigVars
<1>14. ASSUME NEW r \in Reactors, NEW s \in Reactors, PollSource(r, s)
       PROVE  BarrierLock'
  BY <1>14 DEF PollSource, Others, pushVars, sigVars
<1>15. ASSUME NEW r \in Reactors, PollDone(r) PROVE BarrierLock'
  BY <1>15 DEF PollDone, Others, pushVars, sigVars
<1>16. ASSUME NEW r \in Reactors, LaterPollerRefuses(r) PROVE BarrierLock'
  BY <1>16 DEF LaterPollerRefuses, pushVars, memVars, sleepVars, sigVars
<1>17. ASSUME NEW r \in Reactors, Sleep(r) PROVE BarrierLock'
  BY <1>17 DEF Sleep, Flush, pushVars, sleepVars, sigVars
<1>18. ASSUME NEW r \in Reactors, WakeBySignal(r) PROVE BarrierLock'
  BY <1>18 DEF WakeBySignal, pushVars, memVars, sleepVars
<1>19. ASSUME NEW r \in Reactors, LowerFlag(r) PROVE BarrierLock'
  BY <1>19 DEF LowerFlag, pushVars, sleepVars, sigVars
<1>20. ASSUME NEW r \in Reactors, Unmask(r) PROVE BarrierLock'
  BY <1>20 DEF Unmask, Flush, pushVars, sleepVars, sigVars
<1>21. ASSUME NEW r \in Reactors, WakeByEvent(r) PROVE BarrierLock'
  BY <1>21 DEF WakeByEvent, pushVars, memVars, sleepVars, sigVars
<1>22. ASSUME NEW p \in Pairs, IndexReachesMemory(p) PROVE BarrierLock'
  BY <1>22 DEF IndexReachesMemory, pushVars, sleepVars, sigVars
<1>23. ASSUME NEW p \in Pairs, ClearReachesMemory(p) PROVE BarrierLock'
  BY <1>23 DEF ClearReachesMemory, pushVars, sleepVars, sigVars
<1>24. CASE UNCHANGED vars  BY <1>24 DEF vars, pushVars, memVars, sleepVars, sigVars
<1> QED
  BY <1>1, <1>2, <1>3, <1>4, <1>5, <1>6, <1>7, <1>8, <1>9, <1>10, <1>11, <1>12,
     <1>13, <1>14, <1>15, <1>16, <1>17, <1>18, <1>19, <1>20, <1>21, <1>22,
     <1>23, <1>24
  DEF Next, Send, Loop, EnterSleep, LeaveSleep, Memory

(* The store that takes a flag down leaves the buffer with the signal at the *)
(* latest.                                                                 *)
LEMMA StepClearingIsSignalling ==
    TypeOK /\ ClearingIsSignalling /\ [Next]_vars => ClearingIsSignalling'
<1> SUFFICES ASSUME TypeOK, ClearingIsSignalling, [Next]_vars
             PROVE  ClearingIsSignalling'
  OBVIOUS
<1> USE DEF TypeOK, ClearingIsSignalling, Pairs
<1>1. ASSUME NEW r \in Reactors, NEW s \in Reactors, StartPush(r, s)
      PROVE  ClearingIsSignalling'
  BY <1>1 DEF StartPush, memVars, sleepVars, sigVars
<1>2. ASSUME NEW r \in Reactors, PushItem(r) PROVE ClearingIsSignalling'
  BY <1>2 DEF PushItem, pushVars, sleepVars, sigVars
<1>3. ASSUME NEW r \in Reactors, PushLastItem(r) PROVE ClearingIsSignalling'
  BY <1>3 DEF PushLastItem, sleepVars, sigVars
<1>4. ASSUME NEW r \in Reactors, CheckSleeping(r) PROVE ClearingIsSignalling'
  BY <1>4, RoutesAssumption DEF CheckSleeping, EndPush, sleepVars, sigVars
<1>5. ASSUME NEW r \in Reactors, Wakeup(r) PROVE ClearingIsSignalling'
  BY <1>5 DEF Wakeup, Flush, EndPush, sleepVars
<1>6. ASSUME NEW r \in Reactors, Deliver(r) PROVE ClearingIsSignalling'
  BY <1>6 DEF Deliver, Unmasked, pushVars, memVars, sleepVars
<1>7. ASSUME NEW r \in Reactors, PollOnce(r) PROVE ClearingIsSignalling'
  BY <1>7 DEF PollOnce, pushVars, sleepVars
<1>8. ASSUME NEW r \in Reactors, KeepPolling(r) PROVE ClearingIsSignalling'
  BY <1>8 DEF KeepPolling, pushVars, memVars, sleepVars, sigVars
<1>9. ASSUME NEW r \in Reactors, EnterSignalPoller(r)
      PROVE  ClearingIsSignalling'
  BY <1>9 DEF EnterSignalPoller, Flush, pushVars, sleepVars
<1>10. ASSUME NEW r \in Reactors, TryLock(r) PROVE ClearingIsSignalling'
  BY <1>10 DEF TryLock, pushVars, memVars, sigVars
<1>11. ASSUME NEW r \in Reactors, RaiseFlag(r) PROVE ClearingIsSignalling'
  BY <1>11 DEF RaiseFlag, pushVars, sleepVars, sigVars
<1>12. ASSUME NEW r \in Reactors, NEW s \in Reactors, FenceThread(r, s)
       PROVE  ClearingIsSignalling'
  BY <1>12 DEF FenceThread, Flush, pushVars, sigVars
<1>13. ASSUME NEW r \in Reactors, BarrierDone(r) PROVE ClearingIsSignalling'
  BY <1>13 DEF BarrierDone, pushVars, memVars, sigVars
<1>14. ASSUME NEW r \in Reactors, NEW s \in Reactors, PollSource(r, s)
       PROVE  ClearingIsSignalling'
  BY <1>14 DEF PollSource, Others, pushVars, sigVars
<1>15. ASSUME NEW r \in Reactors, PollDone(r) PROVE ClearingIsSignalling'
  BY <1>15 DEF PollDone, Others, pushVars, sigVars
<1>16. ASSUME NEW r \in Reactors, LaterPollerRefuses(r)
       PROVE  ClearingIsSignalling'
  BY <1>16 DEF LaterPollerRefuses, pushVars, memVars, sleepVars, sigVars
<1>17. ASSUME NEW r \in Reactors, Sleep(r) PROVE ClearingIsSignalling'
  BY <1>17 DEF Sleep, Flush, pushVars, sleepVars, sigVars
<1>18. ASSUME NEW r \in Reactors, WakeBySignal(r) PROVE ClearingIsSignalling'
  BY <1>18 DEF WakeBySignal, pushVars, memVars, sleepVars
<1>19. ASSUME NEW r \in Reactors, LowerFlag(r) PROVE ClearingIsSignalling'
  BY <1>19 DEF LowerFlag, pushVars, sleepVars, sigVars
<1>20. ASSUME NEW r \in Reactors, Unmask(r) PROVE ClearingIsSignalling'
  BY <1>20 DEF Unmask, Flush, pushVars, sleepVars, sigVars
<1>21. ASSUME NEW r \in Reactors, WakeByEvent(r) PROVE ClearingIsSignalling'
  BY <1>21 DEF WakeByEvent, pushVars, memVars, sleepVars, sigVars
<1>22. ASSUME NEW p \in Pairs, IndexReachesMemory(p) PROVE ClearingIsSignalling'
  BY <1>22 DEF IndexReachesMemory, pushVars, sleepVars, sigVars
<1>23. ASSUME NEW p \in Pairs, ClearReachesMemory(p) PROVE ClearingIsSignalling'
  BY <1>23 DEF ClearReachesMemory, pushVars, sleepVars, sigVars
<1>24. CASE UNCHANGED vars  BY <1>24 DEF vars, pushVars, memVars, sleepVars, sigVars
<1> QED
  BY <1>1, <1>2, <1>3, <1>4, <1>5, <1>6, <1>7, <1>8, <1>9, <1>10, <1>11, <1>12,
     <1>13, <1>14, <1>15, <1>16, <1>17, <1>18, <1>19, <1>20, <1>21, <1>22,
     <1>23, <1>24
  DEF Next, Send, Loop, EnterSleep, LeaveSleep, Memory

(* Whoever takes the flag of a reactor down is about to signal it, and the *)
(* signal stays pending while the reactor has its signals blocked.         *)
LEMMA StepClearedMeansNotified ==
    TypeOK /\ ClearingIsSignalling /\ ClearedMeansNotified /\ [Next]_vars =>
    ClearedMeansNotified'
<1> SUFFICES ASSUME TypeOK, ClearingIsSignalling, ClearedMeansNotified,
                    [Next]_vars
             PROVE  ClearedMeansNotified'
  OBVIOUS
<1> USE DEF TypeOK, ClearingIsSignalling, ClearedMeansNotified, Notified,
            Flagged, Pairs
<1>1. ASSUME NEW r \in Reactors, NEW s \in Reactors, StartPush(r, s)
      PROVE  ClearedMeansNotified'
  BY <1>1 DEF StartPush, memVars, sleepVars, sigVars
<1>2. ASSUME NEW r \in Reactors, PushItem(r) PROVE ClearedMeansNotified'
  BY <1>2 DEF PushItem, pushVars, sleepVars, sigVars
<1>3. ASSUME NEW r \in Reactors, PushLastItem(r) PROVE ClearedMeansNotified'
  BY <1>3 DEF PushLastItem, sleepVars, sigVars
<1>4. ASSUME NEW r \in Reactors, CheckSleeping(r) PROVE ClearedMeansNotified'
  BY <1>4 DEF CheckSleeping, EndPush, sleepVars, sigVars
<1>5. ASSUME NEW r \in Reactors, Wakeup(r) PROVE ClearedMeansNotified'
  BY <1>5 DEF Wakeup, Flush, EndPush, sleepVars
<1>6. ASSUME NEW r \in Reactors, Deliver(r) PROVE ClearedMeansNotified'
  BY <1>6 DEF Deliver, Unmasked, pushVars, memVars, sleepVars
<1>7. ASSUME NEW r \in Reactors, PollOnce(r) PROVE ClearedMeansNotified'
  BY <1>7 DEF PollOnce, pushVars, sleepVars
<1>8. ASSUME NEW r \in Reactors, KeepPolling(r) PROVE ClearedMeansNotified'
  BY <1>8 DEF KeepPolling, pushVars, memVars, sleepVars, sigVars
<1>9. ASSUME NEW r \in Reactors, EnterSignalPoller(r)
      PROVE  ClearedMeansNotified'
  BY <1>9 DEF EnterSignalPoller, Flush, pushVars, sleepVars
<1>10. ASSUME NEW r \in Reactors, TryLock(r) PROVE ClearedMeansNotified'
  BY <1>10 DEF TryLock, pushVars, memVars, sigVars
<1>11. ASSUME NEW r \in Reactors, RaiseFlag(r) PROVE ClearedMeansNotified'
  BY <1>11 DEF RaiseFlag, pushVars, sleepVars, sigVars
<1>12. ASSUME NEW r \in Reactors, NEW s \in Reactors, FenceThread(r, s)
       PROVE  ClearedMeansNotified'
  BY <1>12 DEF FenceThread, Flush, pushVars, sigVars
<1>13. ASSUME NEW r \in Reactors, BarrierDone(r) PROVE ClearedMeansNotified'
  BY <1>13 DEF BarrierDone, pushVars, memVars, sigVars
<1>14. ASSUME NEW r \in Reactors, NEW s \in Reactors, PollSource(r, s)
       PROVE  ClearedMeansNotified'
  BY <1>14 DEF PollSource, Others, pushVars, sigVars
<1>15. ASSUME NEW r \in Reactors, PollDone(r) PROVE ClearedMeansNotified'
  BY <1>15 DEF PollDone, Others, pushVars, sigVars
<1>16. ASSUME NEW r \in Reactors, LaterPollerRefuses(r)
       PROVE  ClearedMeansNotified'
  BY <1>16 DEF LaterPollerRefuses, pushVars, memVars, sleepVars, sigVars
<1>17. ASSUME NEW r \in Reactors, Sleep(r) PROVE ClearedMeansNotified'
  BY <1>17 DEF Sleep, Flush, pushVars, sleepVars, sigVars
<1>18. ASSUME NEW r \in Reactors, WakeBySignal(r) PROVE ClearedMeansNotified'
  BY <1>18 DEF WakeBySignal, pushVars, memVars, sleepVars
<1>19. ASSUME NEW r \in Reactors, LowerFlag(r) PROVE ClearedMeansNotified'
  BY <1>19 DEF LowerFlag, pushVars, sleepVars, sigVars
<1>20. ASSUME NEW r \in Reactors, Unmask(r) PROVE ClearedMeansNotified'
  BY <1>20 DEF Unmask, Flush, pushVars, sleepVars, sigVars
<1>21. ASSUME NEW r \in Reactors, WakeByEvent(r) PROVE ClearedMeansNotified'
  BY <1>21 DEF WakeByEvent, pushVars, memVars, sleepVars, sigVars
<1>22. ASSUME NEW p \in Pairs, IndexReachesMemory(p) PROVE ClearedMeansNotified'
  BY <1>22 DEF IndexReachesMemory, pushVars, sleepVars, sigVars
<1>23. ASSUME NEW p \in Pairs, ClearReachesMemory(p) PROVE ClearedMeansNotified'
  BY <1>23 DEF ClearReachesMemory, pushVars, sleepVars, sigVars
<1>24. CASE UNCHANGED vars  BY <1>24 DEF vars, pushVars, memVars, sleepVars, sigVars
<1> QED
  BY <1>1, <1>2, <1>3, <1>4, <1>5, <1>6, <1>7, <1>8, <1>9, <1>10, <1>11, <1>12,
     <1>13, <1>14, <1>15, <1>16, <1>17, <1>18, <1>19, <1>20, <1>21, <1>22,
     <1>23, <1>24
  DEF Next, Send, Loop, EnterSleep, LeaveSleep, Memory

(* No handler runs from the poll that follows the masking to epoll_pwait(). *)
LEMMA StepMaskedUnhandled ==
    TypeOK /\ MaskedUnhandled /\ [Next]_vars => MaskedUnhandled'
<1> SUFFICES ASSUME TypeOK, MaskedUnhandled, [Next]_vars PROVE MaskedUnhandled'  OBVIOUS
<1> USE DEF TypeOK, MaskedUnhandled
<1>1. ASSUME NEW r \in Reactors, NEW s \in Reactors, StartPush(r, s)
      PROVE  MaskedUnhandled'
  BY <1>1 DEF StartPush, memVars, sleepVars, sigVars
<1>2. ASSUME NEW r \in Reactors, PushItem(r) PROVE MaskedUnhandled'
  BY <1>2 DEF PushItem, pushVars, sleepVars, sigVars
<1>3. ASSUME NEW r \in Reactors, PushLastItem(r) PROVE MaskedUnhandled'
  BY <1>3 DEF PushLastItem, sleepVars, sigVars
<1>4. ASSUME NEW r \in Reactors, CheckSleeping(r) PROVE MaskedUnhandled'
  BY <1>4 DEF CheckSleeping, EndPush, sleepVars, sigVars
<1>5. ASSUME NEW r \in Reactors, Wakeup(r) PROVE MaskedUnhandled'
  BY <1>5 DEF Wakeup, Flush, EndPush, sleepVars
<1>6. ASSUME NEW r \in Reactors, Deliver(r) PROVE MaskedUnhandled'
  BY <1>6 DEF Deliver, Unmasked, pushVars, memVars, sleepVars
<1>7. ASSUME NEW r \in Reactors, PollOnce(r) PROVE MaskedUnhandled'
  BY <1>7 DEF PollOnce, pushVars, sleepVars
<1>8. ASSUME NEW r \in Reactors, KeepPolling(r) PROVE MaskedUnhandled'
  BY <1>8 DEF KeepPolling, pushVars, memVars, sleepVars, sigVars
<1>9. ASSUME NEW r \in Reactors, EnterSignalPoller(r) PROVE MaskedUnhandled'
  BY <1>9 DEF EnterSignalPoller, Flush, pushVars, sleepVars
<1>10. ASSUME NEW r \in Reactors, TryLock(r) PROVE MaskedUnhandled'
  BY <1>10 DEF TryLock, pushVars, memVars, sigVars
<1>11. ASSUME NEW r \in Reactors, RaiseFlag(r) PROVE MaskedUnhandled'
  BY <1>11 DEF RaiseFlag, pushVars, sleepVars, sigVars
<1>12. ASSUME NEW r \in Reactors, NEW s \in Reactors, FenceThread(r, s)
       PROVE  MaskedUnhandled'
  BY <1>12 DEF FenceThread, Flush, pushVars, sigVars
<1>13. ASSUME NEW r \in Reactors, BarrierDone(r) PROVE MaskedUnhandled'
  BY <1>13 DEF BarrierDone, pushVars, memVars, sigVars
<1>14. ASSUME NEW r \in Reactors, NEW s \in Reactors, PollSource(r, s)
       PROVE  MaskedUnhandled'
  BY <1>14 DEF PollSource, Others, pushVars, sigVars
<1>15. ASSUME NEW r \in Reactors, PollDone(r) PROVE MaskedUnhandled'
  BY <1>15 DEF PollDone, Others, pushVars, sigVars
<1>16. ASSUME NEW r \in Reactors, LaterPollerRefuses(r) PROVE MaskedUnhandled'
  BY <1>16 DEF LaterPollerRefuses, pushVars, memVars, sleepVars, sigVars
<1>17. ASSUME NEW r \in Reactors, Sleep(r) PROVE MaskedUnhandled'
  BY <1>17 DEF Sleep, Flush, pushVars, sleepVars, sigVars
<1>18. ASSUME NEW r \in Reactors, WakeBySignal(r) PROVE MaskedUnhandled'
  BY <1>18 DEF WakeBySignal, pushVars, memVars, sleepVars
<1>19. ASSUME NEW r \in Reactors, LowerFlag(r) PROVE MaskedUnhandled'
  BY <1>19 DEF LowerFlag, pushVars, sleepVars, sigVars
<1>20. ASSUME NEW r \in Reactors, Unmask(r) PROVE MaskedUnhandled'
  BY <1>20 DEF Unmask, Flush, pushVars, sleepVars, sigVars
<1>21. ASSUME NEW r \in Reactors, WakeByEvent(r) PROVE MaskedUnhandled'
  BY <1>21 DEF WakeByEvent, pushVars, memVars, sleepVars, sigVars
<1>22. ASSUME NEW p \in Pairs, IndexReachesMemory(p) PROVE MaskedUnhandled'
  BY <1>22 DEF IndexReachesMemory, pushVars, sleepVars, sigVars
<1>23. ASSUME NEW p \in Pairs, ClearReachesMemory(p) PROVE MaskedUnhandled'
  BY <1>23 DEF ClearReachesMemory, pushVars, sleepVars, sigVars
<1>24. CASE UNCHANGED vars  BY <1>24 DEF vars, pushVars, memVars, sleepVars, sigVars
<1> QED
  BY <1>1, <1>2, <1>3, <1>4, <1>5, <1>6, <1>7, <1>8, <1>9, <1>10, <1>11, <1>12,
     <1>13, <1>14, <1>15, <1>16, <1>17, <1>18, <1>19, <1>20, <1>21, <1>22,
     <1>23, <1>24
  DEF Next, Send, Loop, EnterSleep, LeaveSleep, Memory

(* The bookkeeping of the barrier and of the last poll starts afresh.      *)
LEMMA StepSetsStartEmpty ==
    TypeOK /\ SetsStartEmpty /\ [Next]_vars => SetsStartEmpty'
<1> SUFFICES ASSUME TypeOK, SetsStartEmpty, [Next]_vars PROVE SetsStartEmpty'  OBVIOUS
<1> USE DEF TypeOK, SetsStartEmpty
<1>1. ASSUME NEW r \in Reactors, NEW s \in Reactors, StartPush(r, s)
      PROVE  SetsStartEmpty'
  BY <1>1 DEF StartPush, memVars, sleepVars, sigVars
<1>2. ASSUME NEW r \in Reactors, PushItem(r) PROVE SetsStartEmpty'
  BY <1>2 DEF PushItem, pushVars, sleepVars, sigVars
<1>3. ASSUME NEW r \in Reactors, PushLastItem(r) PROVE SetsStartEmpty'
  BY <1>3 DEF PushLastItem, sleepVars, sigVars
<1>4. ASSUME NEW r \in Reactors, CheckSleeping(r) PROVE SetsStartEmpty'
  BY <1>4 DEF CheckSleeping, EndPush, sleepVars, sigVars
<1>5. ASSUME NEW r \in Reactors, Wakeup(r) PROVE SetsStartEmpty'
  BY <1>5 DEF Wakeup, Flush, EndPush, sleepVars
<1>6. ASSUME NEW r \in Reactors, Deliver(r) PROVE SetsStartEmpty'
  BY <1>6 DEF Deliver, Unmasked, pushVars, memVars, sleepVars
<1>7. ASSUME NEW r \in Reactors, PollOnce(r) PROVE SetsStartEmpty'
  BY <1>7 DEF PollOnce, pushVars, sleepVars
<1>8. ASSUME NEW r \in Reactors, KeepPolling(r) PROVE SetsStartEmpty'
  BY <1>8 DEF KeepPolling, pushVars, memVars, sleepVars, sigVars
<1>9. ASSUME NEW r \in Reactors, EnterSignalPoller(r) PROVE SetsStartEmpty'
  BY <1>9 DEF EnterSignalPoller, Flush, pushVars, sleepVars
<1>10. ASSUME NEW r \in Reactors, TryLock(r) PROVE SetsStartEmpty'
  BY <1>10 DEF TryLock, pushVars, memVars, sigVars
<1>11. ASSUME NEW r \in Reactors, RaiseFlag(r) PROVE SetsStartEmpty'
  BY <1>11 DEF RaiseFlag, pushVars, sleepVars, sigVars
<1>12. ASSUME NEW r \in Reactors, NEW s \in Reactors, FenceThread(r, s)
       PROVE  SetsStartEmpty'
  BY <1>12 DEF FenceThread, Flush, pushVars, sigVars
<1>13. ASSUME NEW r \in Reactors, BarrierDone(r) PROVE SetsStartEmpty'
  BY <1>13 DEF BarrierDone, pushVars, memVars, sigVars
<1>14. ASSUME NEW r \in Reactors, NEW s \in Reactors, PollSource(r, s)
       PROVE  SetsStartEmpty'
  BY <1>14 DEF PollSource, Others, pushVars, sigVars
<1>15. ASSUME NEW r \in Reactors, PollDone(r) PROVE SetsStartEmpty'
  BY <1>15 DEF PollDone, Others, pushVars, sigVars
<1>16. ASSUME NEW r \in Reactors, LaterPollerRefuses(r) PROVE SetsStartEmpty'
  BY <1>16 DEF LaterPollerRefuses, pushVars, memVars, sleepVars, sigVars
<1>17. ASSUME NEW r \in Reactors, Sleep(r) PROVE SetsStartEmpty'
  BY <1>17 DEF Sleep, Flush, pushVars, sleepVars, sigVars
<1>18. ASSUME NEW r \in Reactors, WakeBySignal(r) PROVE SetsStartEmpty'
  BY <1>18 DEF WakeBySignal, pushVars, memVars, sleepVars
<1>19. ASSUME NEW r \in Reactors, LowerFlag(r) PROVE SetsStartEmpty'
  BY <1>19 DEF LowerFlag, pushVars, sleepVars, sigVars
<1>20. ASSUME NEW r \in Reactors, Unmask(r) PROVE SetsStartEmpty'
  BY <1>20 DEF Unmask, Flush, pushVars, sleepVars, sigVars
<1>21. ASSUME NEW r \in Reactors, WakeByEvent(r) PROVE SetsStartEmpty'
  BY <1>21 DEF WakeByEvent, pushVars, memVars, sleepVars, sigVars
<1>22. ASSUME NEW p \in Pairs, IndexReachesMemory(p) PROVE SetsStartEmpty'
  BY <1>22 DEF IndexReachesMemory, pushVars, sleepVars, sigVars
<1>23. ASSUME NEW p \in Pairs, ClearReachesMemory(p) PROVE SetsStartEmpty'
  BY <1>23 DEF ClearReachesMemory, pushVars, sleepVars, sigVars
<1>24. CASE UNCHANGED vars  BY <1>24 DEF vars, pushVars, memVars, sleepVars, sigVars
<1> QED
  BY <1>1, <1>2, <1>3, <1>4, <1>5, <1>6, <1>7, <1>8, <1>9, <1>10, <1>11, <1>12,
     <1>13, <1>14, <1>15, <1>16, <1>17, <1>18, <1>19, <1>20, <1>21, <1>22,
     <1>23, <1>24
  DEF Next, Send, Loop, EnterSleep, LeaveSleep, Memory

(* A fence empties the buffer of its thread; what the thread publishes later *)
(* it follows by reading a flag that is up, or was taken down by another   *)
(* producer that signals.                                                  *)
LEMMA StepFencedIsCovered ==
    TypeOK /\ ClearedMeansNotified /\ SetsStartEmpty /\ FencedIsCovered /\
    [Next]_vars => FencedIsCovered'
<1> SUFFICES ASSUME TypeOK, ClearedMeansNotified, SetsStartEmpty,
                    FencedIsCovered, [Next]_vars
             PROVE  FencedIsCovered'
  OBVIOUS
<1> USE DEF TypeOK, ClearedMeansNotified, SetsStartEmpty, FencedIsCovered,
            Covered, WillCheck, Notified, Flagged, Pairs
<1>1. ASSUME NEW r \in Reactors, NEW s \in Reactors, StartPush(r, s)
      PROVE  FencedIsCovered'
  BY <1>1 DEF StartPush, memVars, sleepVars, sigVars
<1>2. ASSUME NEW r \in Reactors, PushItem(r) PROVE FencedIsCovered'
  BY <1>2 DEF PushItem, pushVars, sleepVars, sigVars
<1>3. ASSUME NEW r \in Reactors, PushLastItem(r) PROVE FencedIsCovered'
  BY <1>3 DEF PushLastItem, sleepVars, sigVars
<1>4. ASSUME NEW r \in Reactors, CheckSleeping(r) PROVE FencedIsCovered'
  <2>1. CASE sleeping[dst[r]]
    BY <1>4, <2>1, SMTT(200) DEF CheckSleeping, sleepVars, sigVars
  <2>2. CASE ~sleeping[dst[r]]
    BY <1>4, <2>2, SMTT(200) DEF CheckSleeping, EndPush, sleepVars, sigVars
  <2> QED BY <2>1, <2>2
<1>5. ASSUME NEW r \in Reactors, Wakeup(r) PROVE FencedIsCovered'
  BY <1>5 DEF Wakeup, Flush, EndPush, sleepVars
<1>6. ASSUME NEW r \in Reactors, Deliver(r) PROVE FencedIsCovered'
  BY <1>6 DEF Deliver, Unmasked, pushVars, memVars, sleepVars
<1>7. ASSUME NEW r \in Reactors, PollOnce(r) PROVE FencedIsCovered'
  BY <1>7 DEF PollOnce, pushVars, sleepVars
<1>8. ASSUME NEW r \in Reactors, KeepPolling(r) PROVE FencedIsCovered'
  BY <1>8 DEF KeepPolling, pushVars, memVars, sleepVars, sigVars
<1>9. ASSUME NEW r \in Reactors, EnterSignalPoller(r) PROVE FencedIsCovered'
  BY <1>9 DEF EnterSignalPoller, Flush, pushVars, sleepVars
<1>10. ASSUME NEW r \in Reactors, TryLock(r) PROVE FencedIsCovered'
  BY <1>10 DEF TryLock, pushVars, memVars, sigVars
<1>11. ASSUME NEW r \in Reactors, RaiseFlag(r) PROVE FencedIsCovered'
  BY <1>11 DEF RaiseFlag, pushVars, sleepVars, sigVars
<1>12. ASSUME NEW r \in Reactors, NEW s \in Reactors, FenceThread(r, s)
       PROVE  FencedIsCovered'
  BY <1>12 DEF FenceThread, Flush, pushVars, sigVars
<1>13. ASSUME NEW r \in Reactors, BarrierDone(r) PROVE FencedIsCovered'
  BY <1>13 DEF BarrierDone, pushVars, memVars, sigVars
<1>14. ASSUME NEW r \in Reactors, NEW s \in Reactors, PollSource(r, s)
       PROVE  FencedIsCovered'
  BY <1>14 DEF PollSource, Others, pushVars, sigVars
<1>15. ASSUME NEW r \in Reactors, PollDone(r) PROVE FencedIsCovered'
  BY <1>15 DEF PollDone, Others, pushVars, sigVars
<1>16. ASSUME NEW r \in Reactors, LaterPollerRefuses(r) PROVE FencedIsCovered'
  BY <1>16 DEF LaterPollerRefuses, pushVars, memVars, sleepVars, sigVars
<1>17. ASSUME NEW r \in Reactors, Sleep(r) PROVE FencedIsCovered'
  BY <1>17 DEF Sleep, Flush, pushVars, sleepVars, sigVars
<1>18. ASSUME NEW r \in Reactors, WakeBySignal(r) PROVE FencedIsCovered'
  BY <1>18 DEF WakeBySignal, pushVars, memVars, sleepVars
<1>19. ASSUME NEW r \in Reactors, LowerFlag(r) PROVE FencedIsCovered'
  BY <1>19 DEF LowerFlag, pushVars, sleepVars, sigVars
<1>20. ASSUME NEW r \in Reactors, Unmask(r) PROVE FencedIsCovered'
  BY <1>20 DEF Unmask, Flush, pushVars, sleepVars, sigVars
<1>21. ASSUME NEW r \in Reactors, WakeByEvent(r) PROVE FencedIsCovered'
  BY <1>21 DEF WakeByEvent, pushVars, memVars, sleepVars, sigVars
<1>22. ASSUME NEW p \in Pairs, IndexReachesMemory(p) PROVE FencedIsCovered'
  BY <1>22 DEF IndexReachesMemory, pushVars, sleepVars, sigVars
<1>23. ASSUME NEW p \in Pairs, ClearReachesMemory(p) PROVE FencedIsCovered'
  BY <1>23 DEF ClearReachesMemory, pushVars, sleepVars, sigVars
<1>24. CASE UNCHANGED vars  BY <1>24 DEF vars, pushVars, memVars, sleepVars, sigVars
<1> QED
  BY <1>1, <1>2, <1>3, <1>4, <1>5, <1>6, <1>7, <1>8, <1>9, <1>10, <1>11, <1>12,
     <1>13, <1>14, <1>15, <1>16, <1>17, <1>18, <1>19, <1>20, <1>21, <1>22,
     <1>23, <1>24
  DEF Next, Send, Loop, EnterSleep, LeaveSleep, Memory

(* The poll empties the ring; what reaches memory later was in a buffer, where
    *)
(* FencedIsCovered speaks of it.                                           *)
LEMMA StepPolledIsCovered ==
    TypeOK /\ ClearedMeansNotified /\ SetsStartEmpty /\ FencedIsCovered /\
    PolledIsCovered /\ [Next]_vars => PolledIsCovered'
<1> SUFFICES ASSUME TypeOK, ClearedMeansNotified, SetsStartEmpty,
                    FencedIsCovered, PolledIsCovered, [Next]_vars
             PROVE  PolledIsCovered'
  OBVIOUS
<1> USE DEF TypeOK, ClearedMeansNotified, SetsStartEmpty, FencedIsCovered,
            PolledIsCovered, Covered, WillCheck, Notified, Flagged, Pairs
<1>1. ASSUME NEW r \in Reactors, NEW s \in Reactors, StartPush(r, s)
      PROVE  PolledIsCovered'
  BY <1>1, SMTT(200) DEF StartPush, memVars, sleepVars, sigVars
<1>2. ASSUME NEW r \in Reactors, PushItem(r) PROVE PolledIsCovered'
  BY <1>2 DEF PushItem, pushVars, sleepVars, sigVars
<1>3. ASSUME NEW r \in Reactors, PushLastItem(r) PROVE PolledIsCovered'
  BY <1>3 DEF PushLastItem, sleepVars, sigVars
<1>4. ASSUME NEW r \in Reactors, CheckSleeping(r) PROVE PolledIsCovered'
  <2>1. CASE sleeping[dst[r]]  BY <1>4, <2>1 DEF CheckSleeping, sleepVars, sigVars
  <2>2. CASE ~sleeping[dst[r]]
    <3>1. Flagged(dst[r]) => Notified(dst[r])  BY <2>2
    <3>2. step' = [step EXCEPT ![r] = "none"] /\ UNCHANGED <<phase, visible,
    polled, sigpending>>
          /\ dst' = [dst EXCEPT ![r] = r] /\ step[r] = "check"
      BY <1>4, <2>2 DEF CheckSleeping, EndPush, sleepVars, sigVars
    <3> QED BY <3>1, <3>2
  <2> QED BY <2>1, <2>2
<1>5. ASSUME NEW r \in Reactors, Wakeup(r) PROVE PolledIsCovered'
  BY <1>5 DEF Wakeup, Flush, EndPush, sleepVars
<1>6. ASSUME NEW r \in Reactors, Deliver(r) PROVE PolledIsCovered'
  BY <1>6 DEF Deliver, Unmasked, pushVars, memVars, sleepVars
<1>7. ASSUME NEW r \in Reactors, PollOnce(r) PROVE PolledIsCovered'
  BY <1>7 DEF PollOnce, pushVars, sleepVars
<1>8. ASSUME NEW r \in Reactors, KeepPolling(r) PROVE PolledIsCovered'
  BY <1>8 DEF KeepPolling, pushVars, memVars, sleepVars, sigVars
<1>9. ASSUME NEW r \in Reactors, EnterSignalPoller(r) PROVE PolledIsCovered'
  BY <1>9 DEF EnterSignalPoller, Flush, pushVars, sleepVars
<1>10. ASSUME NEW r \in Reactors, TryLock(r) PROVE PolledIsCovered'
  BY <1>10 DEF TryLock, pushVars, memVars, sigVars
<1>11. ASSUME NEW r \in Reactors, RaiseFlag(r) PROVE PolledIsCovered'
  BY <1>11 DEF RaiseFlag, pushVars, sleepVars, sigVars
<1>12. ASSUME NEW r \in Reactors, NEW s \in Reactors, FenceThread(r, s)
       PROVE  PolledIsCovered'
  BY <1>12 DEF FenceThread, Flush, pushVars, sigVars
<1>13. ASSUME NEW r \in Reactors, BarrierDone(r) PROVE PolledIsCovered'
  BY <1>13 DEF BarrierDone, pushVars, memVars, sigVars
<1>14. ASSUME NEW r \in Reactors, NEW s \in Reactors, PollSource(r, s)
       PROVE  PolledIsCovered'
  BY <1>14 DEF PollSource, Others, pushVars, sigVars
<1>15. ASSUME NEW r \in Reactors, PollDone(r) PROVE PolledIsCovered'
  BY <1>15, RoutesAssumption DEF PollDone, Others, pushVars, sigVars
<1>16. ASSUME NEW r \in Reactors, LaterPollerRefuses(r) PROVE PolledIsCovered'
  BY <1>16 DEF LaterPollerRefuses, pushVars, memVars, sleepVars, sigVars
<1>17. ASSUME NEW r \in Reactors, Sleep(r) PROVE PolledIsCovered'
  BY <1>17 DEF Sleep, Flush, pushVars, sleepVars, sigVars
<1>18. ASSUME NEW r \in Reactors, WakeBySignal(r) PROVE PolledIsCovered'
  BY <1>18 DEF WakeBySignal, pushVars, memVars, sleepVars
<1>19. ASSUME NEW r \in Reactors, LowerFlag(r) PROVE PolledIsCovered'
  BY <1>19 DEF LowerFlag, pushVars, sleepVars, sigVars
<1>20. ASSUME NEW r \in Reactors, Unmask(r) PROVE PolledIsCovered'
  BY <1>20 DEF Unmask, Flush, pushVars, sleepVars, sigVars
<1>21. ASSUME NEW r \in Reactors, WakeByEvent(r) PROVE PolledIsCovered'
  BY <1>21 DEF WakeByEvent, pushVars, memVars, sleepVars, sigVars
<1>22. ASSUME NEW p \in Pairs, IndexReachesMemory(p) PROVE PolledIsCovered'
  BY <1>22 DEF IndexReachesMemory, pushVars, sleepVars, sigVars
<1>23. ASSUME NEW p \in Pairs, ClearReachesMemory(p) PROVE PolledIsCovered'
  BY <1>23 DEF ClearReachesMemory, pushVars, sleepVars, sigVars
<1>24. CASE UNCHANGED vars  BY <1>24 DEF vars, pushVars, memVars, sleepVars, sigVars
<1> QED
  BY <1>1, <1>2, <1>3, <1>4, <1>5, <1>6, <1>7, <1>8, <1>9, <1>10, <1>11, <1>12,
     <1>13, <1>14, <1>15, <1>16, <1>17, <1>18, <1>19, <1>20, <1>21, <1>22,
     <1>23, <1>24
  DEF Next, Send, Loop, EnterSleep, LeaveSleep, Memory

-----------------------------------------------------------------------------
LEMMA InitInv == Init => IInv
BY DEF Init, IInv, TypeOK, BarrierLock, ClearingIsSignalling,
       ClearedMeansNotified, MaskedUnhandled, SetsStartEmpty, FencedIsCovered,
       PolledIsCovered, Flagged, Phases, Steps, Pairs

LEMMA StepInv == IInv /\ [Next]_vars => IInv'
BY StepTypeOK, StepBarrierLock, StepClearingIsSignalling,
   StepClearedMeansNotified, StepMaskedUnhandled, StepSetsStartEmpty,
   StepFencedIsCovered, StepPolledIsCovered
DEF IInv

(* The inductive invariant holds in every reachable state.                 *)
THEOREM InvHolds == Spec => []IInv
BY InitInv, StepInv, PTL DEF Spec

(* The state variables keep their types.                                   *)
THEOREM TypeCorrect == Spec => []TypeOK
<1>1. IInv => TypeOK  BY DEF IInv
<1> QED BY <1>1, InvHolds, PTL

(* No reactor blocks in epoll_pwait() while an item waits for it that      *)
(* nobody will wake it up for.                                             *)
THEOREM NoLostWakeupHolds == Spec => []NoLostWakeup
<1>1. IInv => NoLostWakeup
  BY DEF IInv, NoLostWakeup, FencedIsCovered, PolledIsCovered
<1> QED BY <1>1, InvHolds, PTL

(* A flag that is down while its owner means it to be up was taken down by *)
(* a reactor whose signal is on its way.                                   *)
THEOREM ClearedMeansNotifiedHolds == Spec => []ClearedMeansNotified
<1>1. IInv => ClearedMeansNotified  BY DEF IInv
<1> QED BY <1>1, InvHolds, PTL

(* A signal handled before the signals were blocked is not slept over.     *)
THEOREM SignalsSeenBeforeSleepHolds == Spec => []SignalsSeenBeforeSleep
<1>1. IInv => SignalsSeenBeforeSleep
  BY DEF IInv, MaskedUnhandled, SignalsSeenBeforeSleep
<1> QED BY <1>1, InvHolds, PTL

(* The barrier lock excludes, and no failed attempt to sleep keeps it.     *)
THEOREM BarrierLockHolds == Spec => []BarrierLock
<1>1. IInv => BarrierLock  BY DEF IInv
<1> QED BY <1>1, InvHolds, PTL

-----------------------------------------------------------------------------
(***************************************************************************)
(* The epoll backend for any number of descriptors: WaitersWatched is      *)
(* inductive together with what a fiber needs of its descriptor (FdTypes,  *)
(* ClosedIsBlank, UsersHaveIt) and with the fact that nobody guesses a     *)
(* listener to be ready (ListenerNotGuessed), which is why accept() finds  *)
(* a connection though it does not look whether it is told to try again.   *)
(***************************************************************************)

States == [open : BOOLEAN, requested : SUBSET Dirs, epoll : SUBSET Dirs, known : SUBSET Dirs]

Ats == {"idle", "waiting", "ready"}
Ops == {"none", "read", "recv", "write", "packet", "send", "connect", "accept"}
FiberStates == [at : Ats, op : Ops, left : Nat]

FdTypes ==
    /\ pfd \in [Fds -> States]
    /\ watched \in [Fds -> SUBSET Dirs]
    /\ units \in [Fds -> [Dirs -> Nat]]
    /\ shut \in [Fds -> SUBSET Dirs]
    /\ fiber \in [Fds -> [Dirs -> FiberStates]]
    /\ poller \in {"none", "queued", "registered"}

ClosedIsBlank == \A f \in Fds : ~pfd[f].open => pfd[f] = Closed

UsersHaveIt == \A f \in Fds, d \in Dirs : fiber[f][d].at # "idle" => pfd[f].open

ListenerNotGuessed == pfd[Listener].open /\ pfd[Listener].known = {}

(* The first conjunct of WaitersWatched, of one descriptor.                *)
Exact(f) ==
    /\ watched[f] = pfd[f].epoll
    /\ pfd[f].requested = {d \in Dirs : fiber[f][d].at = "waiting"}
    /\ pfd[f].requested \subseteq watched[f] \ pfd[f].known
    /\ watched[f] # {} => poller # "none"

AcceptFinds == fiber[Listener]["in"].at = "ready" => Ready(Listener, "in")

FdInv ==
    /\ FdTypes /\ ClosedIsBlank /\ UsersHaveIt /\ ListenerNotGuessed
    /\ \A f \in Fds : Exact(f)
    /\ AcceptFinds

(* Nothing shuts a listening socket down, so that it is ready only when it *)
(* has a connection.                                                       *)
ListenerIsUp == shut[Listener] = {}
-----------------------------------------------------------------------------
LEMMA ListenerIsNoSocket ==
    /\ Listener \in Fds /\ Sockets \subseteq Fds /\ Listener \notin Sockets
    /\ \A f \in Sockets : f # Listener
BY DescriptorsAssumption DEF Fds

LEMMA InitFdInv == FdInit => FdInv
<1> SUFFICES ASSUME FdInit PROVE FdInv  OBVIOUS
<1> USE DEF FdInit
<1>1. NewState({}) \in States /\ Closed \in States /\ Idle \in FiberStates
  BY DEF NewState, Closed, Idle, States, FiberStates, Ats, Ops
<1>2. FdTypes  BY <1>1 DEF FdTypes
<1>3. \A f \in Fds : pfd[f].requested = {} /\ pfd[f].epoll = {} /\ pfd[f].known = {}
  BY DEF NewState, Closed
<1>4. \A f \in Fds, d \in Dirs : fiber[f][d].at = "idle"  BY DEF Idle
<1>5. \A f \in Fds : Exact(f)  BY <1>3, <1>4 DEF Exact
<1>6. ClosedIsBlank  BY DEF ClosedIsBlank, NewState
<1>7. ListenerNotGuessed  BY ListenerIsNoSocket DEF ListenerNotGuessed, NewState
<1>8. UsersHaveIt /\ AcceptFinds
  BY <1>4, ListenerIsNoSocket DEF UsersHaveIt, AcceptFinds, Dirs
<1> QED BY <1>2, <1>5, <1>6, <1>7, <1>8 DEF FdInv

(* A step that concerns one descriptor.                                    *)
LEMMA OneFd ==
    ASSUME FdInv, NEW f \in Fds, FdTypes',
           \A g \in Fds \ {f} : /\ pfd'[g] = pfd[g] /\ watched'[g] = watched[g]
                                /\ fiber'[g] = fiber[g],
           poller # "none" => poller' # "none",
           Exact(f)', ~pfd'[f].open => pfd'[f] = Closed,
           \A d \in Dirs : fiber'[f][d].at # "idle" => pfd'[f].open,
           f = Listener => pfd'[f].open /\ pfd'[f].known = {},
           AcceptFinds'
    PROVE  FdInv'
<1>1. \A g \in Fds : Exact(g)'  BY DEF FdInv, Exact
<1>2. ClosedIsBlank'  BY DEF FdInv, ClosedIsBlank
<1>3. UsersHaveIt'  BY DEF FdInv, UsersHaveIt
<1>4. ListenerNotGuessed'  BY ListenerIsNoSocket DEF FdInv, ListenerNotGuessed
<1> QED BY <1>1, <1>2, <1>3, <1>4 DEF FdInv

(* The listener's connections stay while nobody takes them.                *)
LEMMA AcceptStays ==
    ASSUME FdInv, fiber'[Listener]["in"].at = "ready" => fiber[Listener]["in"].at = "ready",
           units'[Listener]["in"] \in Nat, units'[Listener]["in"] >= units[Listener]["in"],
           shut[Listener] \subseteq shut'[Listener]
    PROVE  AcceptFinds'
<1>1. units[Listener]["in"] \in Nat  BY ListenerIsNoSocket DEF FdInv, FdTypes, Dirs
<1>2. units[Listener]["in"] > 0 => units'[Listener]["in"] > 0  BY <1>1
<1>3. "in" \in shut[Listener] => "in" \in shut'[Listener]  OBVIOUS
<1> QED BY <1>2, <1>3 DEF FdInv, AcceptFinds, Ready

-----------------------------------------------------------------------------
(* A fiber that does not wait asks for an event.                           *)
LEMMA GetStep ==
    ASSUME FdInv, NEW f \in Fds, NEW d \in Dirs, NEW op \in FiberStates,
           GetEpollFuture(f, d, op), pfd[f].open, fiber[f][d].at # "waiting",
           units' \in [Fds -> [Dirs -> Nat]], UNCHANGED shut,
           units'[Listener] = units[Listener]
    PROVE  FdInv'
<1> DEFINE known == d \in pfd[f].known
           old == pfd[f].epoll
           ctl == ~known /\ d \notin old
           p == IF known THEN [pfd[f] EXCEPT !.known = @ \ {d}]
                ELSE [pfd[f] EXCEPT !.requested = @ \cup {d}, !.epoll = @ \cup {d}]
           q == [op EXCEPT !.at = IF known THEN "ready" ELSE "waiting"]
<1>1. /\ pfd' = [pfd EXCEPT ![f] = p]
      /\ watched' = [watched EXCEPT ![f] = IF ctl THEN old \cup {d} ELSE @]
      /\ poller' = (IF ctl /\ poller = "none" THEN "queued" ELSE poller)
      /\ fiber' = [fiber EXCEPT ![f][d] = q]
  BY DEF GetEpollFuture
<1>2. /\ pfd \in [Fds -> States] /\ watched \in [Fds -> SUBSET Dirs]
      /\ fiber \in [Fds -> [Dirs -> FiberStates]]
      /\ poller \in {"none", "queued", "registered"}
      /\ Exact(f)
  BY DEF FdInv, FdTypes
<1>3. /\ pfd[f] \in States /\ fiber[f] \in [Dirs -> FiberStates]  BY <1>2
<1>4. /\ p \in States /\ q \in FiberStates /\ p.open = TRUE
      /\ q.at = IF known THEN "ready" ELSE "waiting"
  BY <1>3 DEF States, FiberStates, Ats
<1>5. /\ p.requested = IF known THEN pfd[f].requested ELSE pfd[f].requested \cup {d}
      /\ p.epoll = IF known THEN old ELSE old \cup {d}
      /\ p.known = IF known THEN pfd[f].known \ {d} ELSE pfd[f].known
  BY <1>3 DEF States
<1> HIDE DEF p, q
<1>6. /\ pfd'[f] = p /\ watched'[f] = IF ctl THEN old \cup {d} ELSE watched[f]
      /\ fiber'[f] = [fiber[f] EXCEPT ![d] = q]
      /\ \A g \in Fds \ {f} : /\ pfd'[g] = pfd[g] /\ watched'[g] = watched[g]
                              /\ fiber'[g] = fiber[g]
  BY <1>1, <1>2
<1>7. /\ fiber'[f][d] = q /\ \A e \in Dirs \ {d} : fiber'[f][e] = fiber[f][e]
      /\ fiber'[f] \in [Dirs -> FiberStates]
  BY <1>3, <1>4, <1>6
<1>8. FdTypes'
  <2>1. pfd' \in [Fds -> States]  BY <1>1, <1>2, <1>4
  <2>2. watched' \in [Fds -> SUBSET Dirs]
    <3>1. old \cup {d} \in SUBSET Dirs  BY <1>3 DEF States
    <3> QED BY <1>1, <1>2, <3>1
  <2>3. fiber' \in [Fds -> [Dirs -> FiberStates]]  BY <1>1, <1>2, <1>4
  <2>4. poller' \in {"none", "queued", "registered"}  BY <1>1, <1>2
  <2>5. shut' \in [Fds -> SUBSET Dirs]  BY DEF FdInv, FdTypes
  <2> QED BY <2>1, <2>2, <2>3, <2>4, <2>5 DEF FdTypes
<1>9. Exact(f)'
  <2>0. d \in old => old \cup {d} = old  OBVIOUS
  <2>1. watched'[f] = pfd'[f].epoll  BY <1>2, <1>5, <1>6, <2>0 DEF Exact
  <2>2. pfd'[f].requested = {e \in Dirs : fiber'[f][e].at = "waiting"}
    BY <1>2, <1>4, <1>5, <1>6, <1>7 DEF Exact
  <2>3. pfd'[f].requested \subseteq watched'[f] \ pfd'[f].known
    BY <1>2, <1>5, <1>6, <2>1 DEF Exact
  <2>4. watched'[f] # {} => poller' # "none"  BY <1>1, <1>2, <1>6 DEF Exact
  <2> QED BY <2>1, <2>2, <2>3, <2>4 DEF Exact
<1>10. \A e \in Dirs : fiber'[f][e].at # "idle" => pfd'[f].open  BY <1>4, <1>6
<1>11. f = Listener => p.known = {} /\ q.at = "waiting"
  BY <1>4, <1>5 DEF FdInv, ListenerNotGuessed
<1>12. AcceptFinds'
  <2>1. fiber'[Listener]["in"].at = "ready" => fiber[Listener]["in"].at = "ready"
    BY <1>6, <1>7, <1>11, ListenerIsNoSocket DEF Dirs
  <2>2. units[Listener]["in"] \in Nat
    BY ListenerIsNoSocket DEF FdInv, FdTypes, Dirs
  <2> QED BY <2>1, <2>2, AcceptStays
<1>13. poller # "none" => poller' # "none"  BY <1>1
<1> QED BY <1>4, <1>6, <1>8, <1>9, <1>10, <1>11, <1>12, <1>13, OneFd

(* A fiber goes on, and may guess that its socket is still ready.          *)
LEMMA MovedType ==
    ASSUME FdInv, NEW f \in Fds, NEW d \in Dirs
    PROVE  /\ units[f][d] \in Nat /\ fiber[f][d] \in FiberStates /\ fiber[f][d].left \in Nat
           /\ Moved(f, d) \in Nat /\ Moved(f, d) <= units[f][d]
           /\ Moved(f, d) <= fiber[f][d].left
<1>1. units[f][d] \in Nat /\ fiber[f][d] \in FiberStates /\ fiber[f][d].left \in Nat
  BY DEF FdInv, FdTypes, FiberStates
<1> QED BY <1>1 DEF Moved

LEMMA FinishStep ==
    ASSUME FdInv, NEW f \in Sockets, NEW d \in Dirs, fiber[f][d].at = "ready",
           NEW n \in Nat, n <= units[f][d], NEW guess, Finish(f, d, n, guess)
    PROVE  FdInv'
<1> DEFINE p == [pfd[f] EXCEPT !.known = IF guess THEN @ \cup {d} ELSE @]
<1>0. f \in Fds /\ f # Listener  BY ListenerIsNoSocket
<1>1. /\ pfd' = [pfd EXCEPT ![f] = p] /\ units' = [units EXCEPT ![f][d] = @ - n]
      /\ fiber' = [fiber EXCEPT ![f][d] = Idle] /\ UNCHANGED <<watched, shut, poller>>
  BY DEF Finish, Speculate
<1>2. FdTypes /\ Exact(f) /\ pfd[f].open  BY <1>0 DEF FdInv, UsersHaveIt
<1>3. /\ pfd[f] \in States /\ fiber[f] \in [Dirs -> FiberStates] /\ units[f] \in [Dirs -> Nat]
      /\ Idle \in FiberStates /\ Idle.at = "idle"
  BY <1>0, <1>2 DEF FdTypes, Idle, FiberStates, Ats, Ops
<1>4. /\ p \in States /\ p.open = TRUE /\ p.requested = pfd[f].requested
      /\ p.epoll = pfd[f].epoll /\ p.known \subseteq pfd[f].known \cup {d}
  BY <1>3, <1>2 DEF States
<1>5. units[f][d] - n \in Nat  BY <1>3
<1> HIDE DEF p
<1>6. /\ pfd'[f] = p
      /\ fiber'[f] = [fiber[f] EXCEPT ![d] = Idle]
      /\ \A g \in Fds \ {f} : /\ pfd'[g] = pfd[g] /\ watched'[g] = watched[g]
                              /\ fiber'[g] = fiber[g] /\ units'[g] = units[g]
  BY <1>0, <1>1, <1>2 DEF FdTypes
<1>7. /\ fiber'[f][d] = Idle /\ \A e \in Dirs \ {d} : fiber'[f][e] = fiber[f][e]
      /\ fiber'[f] \in [Dirs -> FiberStates]
  BY <1>3, <1>6
<1>8. FdTypes'
  <2>1. pfd' \in [Fds -> States]  BY <1>1, <1>2, <1>4 DEF FdTypes
  <2>2. fiber' \in [Fds -> [Dirs -> FiberStates]]  BY <1>1, <1>2, <1>3 DEF FdTypes
  <2>3. units' \in [Fds -> [Dirs -> Nat]]  BY <1>1, <1>2, <1>5 DEF FdTypes
  <2> QED BY <1>1, <1>2, <2>1, <2>2, <2>3 DEF FdTypes
<1>9. Exact(f)'
  <2>1. pfd'[f].requested = {e \in Dirs : fiber'[f][e].at = "waiting"}
    BY <1>2, <1>3, <1>4, <1>6, <1>7 DEF Exact
  <2>2. d \notin pfd'[f].requested  BY <1>3, <1>7, <2>1
  <2>3. /\ watched'[f] = pfd'[f].epoll
        /\ pfd'[f].requested \subseteq watched'[f] \ pfd'[f].known
        /\ watched'[f] # {} => poller' # "none"
    BY <1>1, <1>2, <1>4, <1>6, <2>2 DEF Exact
  <2> QED BY <2>1, <2>3 DEF Exact
<1>10. \A e \in Dirs : fiber'[f][e].at # "idle" => pfd'[f].open  BY <1>4, <1>6
<1>11. AcceptFinds'
  <2>1. /\ fiber'[Listener] = fiber[Listener] /\ units'[Listener] = units[Listener]
        /\ units[Listener]["in"] \in Nat
    BY <1>0, <1>2, <1>6, ListenerIsNoSocket DEF FdTypes, Dirs
  <2> QED BY <1>1, <2>1, AcceptStays
<1> QED BY <1>0, <1>1, <1>4, <1>6, <1>8, <1>9, <1>10, <1>11, OneFd
-----------------------------------------------------------------------------
(* The actions.                                                            *)
LEMMA BeginStep ==
    ASSUME FdInv, NEW f \in Fds, NEW d \in Dirs, NEW op \in Ops, NEW n \in Nat, Begin(f, d, op, n)
    PROVE  FdInv'
<1>1. [at |-> "idle", op |-> op, left |-> n] \in FiberStates
  BY DEF FiberStates, Ats
<1>2. fiber[f][d].at # "waiting" /\ pfd[f].open  BY DEF Begin, Idle
<1>3. units' \in [Fds -> [Dirs -> Nat]] /\ UNCHANGED <<units, shut>>
  BY DEF Begin, FdInv, FdTypes
<1> QED BY <1>1, <1>2, <1>3, GetStep DEF Begin

LEMMA TryAgainStep ==
    ASSUME FdInv, NEW f \in Sockets, NEW d \in Dirs, NEW op, TryAgain(f, d, op)
    PROVE  FdInv'
<1>1. f \in Fds /\ fiber[f][d] \in FiberStates
  BY ListenerIsNoSocket DEF FdInv, FdTypes
<1>2. fiber[f][d].at # "waiting" /\ pfd[f].open
  BY <1>1 DEF TryAgain, Runs, FdInv, UsersHaveIt
<1>3. units' \in [Fds -> [Dirs -> Nat]] /\ UNCHANGED <<units, shut>>
  BY DEF TryAgain, FdInv, FdTypes
<1> QED BY <1>1, <1>2, <1>3, GetStep DEF TryAgain

LEMMA ReadStep ==
    ASSUME FdInv, NEW f \in Sockets, ReadSome(f) \/ RecvMsg(f)
    PROVE  FdInv'
<1>0. f \in Fds /\ "in" \in Dirs  BY ListenerIsNoSocket DEF Dirs
<1>1. Moved(f, "in") \in Nat /\ Moved(f, "in") <= units[f]["in"]  BY <1>0, MovedType
<1>2. CASE TryAgain(f, "in", "read") \/ TryAgain(f, "in", "recv")
  BY <1>0, <1>2, TryAgainStep
<1>3. ASSUME NEW guess, fiber[f]["in"].at = "ready", Finish(f, "in", Moved(f, "in"), guess)
      PROVE  FdInv'
  BY <1>0, <1>1, <1>3, FinishStep
<1> QED BY <1>2, <1>3 DEF ReadSome, RecvMsg, Runs

LEMMA WritePartStep ==
    ASSUME FdInv, NEW f \in Sockets, NEW op, WritePart(f, op)
    PROVE  FdInv'
<1> DEFINE n == Moved(f, "out")
<1>0. f \in Fds /\ "out" \in Dirs /\ f # Listener  BY ListenerIsNoSocket DEF Dirs
<1>1. /\ n \in Nat /\ n <= units[f]["out"] /\ n <= fiber[f]["out"].left
      /\ units[f]["out"] \in Nat /\ fiber[f]["out"] \in FiberStates
      /\ fiber[f]["out"].left \in Nat
  BY <1>0, MovedType
<1>2. CASE TryAgain(f, "out", op)  BY <1>0, <1>2, TryAgainStep
<1>3. CASE fiber[f]["out"].at = "ready" /\ Finish(f, "out", 0, FALSE)
  <2>1. 0 \in Nat /\ 0 <= units[f]["out"]  BY <1>1
  <2> QED BY <1>0, <1>3, <2>1, FinishStep
<1>4. CASE fiber[f]["out"].at = "ready" /\ Finish(f, "out", n, TRUE)
  BY <1>0, <1>1, <1>4, FinishStep
<1>5. CASE /\ fiber[f]["out"].at = "ready"
           /\ units' = [units EXCEPT ![f]["out"] = 0]
           /\ GetEpollFuture(f, "out", [fiber[f]["out"] EXCEPT !.left = @ - n])
           /\ UNCHANGED shut
  <2>1. [fiber[f]["out"] EXCEPT !.left = @ - n] \in FiberStates
    BY <1>1 DEF FiberStates
  <2>2. units' \in [Fds -> [Dirs -> Nat]]  BY <1>5 DEF FdInv, FdTypes
  <2>3. units'[Listener] = units[Listener]
    BY <1>0, <1>5, ListenerIsNoSocket DEF FdInv, FdTypes
  <2>4. fiber[f]["out"].at # "waiting" /\ pfd[f].open
    BY <1>0, <1>5 DEF FdInv, UsersHaveIt
  <2> QED BY <1>0, <1>5, <2>1, <2>2, <2>3, <2>4, GetStep
<1> QED BY <1>2, <1>3, <1>4, <1>5 DEF WritePart, Runs

LEMMA SendStep ==
    ASSUME FdInv, NEW f \in Sockets, SendMsg(f) \/ Connected(f)
    PROVE  FdInv'
<1>0. f \in Fds /\ "out" \in Dirs  BY ListenerIsNoSocket DEF Dirs
<1>1. Moved(f, "out") \in Nat /\ Moved(f, "out") <= units[f]["out"] /\ units[f]["out"] \in Nat
  BY <1>0, MovedType
<1>2. CASE TryAgain(f, "out", "send")  BY <1>0, <1>2, TryAgainStep
<1>3. CASE fiber[f]["out"].at = "ready" /\ Finish(f, "out", 0, FALSE)
  <2>1. 0 \in Nat /\ 0 <= units[f]["out"]  BY <1>1
  <2> QED BY <1>0, <1>3, <2>1, FinishStep
<1>4. CASE fiber[f]["out"].at = "ready" /\ Finish(f, "out", Moved(f, "out"), TRUE)
  BY <1>0, <1>1, <1>4, FinishStep
<1> QED BY <1>2, <1>3, <1>4 DEF SendMsg, Connected, Runs

(* abort_fd() takes the waiter away with its request.                      *)
LEMMA AbortStep ==
    ASSUME FdInv, NEW f \in Fds, NEW d \in Dirs, AbortFd(f, d)
    PROVE  FdInv'
<1> DEFINE p == [pfd[f] EXCEPT !.requested = @ \ {d}, !.epoll = @ \ {d}, !.known = @ \ {d}]
<1>1. /\ pfd' = [pfd EXCEPT ![f] = p] /\ pfd[f].open
      /\ watched' = [watched EXCEPT ![f] = IF d \in pfd[f].epoll THEN pfd'[f].epoll ELSE @]
      /\ fiber' = (IF d \in pfd[f].requested THEN [fiber EXCEPT ![f][d] = Idle] ELSE fiber)
      /\ UNCHANGED <<units, shut, poller>>
  BY DEF AbortFd
<1>2. FdTypes /\ Exact(f)  BY DEF FdInv
<1>3. /\ pfd[f] \in States /\ fiber[f] \in [Dirs -> FiberStates]
      /\ Idle \in FiberStates /\ Idle.at = "idle"
  BY <1>2 DEF FdTypes, Idle, FiberStates, Ats, Ops
<1>4. /\ p \in States /\ p.open = TRUE /\ p.requested = pfd[f].requested \ {d}
      /\ p.epoll = pfd[f].epoll \ {d} /\ p.known = pfd[f].known \ {d}
  BY <1>1, <1>3 DEF States
<1> HIDE DEF p
<1>5. /\ pfd'[f] = p
      /\ watched'[f] = IF d \in pfd[f].epoll THEN p.epoll ELSE watched[f]
      /\ \A g \in Fds \ {f} : /\ pfd'[g] = pfd[g] /\ watched'[g] = watched[g]
                              /\ fiber'[g] = fiber[g]
  BY <1>1, <1>2 DEF FdTypes
<1>6. /\ fiber'[f][d] = IF d \in pfd[f].requested THEN Idle ELSE fiber[f][d]
      /\ \A e \in Dirs \ {d} : fiber'[f][e] = fiber[f][e]
  BY <1>1, <1>2, <1>3 DEF FdTypes
<1>7. FdTypes'
  <2>1. pfd' \in [Fds -> States]  BY <1>1, <1>2, <1>4 DEF FdTypes
  <2>2. fiber' \in [Fds -> [Dirs -> FiberStates]]  BY <1>1, <1>2, <1>3 DEF FdTypes
  <2>3. watched' \in [Fds -> SUBSET Dirs]
    BY <1>1, <1>2, <1>4, <1>5 DEF FdTypes, States
  <2> QED BY <1>1, <1>2, <2>1, <2>2, <2>3 DEF FdTypes
<1>8. Exact(f)'
  <2>0. d \notin pfd[f].epoll => pfd[f].epoll \ {d} = pfd[f].epoll  OBVIOUS
  <2>1. watched'[f] = pfd'[f].epoll  BY <1>2, <1>4, <1>5, <2>0 DEF Exact
  <2>2. pfd'[f].requested = {e \in Dirs : fiber'[f][e].at = "waiting"}
    BY <1>2, <1>3, <1>4, <1>5, <1>6 DEF Exact
  <2>3. pfd'[f].requested \subseteq watched'[f] \ pfd'[f].known
    BY <1>2, <1>4, <1>5, <2>1 DEF Exact
  <2>4. watched'[f] # {} => poller' # "none"  BY <1>1, <1>2, <1>4, <1>5 DEF Exact
  <2> QED BY <2>1, <2>2, <2>3, <2>4 DEF Exact
<1>9. \A e \in Dirs : fiber'[f][e].at # "idle" => pfd'[f].open  BY <1>4, <1>5
<1>10. f = Listener => pfd'[f].open /\ pfd'[f].known = {}
  BY <1>4, <1>5 DEF FdInv, ListenerNotGuessed
<1>11. AcceptFinds'
  <2>1. fiber'[Listener]["in"].at = "ready" => fiber[Listener]["in"].at = "ready"
    BY <1>3, <1>5, <1>6, ListenerIsNoSocket DEF Dirs
  <2>2. units[Listener]["in"] \in Nat  BY <1>2, ListenerIsNoSocket DEF FdTypes, Dirs
  <2> QED BY <1>1, <2>1, <2>2, AcceptStays
<1> QED BY <1>1, <1>4, <1>5, <1>7, <1>8, <1>9, <1>10, <1>11, OneFd

(* What the kernel and the other side do, and the poller's task.           *)
LEMMA OutsideStep ==
    ASSUME FdInv, \/ \E f \in Fds, d \in Dirs : Arrives(f, d)
                  \/ \E f \in Sockets, d \in Dirs : ShutDown(f, d)
                  \/ RegisterPoller
    PROVE  FdInv'
<1>1. UNCHANGED <<pfd, watched, fiber>> /\ (poller # "none" => poller' # "none")
  BY DEF Arrives, ShutDown, RegisterPoller
<1>2. FdTypes  BY DEF FdInv
<1>3. FdTypes'
  <2>1. units' \in [Fds -> [Dirs -> Nat]]
    <3>1. CASE \E f \in Fds, d \in Dirs : Arrives(f, d)
      <4>1. PICK f \in Fds, d \in Dirs : units' = [units EXCEPT ![f][d] = @ + 1]
        BY <3>1 DEF Arrives
      <4>2. units[f] \in [Dirs -> Nat]  BY <1>2 DEF FdTypes
      <4> QED BY <1>2, <4>1, <4>2 DEF FdTypes
    <3>2. CASE UNCHANGED units  BY <1>2, <3>2 DEF FdTypes
    <3> QED BY <3>1, <3>2 DEF ShutDown, RegisterPoller
  <2>2. shut' \in [Fds -> SUBSET Dirs]
    BY <1>2 DEF FdTypes, Arrives, ShutDown, RegisterPoller
  <2>3. poller' \in {"none", "queued", "registered"}
    BY <1>2 DEF FdTypes, Arrives, ShutDown, RegisterPoller
  <2> QED BY <1>1, <1>2, <2>1, <2>2, <2>3 DEF FdTypes
<1>4. /\ units[Listener]["in"] \in Nat
      /\ units'[Listener]["in"] >= units[Listener]["in"]
      /\ shut[Listener] \subseteq shut'[Listener]
  <2>0. units[Listener] \in [Dirs -> Nat] /\ units[Listener]["in"] \in Nat
    BY <1>2, ListenerIsNoSocket DEF FdTypes, Dirs
  <2>1. CASE \E f \in Fds, d \in Dirs : Arrives(f, d)
    <3>1. PICK f \in Fds, d \in Dirs : units' = [units EXCEPT ![f][d] = @ + 1] /\ shut' = shut
      BY <2>1 DEF Arrives
    <3>2. units'[Listener] = IF f = Listener THEN [units[f] EXCEPT ![d] = @ + 1] ELSE units[Listener]
      BY <1>2, <3>1, ListenerIsNoSocket DEF FdTypes
    <3> QED BY <2>0, <3>1, <3>2 DEF Dirs
  <2>2. CASE \E f \in Sockets, d \in Dirs : ShutDown(f, d)
    <3>1. PICK f \in Sockets, d \in Dirs :
              shut' = [shut EXCEPT ![f] = @ \cup {d}] /\ units' = units
      BY <2>2 DEF ShutDown
    <3>2. shut'[Listener] = shut[Listener]
      BY <1>2, <3>1, ListenerIsNoSocket DEF FdTypes
    <3> QED BY <2>0, <3>1, <3>2
  <2>3. CASE RegisterPoller  BY <2>0, <2>3 DEF RegisterPoller
  <2> QED BY <2>1, <2>2, <2>3
<1>5. AcceptFinds'
  <2>1. units'[Listener]["in"] \in Nat
    BY <1>3, ListenerIsNoSocket DEF FdTypes, Dirs
  <2> QED BY <1>1, <1>4, <2>1, AcceptStays
<1>6. \A f \in Fds : Exact(f)'  BY <1>1 DEF FdInv, Exact
<1> QED BY <1>1, <1>3, <1>5, <1>6 DEF FdInv, ClosedIsBlank, UsersHaveIt, ListenerNotGuessed

(* wait_and_process(): who is served stops being requested and goes on,    *)
(* and what nobody wants is not watched any more.                          *)
LEMMA WaitStep ==
    ASSUME FdInv, WaitAndProcess
    PROVE  FdInv'
<1> DEFINE P(f) == [pfd[f] EXCEPT !.requested = @ \ Served(f), !.known = @ \ Served(f),
                                  !.epoll = @ \ Unwanted(f)]
           Q(f) == [d \in Dirs |->
               IF d \in Served(f) THEN [fiber[f][d] EXCEPT !.at = "ready"] ELSE fiber[f][d]]
<1>1. /\ pfd' = [f \in Fds |-> P(f)] /\ fiber' = [f \in Fds |-> Q(f)]
      /\ watched' = [f \in Fds |-> IF Unwanted(f) = {} THEN watched[f] ELSE pfd'[f].epoll]
      /\ UNCHANGED <<units, shut, poller>>
  BY DEF WaitAndProcess
<1>2. FdTypes /\ \A f \in Fds : Exact(f)  BY DEF FdInv
<1>3. ASSUME NEW f \in Fds
      PROVE  /\ pfd[f] \in States /\ P(f) \in States /\ P(f).open = pfd[f].open
             /\ P(f).requested = pfd[f].requested \ Served(f)
             /\ P(f).known = pfd[f].known \ Served(f)
             /\ P(f).epoll = pfd[f].epoll \ Unwanted(f)
             /\ Served(f) \subseteq Dirs
             /\ Served(f) \subseteq pfd[f].requested
             /\ Served(f) \subseteq watched[f]
             /\ Unwanted(f) \subseteq watched[f] \ pfd[f].requested
  <2>1. pfd[f] \in States  BY <1>2 DEF FdTypes
  <2>2. /\ Served(f) \subseteq pfd[f].requested /\ Served(f) \subseteq watched[f]
        /\ Unwanted(f) \subseteq watched[f] \ pfd[f].requested
    BY DEF Served, Unwanted, Reported
  <2>3. Served(f) \subseteq Dirs  BY <2>1, <2>2 DEF States
  <2> QED BY <2>1, <2>2, <2>3 DEF States
<1>4. ASSUME NEW f \in Fds, NEW d \in Dirs
      PROVE  /\ Q(f)[d] \in FiberStates
             /\ Q(f)[d].at = IF d \in Served(f) THEN "ready" ELSE fiber[f][d].at
  <2>1. fiber[f][d] \in FiberStates  BY <1>2 DEF FdTypes
  <2> QED BY <2>1 DEF FiberStates, Ats
<1>5. ASSUME NEW f \in Fds PROVE Q(f) \in [Dirs -> FiberStates]  BY <1>4
<1> HIDE DEF P, Q
<1>6. \A f \in Fds : pfd'[f] = P(f) /\ fiber'[f] = Q(f)  BY <1>1
<1>7. ASSUME NEW f \in Fds PROVE watched'[f] = pfd'[f].epoll
  <2>1. CASE Unwanted(f) = {}
    <3>1. pfd[f].epoll \ Unwanted(f) = pfd[f].epoll  BY <2>1
    <3> QED BY <1>1, <1>2, <1>3, <1>6, <2>1, <3>1 DEF Exact
  <2>2. CASE Unwanted(f) # {}  BY <1>1, <2>2
  <2> QED BY <2>1, <2>2
<1>8. FdTypes'
  <2>1. pfd' \in [Fds -> States]  BY <1>1, <1>3
  <2>2. fiber' \in [Fds -> [Dirs -> FiberStates]]  BY <1>1, <1>5
  <2>3. \A f \in Fds : watched'[f] \in SUBSET Dirs  BY <1>3, <1>6, <1>7 DEF States
  <2>4. watched' \in [Fds -> SUBSET Dirs]  BY <1>1, <2>3
  <2> QED BY <1>1, <1>2, <2>1, <2>2, <2>4 DEF FdTypes
<1>9. ASSUME NEW f \in Fds PROVE Exact(f)'
  <2>1. pfd'[f].requested = {e \in Dirs : fiber'[f][e].at = "waiting"}
    BY <1>2, <1>3, <1>4, <1>6 DEF Exact
  <2>2. pfd'[f].requested \subseteq watched'[f] \ pfd'[f].known
    BY <1>2, <1>3, <1>6, <1>7 DEF Exact
  <2>3. watched'[f] # {} => poller' # "none"
    BY <1>1, <1>2, <1>3, <1>6, <1>7 DEF Exact
  <2> QED BY <1>7, <2>1, <2>2, <2>3 DEF Exact
<1>10. ClosedIsBlank'
  <2>1. ASSUME NEW f \in Fds, ~pfd'[f].open PROVE pfd'[f] = Closed
    <3>1. ~pfd[f].open  BY <1>3, <1>6, <2>1
    <3>2. pfd[f] = Closed  BY <3>1 DEF FdInv, ClosedIsBlank
    <3>3. pfd[f].requested = {} /\ watched[f] = {}  BY <1>2, <3>2 DEF Exact, Closed
    <3>4. Served(f) = {} /\ Unwanted(f) = {}  BY <1>3, <3>3
    <3>5. P(f) = pfd[f]  BY <1>3, <3>4 DEF P, States
    <3> QED BY <1>6, <3>2, <3>5
  <2> QED BY <2>1 DEF ClosedIsBlank
<1>11. UsersHaveIt'
  <2>1. ASSUME NEW f \in Fds, NEW d \in Dirs, fiber'[f][d].at # "idle" PROVE pfd'[f].open
    <3>1. fiber[f][d].at # "idle" \/ d \in pfd[f].requested
      BY <1>3, <1>4, <1>6, <2>1
    <3>2. fiber[f][d].at # "idle"  BY <1>2, <3>1 DEF Exact
    <3> QED BY <1>3, <1>6, <3>2 DEF FdInv, UsersHaveIt
  <2> QED BY <2>1 DEF UsersHaveIt
<1>12. ListenerNotGuessed'
  BY <1>3, <1>6, ListenerIsNoSocket DEF FdInv, ListenerNotGuessed
<1>13. AcceptFinds'
  <2>1. "in" \in Dirs /\ Listener \in Fds  BY ListenerIsNoSocket DEF Dirs
  <2>2. "in" \in Served(Listener) => Ready(Listener, "in")  BY DEF Served, Reported
  <2>3. fiber'[Listener]["in"].at = "ready" => Ready(Listener, "in")
    BY <1>4, <1>6, <2>1, <2>2 DEF FdInv, AcceptFinds
  <2> QED BY <1>1, <2>3 DEF AcceptFinds, Ready
<1> QED BY <1>8, <1>9, <1>10, <1>11, <1>12, <1>13 DEF FdInv

(* A descriptor that is closed has no fiber and is not watched.            *)
LEMMA ClosedIsFree ==
    ASSUME FdInv, NEW f \in Fds, ~pfd[f].open
    PROVE  /\ f \in Sockets /\ watched[f] = {}
           /\ \A d \in Dirs : fiber[f][d].at = "idle"
<1>1. pfd[f] = Closed /\ f # Listener
  BY DEF FdInv, ClosedIsBlank, ListenerNotGuessed
<1> QED BY <1>1 DEF FdInv, Exact, Closed, UsersHaveIt, Fds

LEMMA ConnectStep ==
    ASSUME FdInv, Connect
    PROVE  FdInv'
<1> DEFINE p == [NewState({}) EXCEPT !.requested = {"out"}, !.epoll = {"out"}]
           q == [at |-> "waiting", op |-> "connect", left |-> 0]
           none == [d \in Dirs |-> 0]
<1>1. PICK f \in Sockets :
          /\ ~pfd[f].open
          /\ pfd' = [pfd EXCEPT ![f] = p]
          /\ watched' = [watched EXCEPT ![f] = {"out"}]
          /\ poller' = (IF poller = "none" THEN "queued" ELSE poller)
          /\ fiber' = [fiber EXCEPT ![f]["out"] = q]
          /\ units' = [units EXCEPT ![f] = none]
          /\ shut' = [shut EXCEPT ![f] = {}]
  BY DEF Connect
<1>2. f \in Fds /\ f # Listener /\ "out" \in Dirs /\ "in" \in Dirs
  BY ListenerIsNoSocket DEF Dirs
<1>3. FdTypes /\ fiber[f] \in [Dirs -> FiberStates]  BY <1>2 DEF FdInv, FdTypes
<1>4. /\ p \in States /\ p.open = TRUE /\ p.requested = {"out"} /\ p.epoll = {"out"}
      /\ p.known = {}
  BY <1>2 DEF States, NewState
<1>5. q \in FiberStates /\ q.at = "waiting" /\ none \in [Dirs -> Nat]
  BY DEF FiberStates, Ats, Ops
<1> HIDE DEF p, q, none
<1>6. /\ pfd'[f] = p /\ watched'[f] = {"out"}
      /\ fiber'[f] = [fiber[f] EXCEPT !["out"] = q]
      /\ \A g \in Fds \ {f} : /\ pfd'[g] = pfd[g] /\ watched'[g] = watched[g]
                              /\ fiber'[g] = fiber[g] /\ units'[g] = units[g]
                              /\ shut'[g] = shut[g]
  BY <1>1, <1>2, <1>3 DEF FdTypes
<1>7. fiber'[f]["out"].at = "waiting" /\ fiber'[f]["in"].at = "idle"
  BY <1>1, <1>2, <1>3, <1>5, <1>6, ClosedIsFree
<1>8. FdTypes'
  <2>1. fiber' \in [Fds -> [Dirs -> FiberStates]]
    BY <1>1, <1>2, <1>3, <1>5 DEF FdTypes
  <2>2. {"out"} \in SUBSET Dirs /\ {} \in SUBSET Dirs  BY <1>2
  <2> QED BY <1>1, <1>3, <1>4, <1>5, <2>1, <2>2 DEF FdTypes
<1>9. Exact(f)'
  <2>1. {e \in Dirs : fiber'[f][e].at = "waiting"} = {"out"}  BY <1>2, <1>7 DEF Dirs
  <2> QED BY <1>1, <1>4, <1>6, <2>1 DEF Exact
<1>10. AcceptFinds'
  <2>1. /\ fiber'[Listener] = fiber[Listener] /\ units'[Listener] = units[Listener]
        /\ shut'[Listener] = shut[Listener] /\ units[Listener]["in"] \in Nat
    BY <1>2, <1>3, <1>6, ListenerIsNoSocket DEF FdTypes
  <2> QED BY <2>1, AcceptStays
<1>11. poller # "none" => poller' # "none"  BY <1>1
<1> QED BY <1>2, <1>4, <1>6, <1>8, <1>9, <1>10, <1>11, OneFd

LEMMA CloseStep ==
    ASSUME FdInv, NEW f \in Sockets, Close(f)
    PROVE  FdInv'
<1>1. /\ pfd' = [pfd EXCEPT ![f] = Closed] /\ \A d \in Dirs : fiber[f][d] = Idle
      /\ watched' = [watched EXCEPT ![f] = IF pfd[f].epoll # {} THEN {} ELSE @]
      /\ units' = [units EXCEPT ![f] = [d \in Dirs |-> 0]]
      /\ shut' = [shut EXCEPT ![f] = {}]
      /\ UNCHANGED <<fiber, poller>>
  BY DEF Close
<1>2. f \in Fds /\ f # Listener  BY ListenerIsNoSocket
<1>3. FdTypes /\ Exact(f)  BY <1>2 DEF FdInv
<1>4. Closed \in States /\ Closed.requested = {} /\ Closed.epoll = {} /\ ~Closed.open
  BY DEF States, Closed
<1>5. /\ pfd'[f] = Closed /\ watched'[f] = {}
      /\ \A g \in Fds \ {f} : /\ pfd'[g] = pfd[g] /\ watched'[g] = watched[g]
                              /\ fiber'[g] = fiber[g] /\ units'[g] = units[g]
                              /\ shut'[g] = shut[g]
  BY <1>1, <1>2, <1>3 DEF FdTypes, Exact
<1>6. FdTypes'
  <2>1. [d \in Dirs |-> 0] \in [Dirs -> Nat] /\ {} \in SUBSET Dirs  OBVIOUS
  <2> QED BY <1>1, <1>3, <1>4, <2>1 DEF FdTypes
<1>7. \A d \in Dirs : fiber'[f][d].at = "idle"  BY <1>1 DEF Idle
<1>8. Exact(f)'  BY <1>4, <1>5, <1>7 DEF Exact
<1>9. AcceptFinds'
  <2>1. /\ fiber'[Listener] = fiber[Listener] /\ units'[Listener] = units[Listener]
        /\ shut'[Listener] = shut[Listener] /\ units[Listener]["in"] \in Nat
    BY <1>2, <1>3, <1>5, ListenerIsNoSocket DEF FdTypes, Dirs
  <2> QED BY <2>1, AcceptStays
<1> QED BY <1>1, <1>2, <1>4, <1>5, <1>6, <1>7, <1>8, <1>9, OneFd

(* accept(): the connection that made the listener ready is still there,   *)
(* and the descriptor it gets is one that nothing refers to.               *)
LEMMA AcceptStep ==
    ASSUME FdInv, ListenerIsUp, Accept
    PROVE  FdInv'
<1>1. fiber[Listener]["in"].at = "ready" /\ Ready(Listener, "in")
  BY DEF Accept, Runs, FdInv, AcceptFinds
<1>2. FdTypes /\ "in" \in Dirs /\ "out" \in Dirs /\ Listener \in Fds
  BY ListenerIsNoSocket DEF FdInv, Dirs
<1>3. /\ units[Listener] \in [Dirs -> Nat] /\ units[Listener]["in"] > 0
      /\ fiber[Listener] \in [Dirs -> FiberStates]
      /\ Idle \in FiberStates /\ Idle.at = "idle"
  BY <1>1, <1>2 DEF ListenerIsUp, Ready, FdTypes, Idle, FiberStates, Ats, Ops
<1>4. /\ fiber' = [fiber EXCEPT ![Listener]["in"] = Idle]
      /\ UNCHANGED <<watched, poller>>
  BY DEF Accept
<1>5. /\ fiber'[Listener]["in"] = Idle /\ fiber' \in [Fds -> [Dirs -> FiberStates]]
      /\ \A e \in Dirs \ {"in"} : fiber'[Listener][e] = fiber[Listener][e]
      /\ \A g \in Fds \ {Listener} : fiber'[g] = fiber[g]
  BY <1>2, <1>3, <1>4 DEF FdTypes
<1>6. AcceptFinds'  BY <1>3, <1>5 DEF AcceptFinds
<1>7. \A g \in Fds : {e \in Dirs : fiber'[g][e].at = "waiting"}
                    = {e \in Dirs : fiber[g][e].at = "waiting"}
  BY <1>1, <1>2, <1>3, <1>5
<1>8. \A g \in Fds, e \in Dirs : fiber'[g][e].at # "idle" => fiber[g][e].at # "idle"
  BY <1>3, <1>5
<1>9. CASE UNCHANGED <<pfd, units, shut>>
  <2>1. FdTypes'  BY <1>2, <1>4, <1>5, <1>9 DEF FdTypes
  <2>2. ASSUME NEW g \in Fds PROVE Exact(g)'  BY <1>4, <1>7, <1>9 DEF Exact, FdInv
  <2>3. ClosedIsBlank' /\ ListenerNotGuessed'
    BY <1>9 DEF ClosedIsBlank, ListenerNotGuessed, FdInv
  <2>4. UsersHaveIt'  BY <1>8, <1>9 DEF UsersHaveIt, FdInv
  <2> QED BY <1>6, <2>1, <2>2, <2>3, <2>4 DEF FdInv
<1>10. CASE \E f \in Sockets : ~pfd[f].open
  <2> DEFINE p == NewState({"out"})
             r == [d \in Dirs |-> IF d = "out" THEN MaxUnits ELSE 0]
             f == CHOOSE x \in Sockets : ~pfd[x].open
  <2>1. f \in Sockets /\ ~pfd[f].open  BY <1>10
  <2>2. /\ pfd' = [pfd EXCEPT ![f] = p]
        /\ units' = [units EXCEPT ![Listener]["in"] = @ - 1, ![f] = r]
        /\ shut' = [shut EXCEPT ![f] = {}]
    BY <1>1, <1>10 DEF Accept
  <2>3. /\ p \in States /\ p.open = TRUE /\ p.requested = {} /\ p.epoll = {}
    BY <1>2 DEF NewState, States
  <2>4. r \in [Dirs -> Nat]  BY DescriptorsAssumption
  <2> HIDE DEF f, p, r
  <2>5. f \in Fds /\ f # Listener  BY <2>1, ListenerIsNoSocket
  <2>6. watched[f] = {} /\ \A d \in Dirs : fiber[f][d].at = "idle"
    BY <2>1, <2>5, ClosedIsFree
  <2>7. pfd'[f] = p /\ \A g \in Fds \ {f} : pfd'[g] = pfd[g]
    BY <1>2, <2>2, <2>5 DEF FdTypes
  <2>8. FdTypes'
    <3>1. pfd' \in [Fds -> States] /\ shut' \in [Fds -> SUBSET Dirs]
      BY <1>2, <2>2, <2>3 DEF FdTypes
    <3>2. units[Listener]["in"] - 1 \in Nat  BY <1>2, <1>3
    <3>3. units' \in [Fds -> [Dirs -> Nat]]
      BY <1>2, <1>3, <2>2, <2>4, <2>5, <3>2 DEF FdTypes
    <3> QED BY <1>2, <1>4, <1>5, <3>1, <3>3 DEF FdTypes
  <2>9. ASSUME NEW g \in Fds PROVE Exact(g)'
    <3>1. CASE g = f
      <4>1. {e \in Dirs : fiber'[f][e].at = "waiting"} = {}  BY <1>7, <2>5, <2>6
      <4> QED BY <1>4, <2>3, <2>6, <2>7, <3>1, <4>1 DEF Exact
    <3>2. CASE g # f  BY <1>4, <1>7, <2>7, <3>2 DEF Exact, FdInv
    <3> QED BY <3>1, <3>2
  <2>10. ClosedIsBlank'  BY <2>3, <2>7 DEF ClosedIsBlank, FdInv
  <2>11. ListenerNotGuessed'  BY <1>2, <2>5, <2>7 DEF ListenerNotGuessed, FdInv
  <2>12. UsersHaveIt'  BY <1>8, <2>3, <2>7 DEF UsersHaveIt, FdInv
  <2> QED BY <1>6, <2>8, <2>9, <2>10, <2>11, <2>12 DEF FdInv
<1> QED BY <1>9, <1>10 DEF Accept

LEMMA OperationsStep ==
    ASSUME FdInv, NEW f \in Sockets, Operations(f)
    PROVE  FdInv'
<1>1. /\ f \in Fds /\ "in" \in Dirs /\ "out" \in Dirs
      /\ {"read", "recv", "write", "packet", "send"} \subseteq Ops
      /\ MaxUnits \in Nat /\ 1 \in Nat /\ 1 .. MaxUnits \subseteq Nat
  BY ListenerIsNoSocket, DescriptorsAssumption DEF Dirs, Ops
<1>2. ASSUME NEW n \in 1 .. MaxUnits, Begin(f, "in", "read", n) \/ Begin(f, "out", "write", n)
      PROVE  FdInv'
  <2>1. n \in Nat /\ "read" \in Ops /\ "write" \in Ops  BY <1>1
  <2> QED BY <1>1, <1>2, <2>1, BeginStep
<1>3. CASE Begin(f, "out", "packet", MaxUnits)  BY <1>1, <1>3, BeginStep
<1>4. CASE Begin(f, "in", "recv", 1) \/ Begin(f, "out", "send", 1)
  BY <1>1, <1>4, BeginStep
<1> QED BY <1>2, <1>3, <1>4 DEF Operations

(* One step for every action.                                              *)
LEMMA StepFdInv ==
    ASSUME FdInv, ListenerIsUp, [FdNext]_fdVars
    PROVE  FdInv'
<1>0. /\ Listener \in Fds /\ Sockets \subseteq Fds /\ "in" \in Dirs
      /\ "accept" \in Ops /\ 1 \in Nat
  BY ListenerIsNoSocket DEF Dirs, Ops
<1>1. CASE RunTask
  <2>1. CASE RegisterPoller  BY <2>1, OutsideStep
  <2>2. CASE Accept  BY <2>2, AcceptStep
  <2>3. ASSUME NEW f \in Sockets, ReadSome(f) \/ RecvMsg(f) PROVE FdInv'
    BY <2>3, ReadStep
  <2>4. ASSUME NEW f \in Sockets, WriteAll(f) \/ WritePacket(f) PROVE FdInv'
    BY <2>4, WritePartStep DEF WriteAll, WritePacket
  <2>5. ASSUME NEW f \in Sockets, SendMsg(f) \/ Connected(f) PROVE FdInv'
    BY <2>5, SendStep
  <2> QED BY <1>1, <2>1, <2>2, <2>3, <2>4, <2>5 DEF RunTask
<1>2. CASE WaitAndProcess  BY <1>2, WaitStep
<1>3. CASE Begin(Listener, "in", "accept", 1)  BY <1>0, <1>3, BeginStep
<1>4. CASE AbortFd(Listener, "in")  BY <1>0, <1>4, AbortStep
<1>5. CASE Arrives(Listener, "in")  BY <1>0, <1>5, OutsideStep
<1>6. CASE Connect  BY <1>6, ConnectStep
<1>7. ASSUME NEW f \in Sockets, Operations(f) \/ Close(f) PROVE FdInv'
  BY <1>7, OperationsStep, CloseStep
<1>8. ASSUME NEW f \in Sockets, NEW d \in Dirs, ShutDown(f, d) \/ AbortFd(f, d) \/ Arrives(f, d)
      PROVE  FdInv'
  <2>1. CASE AbortFd(f, d)  BY <1>0, <2>1, AbortStep
  <2>2. CASE ShutDown(f, d) \/ Arrives(f, d)  BY <1>0, <2>2, OutsideStep
  <2> QED BY <1>8, <2>1, <2>2
<1>9. CASE UNCHANGED fdVars
  <2>1. UNCHANGED <<pfd, watched, units, shut, fiber, poller>>  BY <1>9 DEF fdVars
  <2>2. FdTypes'  BY <2>1 DEF FdInv, FdTypes
  <2>3. \A f \in Fds : Exact(f)'  BY <2>1 DEF FdInv, Exact
  <2> QED BY <2>1, <2>2, <2>3
          DEF FdInv, ClosedIsBlank, UsersHaveIt, ListenerNotGuessed, AcceptFinds, Ready
<1> QED BY <1>1, <1>2, <1>3, <1>4, <1>5, <1>6, <1>7, <1>8, <1>9 DEF FdNext

LEMMA ListenerStaysUp ==
    ASSUME FdInv, ListenerIsUp, [FdNext]_fdVars
    PROVE  ListenerIsUp'
<1>1. shut \in [Fds -> SUBSET Dirs]  BY DEF FdInv, FdTypes
<1>2. ASSUME NEW f \in Sockets, NEW x, shut' = [shut EXCEPT ![f] = x] PROVE ListenerIsUp'
  BY <1>1, <1>2, ListenerIsNoSocket DEF ListenerIsUp
<1>3. CASE UNCHANGED shut  BY <1>3 DEF ListenerIsUp
<1>4. CASE RunTask
  <2>1. CASE Accept
    <3>1. CASE \E f \in Sockets : ~pfd[f].open
      <4>1. (CHOOSE f \in Sockets : ~pfd[f].open) \in Sockets  BY <3>1
      <4> QED BY <1>2, <1>3, <2>1, <4>1 DEF Accept
    <3> QED BY <1>3, <2>1, <3>1 DEF Accept
  <2>2. CASE RegisterPoller  BY <1>3, <2>2 DEF RegisterPoller
  <2>3. ASSUME NEW f \in Sockets, ReadSome(f) \/ RecvMsg(f) PROVE ListenerIsUp'
    BY <1>3, <2>3 DEF ReadSome, RecvMsg, TryAgain, Finish
  <2>4. ASSUME NEW f \in Sockets, WriteAll(f) \/ WritePacket(f) PROVE ListenerIsUp'
    BY <1>3, <2>4 DEF WriteAll, WritePacket, WritePart, TryAgain, Finish
  <2>5. ASSUME NEW f \in Sockets, SendMsg(f) \/ Connected(f) PROVE ListenerIsUp'
    BY <1>3, <2>5 DEF SendMsg, Connected, TryAgain, Finish
  <2> QED BY <1>4, <2>1, <2>2, <2>3, <2>4, <2>5 DEF RunTask
<1>5. CASE WaitAndProcess  BY <1>3, <1>5 DEF WaitAndProcess
<1>6. CASE \/ Begin(Listener, "in", "accept", 1) \/ AbortFd(Listener, "in")
           \/ Arrives(Listener, "in")
  BY <1>3, <1>6 DEF Begin, AbortFd, Arrives
<1>7. CASE Connect  BY <1>2, <1>7 DEF Connect
<1>8. ASSUME NEW f \in Sockets, Operations(f) \/ Close(f) PROVE ListenerIsUp'
  <2>1. CASE Operations(f)  BY <1>3, <2>1 DEF Operations, Begin
  <2>2. CASE Close(f)  BY <1>2, <2>2 DEF Close
  <2> QED BY <1>8, <2>1, <2>2
<1>9. ASSUME NEW f \in Sockets, NEW d \in Dirs, ShutDown(f, d) \/ AbortFd(f, d) \/ Arrives(f, d)
      PROVE  ListenerIsUp'
  <2>1. CASE ShutDown(f, d)  BY <1>2, <2>1 DEF ShutDown
  <2>2. CASE AbortFd(f, d) \/ Arrives(f, d)  BY <1>3, <2>2 DEF AbortFd, Arrives
  <2> QED BY <1>9, <2>1, <2>2
<1>10. CASE UNCHANGED fdVars  BY <1>3, <1>10 DEF fdVars
<1> QED BY <1>4, <1>5, <1>6, <1>7, <1>8, <1>9, <1>10 DEF FdNext

(* The descriptors keep FdInv, and the listener stays up.                   *)
THEOREM FdInvHolds == FdSpec => [](FdInv /\ ListenerIsUp)
<1>1. FdInit => ListenerIsUp  BY ListenerIsNoSocket DEF FdInit, ListenerIsUp
<1> QED BY <1>1, InitFdInv, StepFdInv, ListenerStaysUp, PTL DEF FdSpec

(* For any number of connections, any bound on their units and on the      *)
(* backlog, and through every order of operations, reports of epoll,       *)
(* guesses, aborts, shutdowns and closings: the kernel watches exactly     *)
(* what events_epoll says, every fiber that waits is requested and watched *)
(* with the poller started, and accept() finds a connection                *)
(* (future_all12.cc:1360 to 1456).                                         *)
THEOREM WaitersWatchedHolds == FdSpec => []WaitersWatched
<1>1. FdInv => WaitersWatched  BY DEF FdInv, Exact, AcceptFinds, WaitersWatched
<1> QED BY <1>1, FdInvHolds, PTL

-----------------------------------------------------------------------------
(* The pollers.  PollersExact is not inductive: that each task knows where *)
(* its poller is, and a dummy is in the list until its task runs, needs    *)
(* the state of each variable, each poll function and each task together.  *)
(* A task is ahead of another in the queue (Ahead), or just in it (Has);   *)
(* no two are for the same poll function and purpose (Same).               *)
Tasks == [do : {"register", "deregister"}, fn : Nat, of : SUBSET Slots]

PollerTypes ==
    /\ slot \in [Slots -> [fn : Nat, task : Nat] \union {Nothing}]
    /\ fns \in Seq({"alive", "dummy", "gone"})
    /\ pollers \in Seq(Nat) /\ jobs \in Seq(Tasks)
    /\ polling \in 0 .. Len(pollers)

Same(x, y) == x.do = y.do /\ x.fn = y.fn

ListSound ==
    /\ \A f : ~Ahead(pollers, f, f)
    /\ \A f : Has(pollers, f) => f \in 1 .. Len(fns)

(* A live poller is in one variable, and in the list when it has no task.  *)
SlotSound(p) ==
    LET f == slot[p].fn
    IN  slot[p] # Nothing /\ f # 0 =>
          /\ f \in 1 .. Len(fns) /\ fns[f] = "alive"
          /\ \A q \in Slots : slot[q] # Nothing /\ slot[q].fn = f => q = p
          /\ slot[p].task # 0 => Has(jobs, Registration(f, {p}))
          /\ Has(pollers, f) <=> slot[p].task = 0

FnSound(f) ==
    /\ fns[f] = "alive" => \E p \in Slots : slot[p] # Nothing /\ slot[p].fn = f
    /\ fns[f] = "dummy" => Has(pollers, f) /\ Has(jobs, Deregistration(f))
    /\ fns[f] = "gone" => ~Has(pollers, f)

JobSound(x) ==
    /\ x.fn \in 1 .. Len(fns)
    /\ x.do = "register" =>
          \/ x.of = {} /\ fns[x.fn] = "gone"
          \/ \E p \in Slots : /\ x.of = {p} /\ slot[p] # Nothing
                              /\ slot[p].fn = x.fn /\ slot[p].task # 0
    /\ x.do = "deregister" => x.of = {} /\ fns[x.fn] = "dummy"

JobsSound ==
    /\ \A x, y : Ahead(jobs, x, y) => ~Same(x, y)
    /\ \A x : Has(jobs, x) => JobSound(x)

PollersSound ==
    /\ PollerTypes /\ ListSound /\ JobsSound
    /\ \A p \in Slots : SlotSound(p)
    /\ \A f \in 1 .. Len(fns) : FnSound(f)

-----------------------------------------------------------------------------
LEMMA NothingIsNoPoller == ASSUME NEW a, NEW b PROVE [fn |-> a, task |-> b] # Nothing
<1>1. DOMAIN [fn |-> a, task |-> b] = {"fn", "task"} /\ DOMAIN Nothing = {"nothing"}
  BY DEF Nothing
<1> QED BY <1>1

LEMMA TaskFields ==
    ASSUME NEW f \in Nat, NEW so \in SUBSET Slots
    PROVE  /\ Registration(f, so) \in Tasks /\ Deregistration(f) \in Tasks
           /\ Registration(f, so).do = "register" /\ Registration(f, so).fn = f
           /\ Registration(f, so).of = so
           /\ Deregistration(f).do = "deregister" /\ Deregistration(f).fn = f
           /\ Deregistration(f).of = {}
BY DEF Registration, Deregistration, Tasks

LEMMA TaskIs ==
    ASSUME NEW x \in Tasks
    PROVE  /\ x.do = "register" => x = Registration(x.fn, x.of)
           /\ x.do = "deregister" /\ x.of = {} => x = Deregistration(x.fn)
           /\ x.fn \in Nat /\ x.of \in SUBSET Slots
BY DEF Registration, Deregistration, Tasks

LEMMA InitPollers == PollerInit => PollersSound
<1> SUFFICES ASSUME PollerInit PROVE PollersSound  OBVIOUS
<1>1. slot \in [Slots -> {Nothing}] /\ pollers = <<>> /\ fns = <<>> /\ jobs = <<>> /\ polling = 0
  BY DEF PollerInit
<1>2. PollerTypes  BY <1>1 DEF PollerTypes
<1>3. ListSound /\ JobsSound  BY <1>1, HasNone DEF ListSound, JobsSound
<1>4. \A p \in Slots : SlotSound(p)  BY <1>1 DEF SlotSound
<1>5. \A f \in 1 .. Len(fns) : FnSound(f)  BY <1>1
<1> QED BY <1>2, <1>3, <1>4, <1>5 DEF PollersSound

(* poller() and do_register()                                              *)
LEMMA MakeStep ==
    ASSUME PollersSound, NEW p \in Slots, MakePoller(p) PROVE PollersSound'
<1>f. PICK f : f = Len(fns) + 1  OBVIOUS
<1>7. PICK job : job = Registration(f, {p})  OBVIOUS
<1>1. /\ PollerTypes /\ ListSound /\ JobsSound
      /\ \A q \in Slots : SlotSound(q)
      /\ \A g \in 1 .. Len(fns) : FnSound(g)
  BY DEF PollersSound
<1>2. /\ slot[p] = Nothing /\ fns' = Append(fns, "alive")
      /\ slot' = [slot EXCEPT ![p] = [fn |-> f, task |-> f]]
      /\ jobs' = Append(jobs, job) /\ pollers' = pollers /\ polling' = polling
  BY <1>f, <1>7 DEF MakePoller
<1>3. /\ Len(fns) \in Nat /\ f \in Nat /\ f # 0 /\ f \notin 1 .. Len(fns) /\ Len(fns') = f
      /\ 1 .. Len(fns) \subseteq 1 .. f /\ f \in 1 .. f /\ \A g \in 1 .. f : g # f => g \in 1 .. Len(fns)
      /\ fns'[f] = "alive" /\ \A g \in 1 .. Len(fns) : fns'[g] = fns[g]
      /\ fns' \in Seq({"alive", "dummy", "gone"})
  BY <1>f, <1>1, <1>2 DEF PollerTypes
<1>4. job \in Tasks /\ job.do = "register" /\ job.fn = f /\ job.of = {p}
  BY <1>3, <1>7, TaskFields
<1>5. /\ slot'[p] # Nothing /\ slot'[p].fn = f /\ slot'[p].task = f
      /\ \A q \in Slots : q # p => slot'[q] = slot[q]
      /\ slot' \in [Slots -> [fn : Nat, task : Nat] \union {Nothing}]
  <2>1. slot'[p] = [fn |-> f, task |-> f] /\ [fn |-> f, task |-> f] \in [fn : Nat, task : Nat]
    BY <1>1, <1>2, <1>3 DEF PollerTypes
  <2>2. slot'[p] # Nothing /\ slot'[p].fn = f /\ slot'[p].task = f
    BY <2>1, NothingIsNoPoller
  <2> QED BY <1>1, <1>2, <2>1, <2>2 DEF PollerTypes
<1>6. \A q \in Slots : slot[q] # Nothing => q # p /\ slot[q].fn # f
  BY <1>1, <1>2, <1>3 DEF SlotSound
<1>8. PollerTypes'  BY <1>1, <1>2, <1>3, <1>4, <1>5 DEF PollerTypes
<1>9. \A x, y : /\ Has(jobs', x) <=> Has(jobs, x) \/ x = job
                /\ Ahead(jobs', x, y) <=> Ahead(jobs, x, y) \/ (Has(jobs, x) /\ y = job)
  <2>1. jobs \in Seq(Tasks)  BY <1>1 DEF PollerTypes
  <2> QED BY ONLY <1>2, <1>4, <2>1, HasAppend
<1>10. ~Has(pollers, f) /\ \A x : Has(jobs, x) => x.fn # f
  BY <1>1, <1>3 DEF ListSound, JobsSound, JobSound
<1>11. ListSound'  BY <1>1, <1>2, <1>3 DEF ListSound
<1>12. JobsSound'
  <2>1. ASSUME NEW x, NEW y, Ahead(jobs', x, y) PROVE ~Same(x, y)
    BY <1>1, <1>4, <1>9, <1>10, <2>1 DEF JobsSound, Same
  <2>2. ASSUME NEW x, Has(jobs, x) PROVE JobSound(x)'
    <3>1. JobSound(x)  BY <1>1, <2>2 DEF JobsSound
    <3>2. \A q \in Slots : slot[q] # Nothing => slot'[q] = slot[q]
      BY ONLY <1>5, <1>6
    <3> QED BY ONLY <1>3, <3>1, <3>2 DEF JobSound
  <2>3. JobSound(job)'  BY ONLY <1>3, <1>4, <1>5, p \in Slots DEF JobSound
  <2> QED BY <1>9, <2>1, <2>2, <2>3 DEF JobsSound
<1>13. ASSUME NEW q \in Slots PROVE SlotSound(q)'
  <2>1. CASE q = p  BY <1>2, <1>3, <1>5, <1>6, <1>7, <1>9, <1>10, <2>1 DEF SlotSound
  <2>2. CASE q # p
    <3>1. SlotSound(q) /\ slot'[q] = slot[q]  BY <1>1, <1>5, <2>2
    <3> QED BY ONLY <1>2, <1>3, <1>5, <1>6, <1>9, <2>2, <3>1, q \in Slots DEF SlotSound
  <2> QED BY <2>1, <2>2
<1>14. ASSUME NEW g \in 1 .. Len(fns') PROVE FnSound(g)'
  <2>1. CASE g = f  BY <1>3, <1>5, <2>1 DEF FnSound
  <2>2. CASE g # f
    <3>1. FnSound(g) /\ fns'[g] = fns[g]  BY <1>1, <1>3, <2>2
    <3> QED BY ONLY <1>2, <1>5, <1>6, <1>9, <3>1 DEF FnSound
  <2> QED BY <2>1, <2>2
<1> QED BY <1>8, <1>11, <1>12, <1>13, <1>14 DEF PollersSound
(* Telling the task of f where the poller is now.                          *)
LEMMA Changed ==
    ASSUME PollerTypes, NEW f \in Nat, NEW so \in SUBSET Slots, NEW t, t = ChangeTask(f, so)
    PROVE  /\ t \in Seq(Tasks)
           /\ \A x : Has(t, x) <=>
                 \/ Has(jobs, x) /\ ~(x.do = "register" /\ x.fn = f)
                 \/ x = Registration(f, so) /\ \E y : Has(jobs, y) /\ y.do = "register" /\ y.fn = f
           /\ \A x, y : Ahead(t, x, y) => \E v, w : Ahead(jobs, v, w) /\ Same(v, x) /\ Same(w, y)
<1>1. jobs \in Seq(Tasks) /\ Len(jobs) \in Nat /\ DOMAIN jobs = 1 .. Len(jobs)
  BY DEF PollerTypes
<1>2. /\ Registration(f, so) \in Tasks /\ Registration(f, so).do = "register"
      /\ Registration(f, so).fn = f
  BY TaskFields
<1>3. /\ t = [i \in 1 .. Len(jobs) |->
                IF jobs[i].do = "register" /\ jobs[i].fn = f THEN Registration(f, so) ELSE jobs[i]]
  BY <1>1 DEF ChangeTask
<1>4. t \in Seq(Tasks) /\ Len(t) = Len(jobs)
      /\ \A i \in 1 .. Len(jobs) :
            t[i] = IF jobs[i].do = "register" /\ jobs[i].fn = f THEN Registration(f, so) ELSE jobs[i]
  <2>1. \A i \in 1 .. Len(jobs) : jobs[i] \in Tasks  BY <1>1
  <2>2. t \in [1 .. Len(jobs) -> Tasks]  BY <1>2, <1>3, <2>1
  <2> QED BY <1>1, <1>3, <2>2
<1>5. \A i \in 1 .. Len(jobs) : Same(jobs[i], t[i])  BY <1>2, <1>4 DEF Same
<1>6. \A x, y : Ahead(t, x, y) => \E v, w : Ahead(jobs, v, w) /\ Same(v, x) /\ Same(w, y)
  BY <1>4, <1>5 DEF Ahead
<1>7. ASSUME NEW x, Has(t, x)
      PROVE  \/ Has(jobs, x) /\ ~(x.do = "register" /\ x.fn = f)
             \/ x = Registration(f, so) /\ \E y : Has(jobs, y) /\ y.do = "register" /\ y.fn = f
  BY <1>4, <1>7 DEF Has
<1>8. ASSUME NEW x, Has(jobs, x), ~(x.do = "register" /\ x.fn = f) PROVE Has(t, x)
  BY <1>4, <1>8 DEF Has
<1>9. ASSUME NEW y, Has(jobs, y), y.do = "register", y.fn = f PROVE Has(t, Registration(f, so))
  BY <1>4, <1>9 DEF Has
<1> QED BY <1>4, <1>6, <1>7, <1>8, <1>9

(* poller(poller&&)                                                        *)
LEMMA MoveStep ==
    ASSUME PollersSound, NEW p \in Slots, NEW q \in Slots, MovePoller(p, q) PROVE PollersSound'
<1>f. PICK f : f = slot[p].fn  OBVIOUS
<1>k. PICK k : k = slot[p].task  OBVIOUS
<1>1. /\ PollerTypes /\ ListSound /\ JobsSound
      /\ \A r \in Slots : SlotSound(r)
      /\ \A g \in 1 .. Len(fns) : FnSound(g)
  BY DEF PollersSound
<1>2. /\ slot[p] # Nothing /\ slot[q] = Nothing /\ p # q /\ fns' = fns
      /\ slot' = [slot EXCEPT ![q] = slot[p], ![p].fn = 0]
      /\ jobs' = IF f # 0 /\ k # 0 THEN ChangeTask(f, {q}) ELSE jobs
      /\ pollers' = pollers /\ polling' = polling
  BY <1>f, <1>k DEF MovePoller
<1>3. f \in Nat /\ k \in Nat /\ slot[p] \in [fn : Nat, task : Nat]
  BY <1>f, <1>k, <1>1, <1>2 DEF PollerTypes
<1>4. /\ slot'[q] # Nothing /\ slot'[q].fn = f /\ slot'[q].task = k
      /\ slot'[p] # Nothing /\ slot'[p].fn = 0
      /\ \A r \in Slots : r # p /\ r # q => slot'[r] = slot[r]
      /\ slot' \in [Slots -> [fn : Nat, task : Nat] \union {Nothing}]
  <2>1. slot'[q] = slot[p] /\ slot'[p] = [slot[p] EXCEPT !.fn = 0]
    BY <1>1, <1>2 DEF PollerTypes
  <2>2. slot'[p] = [fn |-> 0, task |-> k] /\ slot'[p] \in [fn : Nat, task : Nat]
    BY <1>k, <1>3, <2>1
  <2>3. slot'[p] # Nothing /\ slot'[p].fn = 0  BY ONLY <2>2, NothingIsNoPoller
  <2>4. \A r \in Slots : r # p /\ r # q => slot'[r] = slot[r]
    BY <1>1, <1>2 DEF PollerTypes
  <2>5. slot' \in [Slots -> [fn : Nat, task : Nat] \union {Nothing}]
    BY <1>1, <1>2, <1>3, <2>1, <2>2, <2>4 DEF PollerTypes
  <2> QED BY <1>f, <1>k, <1>2, <2>1, <2>3, <2>4, <2>5
<1>5. /\ jobs' \in Seq(Tasks)
      /\ \A x : Has(jobs', x) <=>
            \/ Has(jobs, x) /\ ~(f # 0 /\ k # 0 /\ x.do = "register" /\ x.fn = f)
            \/ /\ f # 0 /\ k # 0 /\ x = Registration(f, {q})
               /\ \E y : Has(jobs, y) /\ y.do = "register" /\ y.fn = f
      /\ \A x, y : Ahead(jobs', x, y) => \E v, w : Ahead(jobs, v, w) /\ Same(v, x) /\ Same(w, y)
  <2>1. CASE f # 0 /\ k # 0  BY <1>1, <1>2, <1>3, <2>1, Changed
  <2>2. CASE ~(f # 0 /\ k # 0)  BY <1>1, <1>2, <2>2 DEF PollerTypes, Same
  <2> QED BY <2>1, <2>2
<1>6. Registration(f, {q}).do = "register" /\ Registration(f, {q}).fn = f /\ Registration(f, {q}).of = {q}
  BY <1>3, TaskFields
<1>7. PollerTypes' /\ ListSound'
  BY <1>1, <1>2, <1>4, <1>5 DEF PollerTypes, ListSound
<1>8. /\ f # 0 => f \in 1 .. Len(fns) /\ fns[f] = "alive"
      /\ f # 0 => \A r \in Slots : slot[r] # Nothing /\ slot[r].fn = f => r = p
      /\ f # 0 /\ k # 0 => Has(jobs, Registration(f, {p}))
      /\ f # 0 => (Has(pollers, f) <=> k = 0)
  <2>1. SlotSound(p)  BY <1>1
  <2> QED BY ONLY <1>f, <1>k, <1>2, <2>1, p \in Slots DEF SlotSound
<1>9. JobsSound'
  <2>1. ASSUME NEW x, NEW y, Ahead(jobs', x, y) PROVE ~Same(x, y)
    BY <1>1, <1>5, <2>1 DEF JobsSound, Same
  <2>2. ASSUME NEW x, Has(jobs, x), ~(f # 0 /\ k # 0 /\ x.do = "register" /\ x.fn = f) PROVE JobSound(x)'
    <3>1. JobSound(x)  BY <1>1, <2>2 DEF JobsSound
    <3>2. x.fn \in 1 .. Len(fns) /\ x.fn # 0
      BY <1>1, <3>1 DEF JobSound, PollerTypes
    <3>3. \A r \in Slots : slot[r] # Nothing /\ slot[r].fn = x.fn /\ slot[r].task # 0 /\ x.do = "register"
             => slot'[r] = slot[r]
      BY ONLY <1>f, <1>k, <1>2, <1>4, <2>2, <3>2
    <3> QED BY ONLY <1>2, <3>1, <3>3 DEF JobSound
  <2>3. ASSUME f # 0, k # 0, NEW x, x = Registration(f, {q}) PROVE JobSound(x)'
    BY ONLY <1>2, <1>4, <1>6, <1>8, <2>3, q \in Slots DEF JobSound
  <2> QED BY <1>5, <2>1, <2>2, <2>3 DEF JobsSound
<1>10. ASSUME NEW r \in Slots PROVE SlotSound(r)'
  <2>1. CASE r = p  BY <1>4, <2>1 DEF SlotSound
  <2>2. CASE r = q
    <3>1. f # 0 /\ k # 0 => Has(jobs', Registration(f, {q}))
      <4>1. Registration(f, {p}).do = "register" /\ Registration(f, {p}).fn = f
        BY <1>3, TaskFields
      <4> QED BY ONLY <1>5, <1>8, <4>1
    <3>2. f # 0 => \A s \in Slots : slot'[s] # Nothing /\ slot'[s].fn = f => s = q
      BY ONLY <1>4, <1>8
    <3> QED BY ONLY <1>2, <1>4, <1>8, <2>2, <3>1, <3>2 DEF SlotSound
  <2>3. CASE r # p /\ r # q
    <3>1. SlotSound(r) /\ slot'[r] = slot[r]  BY <1>1, <1>4, <2>3
    <3>2. slot[r] # Nothing /\ slot[r].fn # 0 => slot[r].fn # f  BY <1>8, <2>3
    <3>3. \A s \in Slots : slot'[s] # Nothing /\ slot'[s].fn = slot[r].fn /\ slot[r] # Nothing /\ slot[r].fn # 0
             => s # p /\ s # q /\ slot[s] = slot'[s]
      BY ONLY <1>4, <3>2
    <3>4. \A g : g \in Nat /\ g # f /\ Has(jobs, Registration(g, {r})) => Has(jobs', Registration(g, {r}))
      BY <1>5, TaskFields
    <3>5. slot[r] # Nothing => slot[r].fn \in Nat  BY <1>1 DEF PollerTypes
    <3> QED BY ONLY <1>2, <3>1, <3>2, <3>3, <3>4, <3>5 DEF SlotSound
  <2> QED BY <2>1, <2>2, <2>3
<1>11. ASSUME NEW g \in 1 .. Len(fns') PROVE FnSound(g)'
  <2>1. FnSound(g) /\ g \in Nat /\ g # 0  BY <1>1, <1>2 DEF PollerTypes
  <2>2. Has(jobs, Deregistration(g)) => Has(jobs', Deregistration(g))
    BY <1>5, <2>1, TaskFields
  <2>3. ASSUME NEW r \in Slots, slot[r] # Nothing, slot[r].fn = g
        PROVE  \E s \in Slots : slot'[s] # Nothing /\ slot'[s].fn = g
    BY <1>f, <1>2, <1>4, <2>3
  <2> QED BY ONLY <1>2, <2>1, <2>2, <2>3 DEF FnSound
<1> QED BY <1>7, <1>9, <1>10, <1>11 DEF PollersSound
(* A dummy takes the place of a poller in the list.                        *)
LEMMA Replaced ==
    ASSUME PollerTypes, ListSound, NEW f, NEW d \in Nat, ~Has(pollers, d),
           NEW t, t = [i \in DOMAIN pollers |-> IF pollers[i] = f THEN d ELSE pollers[i]]
    PROVE  /\ t \in Seq(Nat) /\ Len(t) = Len(pollers)
           /\ \A g : ~Ahead(t, g, g)
           /\ \A g : Has(t, g) <=> (Has(pollers, g) /\ g # f) \/ (g = d /\ Has(pollers, f))
<1>1. /\ pollers \in Seq(Nat) /\ Len(pollers) \in Nat /\ DOMAIN pollers = 1 .. Len(pollers)
      /\ \A i \in 1 .. Len(pollers) : pollers[i] \in Nat /\ pollers[i] # d
  BY DEF PollerTypes, Has
<1>2. t \in [1 .. Len(pollers) -> Nat]  BY <1>1
<1>3. /\ t \in Seq(Nat) /\ Len(t) = Len(pollers)
      /\ \A i \in 1 .. Len(pollers) : t[i] = IF pollers[i] = f THEN d ELSE pollers[i]
  BY <1>1, <1>2
<1>4. \A i, j \in 1 .. Len(pollers) : i < j => pollers[i] # pollers[j]
  BY DEF ListSound, Ahead
<1>5. \A i, j \in 1 .. Len(pollers) : i < j => t[i] # t[j]  BY ONLY <1>1, <1>3, <1>4
<1>6. \A g : ~Ahead(t, g, g)
  <2> SUFFICES ASSUME NEW g, NEW i \in 1 .. Len(t), NEW j \in 1 .. Len(t), i < j, t[i] = g, t[j] = g
               PROVE  FALSE
    BY DEF Ahead
  <2>1. i \in 1 .. Len(pollers) /\ j \in 1 .. Len(pollers)  BY <1>3
  <2> QED BY <1>5, <2>1
<1>7. \A g : Has(t, g) => (Has(pollers, g) /\ g # f) \/ (g = d /\ Has(pollers, f))
  BY <1>1, <1>3 DEF Has
<1>8. ASSUME NEW g, Has(pollers, g), g # f PROVE Has(t, g)  BY <1>3, <1>8 DEF Has
<1>9. ASSUME Has(pollers, f) PROVE Has(t, d)  BY <1>3, <1>9 DEF Has
<1> QED BY <1>3, <1>6, <1>7, <1>8, <1>9

(* ~poller() of one that was moved from                                    *)
LEMMA DestroyEmpty ==
    ASSUME PollersSound, NEW p \in Slots, DestroyPoller(p), slot[p].fn = 0 PROVE PollersSound'
<1>1. /\ PollerTypes /\ ListSound /\ JobsSound
      /\ \A r \in Slots : SlotSound(r)
      /\ \A g \in 1 .. Len(fns) : FnSound(g)
  BY DEF PollersSound
<1>2. /\ slot[p] # Nothing /\ fns' = fns /\ slot' = [slot EXCEPT ![p] = Nothing]
      /\ jobs' = jobs /\ pollers' = pollers /\ polling' = polling
  BY DEF DestroyPoller
<1>3. /\ slot'[p] = Nothing /\ \A r \in Slots : r # p => slot'[r] = slot[r]
      /\ slot' \in [Slots -> [fn : Nat, task : Nat] \union {Nothing}]
  BY <1>1, <1>2 DEF PollerTypes
<1>4. PollerTypes' /\ ListSound'  BY <1>1, <1>2, <1>3 DEF PollerTypes, ListSound
<1>5. JobsSound'
  <2>1. ASSUME NEW x, Has(jobs, x) PROVE JobSound(x)'
    <3>1. JobSound(x)  BY <1>1, <2>1 DEF JobsSound
    <3>2. x.fn # 0  BY <1>1, <3>1 DEF JobSound, PollerTypes
    <3> QED BY ONLY <1>2, <1>3, <3>1, <3>2, slot[p].fn = 0 DEF JobSound
  <2> QED BY <1>1, <1>2, <2>1 DEF JobsSound
<1>6. ASSUME NEW r \in Slots PROVE SlotSound(r)'
  <2>1. SlotSound(r)  BY <1>1
  <2> QED BY ONLY <1>2, <1>3, <2>1, r \in Slots DEF SlotSound
<1>7. ASSUME NEW g \in 1 .. Len(fns') PROVE FnSound(g)'
  <2>1. FnSound(g) /\ g # 0  BY <1>1, <1>2 DEF PollerTypes
  <2> QED BY ONLY <1>2, <1>3, <2>1, slot[p].fn = 0 DEF FnSound
<1> QED BY <1>4, <1>5, <1>6, <1>7 DEF PollersSound

(* ~poller() while its task is queued                                      *)
LEMMA DestroyQueued ==
    ASSUME PollersSound, NEW p \in Slots, DestroyPoller(p), slot[p].fn # 0, slot[p].task # 0
    PROVE  PollersSound'
<1>f. PICK f : f = slot[p].fn  OBVIOUS
<1>1. /\ PollerTypes /\ ListSound /\ JobsSound
      /\ \A r \in Slots : SlotSound(r)
      /\ \A g \in 1 .. Len(fns) : FnSound(g)
  BY DEF PollersSound
<1>2. /\ slot[p] # Nothing /\ fns' = [fns EXCEPT ![f] = "gone"] /\ slot' = [slot EXCEPT ![p] = Nothing]
      /\ jobs' = ChangeTask(f, {}) /\ pollers' = pollers /\ polling' = polling
  BY <1>f DEF DestroyPoller
<1>3. /\ slot'[p] = Nothing /\ \A r \in Slots : r # p => slot'[r] = slot[r]
      /\ slot' \in [Slots -> [fn : Nat, task : Nat] \union {Nothing}]
  BY <1>1, <1>2 DEF PollerTypes
<1>4. /\ f \in 1 .. Len(fns) /\ fns[f] = "alive" /\ ~Has(pollers, f)
      /\ \A r \in Slots : slot[r] # Nothing /\ slot[r].fn = f => r = p
  <2>1. SlotSound(p)  BY <1>1
  <2> QED BY ONLY <1>f, <1>2, <2>1, p \in Slots, slot[p].fn # 0, slot[p].task # 0 DEF SlotSound
<1>5. /\ f \in Nat /\ Len(fns') = Len(fns) /\ fns' \in Seq({"alive", "dummy", "gone"})
      /\ fns'[f] = "gone" /\ \A g \in 1 .. Len(fns) : g # f => fns'[g] = fns[g]
  BY <1>1, <1>2, <1>4 DEF PollerTypes
<1>6. /\ jobs' \in Seq(Tasks)
      /\ \A x : Has(jobs', x) <=>
            \/ Has(jobs, x) /\ ~(x.do = "register" /\ x.fn = f)
            \/ x = Registration(f, {}) /\ \E y : Has(jobs, y) /\ y.do = "register" /\ y.fn = f
      /\ \A x, y : Ahead(jobs', x, y) => \E v, w : Ahead(jobs, v, w) /\ Same(v, x) /\ Same(w, y)
  <2>1. {} \in SUBSET Slots  OBVIOUS
  <2> QED BY <1>1, <1>2, <1>5, <2>1, Changed
<1>7. PollerTypes' /\ ListSound'
  BY <1>1, <1>2, <1>3, <1>5, <1>6 DEF PollerTypes, ListSound
<1>8. JobsSound'
  <2>1. ASSUME NEW x, NEW y, Ahead(jobs', x, y) PROVE ~Same(x, y)
    BY <1>1, <1>6, <2>1 DEF JobsSound, Same
  <2>2. ASSUME NEW x, Has(jobs, x), ~(x.do = "register" /\ x.fn = f) PROVE JobSound(x)'
    <3>1. JobSound(x)  BY <1>1, <2>2 DEF JobsSound
    <3> QED BY ONLY <1>f, <1>3, <1>4, <1>5, <2>2, <3>1 DEF JobSound
  <2>3. ASSUME NEW x, x = Registration(f, {}) PROVE JobSound(x)'
    <3>1. x.do = "register" /\ x.fn = f /\ x.of = {}  BY <1>5, <2>3, TaskFields
    <3> QED BY ONLY <1>4, <1>5, <3>1 DEF JobSound
  <2> QED BY <1>6, <2>1, <2>2, <2>3 DEF JobsSound
<1>9. ASSUME NEW r \in Slots PROVE SlotSound(r)'
  <2>1. CASE r = p  BY <1>3, <2>1 DEF SlotSound
  <2>2. CASE r # p
    <3>1. SlotSound(r) /\ slot'[r] = slot[r] /\ (slot[r] # Nothing => slot[r].fn # f /\ slot[r].fn \in Nat)
      BY <1>1, <1>3, <1>4, <2>2 DEF PollerTypes
    <3>2. \A g : g \in Nat /\ g # f /\ Has(jobs, Registration(g, {r})) => Has(jobs', Registration(g, {r}))
      BY <1>6, TaskFields
    <3> QED BY ONLY <1>2, <1>3, <1>5, <3>1, <3>2 DEF SlotSound
  <2> QED BY <2>1, <2>2
<1>10. ASSUME NEW g \in 1 .. Len(fns') PROVE FnSound(g)'
  <2>1. CASE g = f  BY <1>2, <1>4, <1>5, <2>1 DEF FnSound
  <2>2. CASE g # f
    <3>1. FnSound(g) /\ g \in Nat /\ fns'[g] = fns[g]
      BY <1>1, <1>5, <2>2 DEF PollerTypes
    <3>2. Has(jobs, Deregistration(g)) => Has(jobs', Deregistration(g))
      BY <1>6, <3>1, TaskFields
    <3> QED BY ONLY <1>f, <1>2, <1>3, <2>2, <3>1, <3>2 DEF FnSound
  <2> QED BY <2>1, <2>2
<1> QED BY <1>7, <1>8, <1>9, <1>10 DEF PollersSound

(* ~poller() of one in the list                                            *)
LEMMA DestroyListed ==
    ASSUME PollersSound, NEW p \in Slots, DestroyPoller(p), slot[p].fn # 0, slot[p].task = 0
    PROVE  PollersSound'
<1>f. PICK f : f = slot[p].fn  OBVIOUS
<1>d. PICK d : d = Len(fns) + 1  OBVIOUS
<1>j. PICK job : job = Deregistration(d)  OBVIOUS
<1>1. /\ PollerTypes /\ ListSound /\ JobsSound
      /\ \A r \in Slots : SlotSound(r)
      /\ \A g \in 1 .. Len(fns) : FnSound(g)
  BY DEF PollersSound
<1>2. /\ slot[p] # Nothing /\ fns' = Append([fns EXCEPT ![f] = "gone"], "dummy")
      /\ slot' = [slot EXCEPT ![p] = Nothing] /\ jobs' = Append(jobs, job)
      /\ pollers' = [i \in DOMAIN pollers |-> IF pollers[i] = f THEN d ELSE pollers[i]]
      /\ polling' = polling
  BY <1>f, <1>d, <1>j DEF DestroyPoller
<1>3. /\ slot'[p] = Nothing /\ \A r \in Slots : r # p => slot'[r] = slot[r]
      /\ slot' \in [Slots -> [fn : Nat, task : Nat] \union {Nothing}]
  BY <1>1, <1>2 DEF PollerTypes
<1>4. /\ f \in 1 .. Len(fns) /\ fns[f] = "alive" /\ Has(pollers, f)
      /\ \A r \in Slots : slot[r] # Nothing /\ slot[r].fn = f => r = p
  <2>1. SlotSound(p)  BY <1>1
  <2> QED BY ONLY <1>f, <1>2, <2>1, p \in Slots, slot[p].fn # 0, slot[p].task = 0 DEF SlotSound
<1>5. /\ f \in Nat /\ d \in Nat /\ d \notin 1 .. Len(fns) /\ Len(fns') = d /\ f # d
      /\ fns' \in Seq({"alive", "dummy", "gone"})
      /\ fns'[f] = "gone" /\ fns'[d] = "dummy" /\ f \in 1 .. d /\ d \in 1 .. d
      /\ \A g \in 1 .. Len(fns) : g \in 1 .. d /\ (g # f => fns'[g] = fns[g])
      /\ \A g \in 1 .. d : g # d => g \in 1 .. Len(fns)
  <2>1. PICK gs : gs = [fns EXCEPT ![f] = "gone"]  OBVIOUS
  <2>2. /\ gs \in Seq({"alive", "dummy", "gone"}) /\ Len(gs) = Len(fns) /\ gs[f] = "gone"
        /\ \A g \in 1 .. Len(fns) : g # f => gs[g] = fns[g]
    BY <1>1, <1>4, <2>1 DEF PollerTypes
  <2>3. /\ fns' \in Seq({"alive", "dummy", "gone"}) /\ Len(fns') = Len(gs) + 1 /\ fns'[Len(gs) + 1] = "dummy"
        /\ \A g \in 1 .. Len(gs) : fns'[g] = gs[g]
    BY ONLY <1>2, <2>1, <2>2
  <2>4. Len(fns) \in Nat  BY <1>1 DEF PollerTypes
  <2> QED BY ONLY <1>d, <1>4, <2>2, <2>3, <2>4
<1>6. job \in Tasks /\ job.do = "deregister" /\ job.fn = d /\ job.of = {}
  <2>1. {} \in SUBSET Slots  OBVIOUS
  <2> QED BY <1>j, <1>5, <2>1, TaskFields
<1>7. \A x, y : /\ Has(jobs', x) <=> Has(jobs, x) \/ x = job
                /\ Ahead(jobs', x, y) <=> Ahead(jobs, x, y) \/ (Has(jobs, x) /\ y = job)
  <2>1. jobs \in Seq(Tasks)  BY <1>1 DEF PollerTypes
  <2> QED BY ONLY <1>2, <1>6, <2>1, HasAppend
<1>8. ~Has(pollers, d) /\ \A x : Has(jobs, x) => x.fn # d
  BY <1>1, <1>5 DEF ListSound, JobsSound, JobSound
<1>9. /\ pollers' \in Seq(Nat) /\ Len(pollers') = Len(pollers)
      /\ \A g : ~Ahead(pollers', g, g)
      /\ \A g : Has(pollers', g) <=> (Has(pollers, g) /\ g # f) \/ (g = d /\ Has(pollers, f))
  <2>1. PICK t : t = [i \in DOMAIN pollers |-> IF pollers[i] = f THEN d ELSE pollers[i]]
    OBVIOUS
  <2>2. /\ t \in Seq(Nat) /\ Len(t) = Len(pollers)
        /\ \A g : ~Ahead(t, g, g)
        /\ \A g : Has(t, g) <=> (Has(pollers, g) /\ g # f) \/ (g = d /\ Has(pollers, f))
    <3>1. PollerTypes /\ ListSound /\ d \in Nat /\ ~Has(pollers, d)
      BY <1>1, <1>5, <1>8
    <3> QED BY ONLY <2>1, <3>1, Replaced, ZenonT(60)
  <2> QED BY ONLY <1>2, <2>1, <2>2
<1>10. PollerTypes'
  <2>1. jobs' \in Seq(Tasks)  BY <1>1, <1>2, <1>6 DEF PollerTypes
  <2> QED BY <1>1, <1>2, <1>3, <1>5, <1>9, <2>1 DEF PollerTypes
<1>11. ListSound'  BY <1>1, <1>4, <1>5, <1>9 DEF ListSound
<1>12. JobsSound'
  <2>1. ASSUME NEW x, NEW y, Ahead(jobs', x, y) PROVE ~Same(x, y)
    BY <1>1, <1>6, <1>7, <1>8, <2>1 DEF JobsSound, Same
  <2>2. ASSUME NEW x, Has(jobs, x) PROVE JobSound(x)'
    <3>1. JobSound(x) /\ x.fn \in 1 .. Len(fns)
      BY <1>1, <2>2 DEF JobsSound, JobSound
    <3>2. CASE x.fn = f
      <4>1. x.do # "deregister"  BY <1>4, <3>1, <3>2 DEF JobSound
      <4>2. CASE x.do = "register"
        <5>1. PICK r \in Slots : slot[r] # Nothing /\ slot[r].fn = x.fn /\ slot[r].task # 0
          BY ONLY <1>4, <3>1, <3>2, <4>2 DEF JobSound
        <5>2. r = p  BY <1>4, <3>2, <5>1
        <5> QED BY <5>1, <5>2, slot[p].task = 0
      <4>3. CASE x.do # "register"  BY ONLY <1>5, <3>2, <4>1, <4>3 DEF JobSound
      <4> QED BY <4>2, <4>3
    <3>3. CASE x.fn # f  BY ONLY <1>f, <1>3, <1>5, <3>1, <3>3 DEF JobSound
    <3> QED BY <3>2, <3>3
  <2>3. JobSound(job)'  BY ONLY <1>5, <1>6 DEF JobSound
  <2> QED BY <1>7, <2>1, <2>2, <2>3 DEF JobsSound
<1>13. ASSUME NEW r \in Slots PROVE SlotSound(r)'
  <2>1. CASE r = p  BY <1>3, <2>1 DEF SlotSound
  <2>2. CASE r # p
    <3>1. SlotSound(r) /\ slot'[r] = slot[r] /\ (slot[r] # Nothing => slot[r].fn # f)
      BY <1>1, <1>3, <1>4, <2>2
    <3> QED BY ONLY SMTT(200), <1>3, <1>5, <1>7, <1>9, <3>1 DEF SlotSound
  <2> QED BY <2>1, <2>2
<1>14. ASSUME NEW g \in 1 .. Len(fns') PROVE FnSound(g)'
  <2>1. CASE g = f  BY <1>5, <1>9, <2>1 DEF FnSound
  <2>2. CASE g = d  BY <1>j, <1>4, <1>5, <1>7, <1>9, <2>2 DEF FnSound
  <2>3. CASE g # f /\ g # d
    <3>1. FnSound(g) /\ fns'[g] = fns[g]  BY <1>1, <1>5, <2>3
    <3> QED BY ONLY <1>f, <1>3, <1>7, <1>9, <2>3, <3>1 DEF FnSound
  <2> QED BY <2>1, <2>2, <2>3
<1> QED BY <1>10, <1>11, <1>12, <1>13, <1>14 DEF PollersSound
(* The list with one more entry.                                           *)
LEMMA WithLast ==
    ASSUME NEW s \in Seq(Nat), NEW f \in Nat, NEW g, NEW h
    PROVE  /\ Append(s, f) \in Seq(Nat) /\ Len(Append(s, f)) = Len(s) + 1 /\ Len(s) \in Nat
           /\ Has(Append(s, f), g) <=> Has(s, g) \/ g = f
           /\ Ahead(Append(s, f), g, h) <=> Ahead(s, g, h) \/ (Has(s, g) /\ h = f)
<1>1. /\ Has(Append(s, f), g) <=> Has(s, g) \/ g = f
      /\ Ahead(Append(s, f), g, h) <=> Ahead(s, g, h) \/ (Has(s, g) /\ h = f)
  BY HasAppend
<1> QED BY <1>1

(* What is queued when the task in front has been taken.                   *)
LEMMA WithoutFirst ==
    ASSUME NEW s \in Seq(Tasks), s # <<>>, NEW y, NEW z
    PROVE  /\ Head(s) \in Tasks /\ Has(s, Head(s)) /\ Tail(s) \in Seq(Tasks)
           /\ Has(Tail(s), y) => Has(s, y) /\ Ahead(s, Head(s), y)
           /\ Ahead(Tail(s), y, z) => Ahead(s, y, z)
           /\ Has(s, y) /\ y # Head(s) => Has(Tail(s), y)
BY HasTail

(* registration_task                                                       *)
Registers(x, p) ==
    /\ jobs # <<>> /\ x = Head(jobs) /\ p \in x.of
    /\ pollers' = Append(pollers, slot[p].fn) /\ slot' = [slot EXCEPT ![p].task = 0]
    /\ fns' = fns /\ jobs' = Tail(jobs) /\ polling' = polling

LEMMA RegisterStep ==
    ASSUME PollersSound, NEW x, NEW p, Registers(x, p) PROVE PollersSound'
<1>1. /\ PollerTypes /\ ListSound /\ JobsSound
      /\ \A r \in Slots : SlotSound(r)
      /\ \A g \in 1 .. Len(fns) : FnSound(g)
  BY DEF PollersSound
<1>0. /\ jobs # <<>> /\ x = Head(jobs) /\ p \in x.of /\ jobs' = Tail(jobs)
      /\ slot' = [slot EXCEPT ![p].task = 0] /\ pollers' = Append(pollers, slot[p].fn)
      /\ fns' = fns /\ polling' = polling
  BY DEF Registers
<1>2. /\ jobs \in Seq(Tasks) /\ x \in Tasks /\ Has(jobs, x) /\ jobs' \in Seq(Tasks)
      /\ \A y : Has(jobs', y) => Has(jobs, y) /\ Ahead(jobs, x, y)
      /\ \A y, z : Ahead(jobs', y, z) => Ahead(jobs, y, z)
      /\ \A y : Has(jobs, y) /\ y # x => Has(jobs', y)
  <2>1. jobs \in Seq(Tasks)  BY <1>1 DEF PollerTypes
  <2>2. \A y, z : /\ Head(jobs) \in Tasks /\ Has(jobs, Head(jobs)) /\ Tail(jobs) \in Seq(Tasks)
                  /\ Has(Tail(jobs), y) => Has(jobs, y) /\ Ahead(jobs, Head(jobs), y)
                  /\ Ahead(Tail(jobs), y, z) => Ahead(jobs, y, z)
                  /\ Has(jobs, y) /\ y # Head(jobs) => Has(Tail(jobs), y)
    BY ONLY <1>0, <2>1, WithoutFirst
  <2>3. \A y : Has(jobs', y) => Has(jobs, y) /\ Ahead(jobs, x, y)
    BY ONLY <1>0, <2>2
  <2>4. \A y, z : Ahead(jobs', y, z) => Ahead(jobs, y, z)  BY ONLY <1>0, <2>2
  <2>5. \A y : Has(jobs, y) /\ y # x => Has(jobs', y)  BY ONLY <1>0, <2>2
  <2>6. x \in Tasks /\ Has(jobs, x) /\ jobs' \in Seq(Tasks)  BY ONLY <1>0, <2>2
  <2> QED BY ONLY <2>1, <2>3, <2>4, <2>5, <2>6
<1>3. \A y : Has(jobs', y) => Has(jobs, y) /\ ~Same(x, y)
  BY ONLY <1>1, <1>2 DEF JobsSound
<1>n. fns' = fns  BY DEF Registers
<1>4. \A y : Has(jobs, y) /\ y # x => Has(jobs', y)  BY <1>2
<1>5. /\ x.do = "register" /\ x.of = {p} /\ p \in Slots /\ slot[p] # Nothing
      /\ slot[p].fn = x.fn /\ slot[p].task # 0 /\ x.fn \in 1 .. Len(fns)
  <2>1. JobSound(x) /\ x.do \in {"register", "deregister"}
    BY <1>0, <1>1, <1>2 DEF JobsSound, Tasks
  <2> QED BY <1>0, <2>1 DEF JobSound 
<1>f. PICK f : f = x.fn  OBVIOUS
<1>6. /\ f \in Nat /\ f # 0 /\ f \in 1 .. Len(fns) /\ fns[f] = "alive" /\ ~Has(pollers, f)
      /\ \A r \in Slots : slot[r] # Nothing /\ slot[r].fn = f => r = p
  <2>1. SlotSound(p) /\ f \in Nat /\ f # 0  BY <1>1, <1>5, <1>f DEF PollerTypes
  <2> QED BY ONLY <1>5, <1>f, <2>1 DEF SlotSound
<1>7. /\ slot'[p] # Nothing /\ slot'[p].fn = f /\ slot'[p].task = 0
      /\ \A r \in Slots : r # p => slot'[r] = slot[r]
      /\ slot' \in [Slots -> [fn : Nat, task : Nat] \union {Nothing}]
  <2>1. slot[p] \in [fn : Nat, task : Nat] /\ slot'[p] = [slot[p] EXCEPT !.task = 0]
    BY <1>0, <1>1, <1>5 DEF PollerTypes
  <2>2. slot'[p] = [fn |-> f, task |-> 0] /\ slot'[p] \in [fn : Nat, task : Nat]
    BY <1>5, <1>f, <2>1
  <2>3. slot'[p] # Nothing /\ slot'[p].fn = f /\ slot'[p].task = 0
    BY ONLY <2>2, NothingIsNoPoller
  <2>4. \A r \in Slots : r # p => slot'[r] = slot[r]  BY <1>0, <1>1 DEF PollerTypes
  <2> QED BY <1>0, <1>1, <1>5, <2>2, <2>3, <2>4 DEF PollerTypes
<1>8. /\ pollers' \in Seq(Nat) /\ Len(pollers') = Len(pollers) + 1 /\ Len(pollers) \in Nat
      /\ \A g, h : /\ Has(pollers', g) <=> Has(pollers, g) \/ g = f
                   /\ Ahead(pollers', g, h) <=> Ahead(pollers, g, h) \/ (Has(pollers, g) /\ h = f)
  <2>1. pollers \in Seq(Nat) /\ pollers' = Append(pollers, f)
    BY <1>0, <1>1, <1>5, <1>f DEF PollerTypes
  <2>2. f \in Nat  BY <1>6
  <2>3. \A g, h : /\ Append(pollers, f) \in Seq(Nat)
                  /\ Len(Append(pollers, f)) = Len(pollers) + 1 /\ Len(pollers) \in Nat
                  /\ Has(Append(pollers, f), g) <=> Has(pollers, g) \/ g = f
                  /\ Ahead(Append(pollers, f), g, h) <=> Ahead(pollers, g, h) \/ (Has(pollers, g) /\ h = f)
    BY ONLY <2>1, <2>2, WithLast
  <2>4. pollers' \in Seq(Nat) /\ Len(pollers') = Len(pollers) + 1 /\ Len(pollers) \in Nat
    BY ONLY <2>1, <2>3
  <2>5. ASSUME NEW g, NEW h
        PROVE  /\ Has(pollers', g) <=> Has(pollers, g) \/ g = f
               /\ Ahead(pollers', g, h) <=> Ahead(pollers, g, h) \/ (Has(pollers, g) /\ h = f)
    BY ONLY <2>1, <2>3
  <2> QED BY ONLY <2>4, <2>5
<1>9. PollerTypes' /\ ListSound'
  <2>1. PollerTypes'  BY <1>0, <1>1, <1>2, <1>7, <1>8 DEF PollerTypes
  <2>2. ListSound'
    <3>1. ASSUME NEW g, Ahead(pollers', g, g) PROVE FALSE
      BY ONLY <1>1, <1>6, <1>8, <3>1 DEF ListSound
    <3>2. ASSUME NEW g, Has(pollers', g) PROVE g \in 1 .. Len(fns')
      BY ONLY <1>0, <1>1, <1>6, <1>8, <3>2 DEF ListSound
    <3> QED BY <3>1, <3>2 DEF ListSound
  <2> QED BY <2>1, <2>2
<1>10. \A y : Has(jobs', y) /\ y.do = "register" => y.fn # f
  BY <1>3, <1>5, <1>f DEF Same
<1>11. JobsSound'
  <2>1. ASSUME NEW y, Has(jobs', y) PROVE JobSound(y)'
    <3>1. JobSound(y)  BY <1>1, <1>3, <2>1 DEF JobsSound
    <3>2. y.do = "register" => y.fn # f  BY <1>10, <2>1
    <3>3. y.do = "register" => \A q \in Slots : slot[q] # Nothing /\ slot[q].fn = y.fn => slot'[q] = slot[q]
      BY ONLY <1>5, <1>f, <1>7, <3>2
    <3> QED BY ONLY <3>1, <3>3, <1>n DEF JobSound
  <2> QED BY <1>1, <1>2, <2>1 DEF JobsSound
<1>12. ASSUME NEW r \in Slots PROVE SlotSound(r)'
  <2>1. CASE r = p
    <3>1. \A q \in Slots : slot'[q] # Nothing /\ slot'[q].fn = f => q = p
      BY <1>6, <1>7
    <3> QED BY ONLY <1>6, <1>7, <1>8, <2>1, <3>1, <1>n DEF SlotSound
  <2>2. CASE r # p
    <3>1. SlotSound(r) /\ slot'[r] = slot[r] /\ (slot[r] # Nothing => slot[r].fn # f /\ slot[r].fn \in Nat)
      BY <1>1, <1>6, <1>7, <2>2 DEF PollerTypes
    <3>2. \A g : g \in Nat /\ g # f /\ Has(jobs, Registration(g, {r})) => Has(jobs', Registration(g, {r}))
      BY <1>4, <1>f, TaskFields
    <3>3. \A q \in Slots : slot'[q] # Nothing => slot[q] # Nothing /\ slot'[q].fn = slot[q].fn
      BY <1>5, <1>7, <1>f
    <3> QED BY ONLY <1>8, <3>1, <3>2, <3>3, <1>n DEF SlotSound
  <2> QED BY <2>1, <2>2
<1>13. ASSUME NEW g \in 1 .. Len(fns') PROVE FnSound(g)'
  <2>1. FnSound(g) /\ g \in Nat  BY <1>0, <1>1 DEF PollerTypes
  <2>2. Has(jobs, Deregistration(g)) => Has(jobs', Deregistration(g))
    BY <1>4, <1>5, <2>1, TaskFields
  <2>3. \A q \in Slots : slot[q] # Nothing => slot'[q] # Nothing /\ slot'[q].fn = slot[q].fn
    BY <1>5, <1>7, <1>f
  <2> QED BY ONLY <1>6, <1>8, <2>1, <2>2, <2>3, <1>n DEF FnSound
<1> QED BY <1>9, <1>11, <1>12, <1>13 DEF PollersSound

(* What the list has without one of its entries.                           *)
LEMMA Erased ==
    ASSUME PollerTypes, ListSound, NEW f, Has(pollers, f), NEW t, t = Erase(Place(f))
    PROVE  /\ t \in Seq(Nat)
           /\ \A g, h : Ahead(t, g, h) => Ahead(pollers, g, h)
           /\ \A g : Has(t, g) <=> Has(pollers, g) /\ g # f
<1> DEFINE n == Len(pollers)
<1>1. pollers \in Seq(Nat) /\ n \in Nat /\ DOMAIN pollers = 1 .. n
  BY DEF PollerTypes
<1>2. \A i, j \in 1 .. n : pollers[i] = pollers[j] => i = j
  <2> SUFFICES ASSUME NEW i \in 1 .. n, NEW j \in 1 .. n, pollers[i] = pollers[j] PROVE i = j
    OBVIOUS
  <2>1. ~(i < j) /\ ~(j < i)  BY DEF ListSound, Ahead
  <2> QED BY <1>1, <2>1
<1>3. PICK k : k = Place(f)  OBVIOUS
<1>4. k \in 1 .. n /\ pollers[k] = f
  <2>1. PICK i \in 1 .. n : pollers[i] = f  BY DEF Has
  <2>2. \A j \in 1 .. i - 1 : j \in 1 .. n /\ j # i  BY <1>1
  <2>3. i \in DOMAIN pollers /\ pollers[i] = f /\ \A j \in 1 .. i - 1 : pollers[j] # f
    BY <1>1, <1>2, <2>1, <2>2
  <2> QED BY <1>1, <1>3, <2>3 DEF Place
<1>5. t = SubSeq(pollers, 1, k - 1) \o SubSeq(pollers, k + 1, Len(pollers))
  BY <1>3 DEF Erase
<1>6. ~Ahead(pollers, pollers[k], pollers[k])  BY <1>4 DEF ListSound
<1>7. ASSUME NEW g, NEW h
      PROVE  /\ SubSeq(pollers, 1, k - 1) \o SubSeq(pollers, k + 1, Len(pollers)) \in Seq(Nat)
             /\ Ahead(SubSeq(pollers, 1, k - 1) \o SubSeq(pollers, k + 1, Len(pollers)), g, h)
                    => Ahead(pollers, g, h)
             /\ Has(SubSeq(pollers, 1, k - 1) \o SubSeq(pollers, k + 1, Len(pollers)), g)
                    <=> Has(pollers, g) /\ g # pollers[k]
  BY ONLY <1>1, <1>4, <1>6, HasWithout
<1> QED BY ONLY <1>4, <1>5, <1>7

(* registration_task of a poller that is gone                              *)
Forgets(x) ==
    /\ jobs # <<>> /\ x = Head(jobs) /\ x.do = "register" /\ x.of = {}
    /\ slot' = slot /\ pollers' = pollers /\ fns' = fns /\ jobs' = Tail(jobs) /\ polling' = polling

LEMMA JobsBehind ==
    ASSUME PollersSound, jobs # <<>>
    PROVE  /\ jobs \in Seq(Tasks) /\ Head(jobs) \in Tasks /\ Has(jobs, Head(jobs))
           /\ Tail(jobs) \in Seq(Tasks)
           /\ \A y : Has(Tail(jobs), y) => Has(jobs, y) /\ ~Same(Head(jobs), y)
           /\ \A y, z : Ahead(Tail(jobs), y, z) => Ahead(jobs, y, z)
           /\ \A y : Has(jobs, y) /\ y # Head(jobs) => Has(Tail(jobs), y)
<1>1. jobs \in Seq(Tasks) /\ JobsSound  BY DEF PollersSound, PollerTypes
<1>2. \A y, z : /\ Head(jobs) \in Tasks /\ Has(jobs, Head(jobs)) /\ Tail(jobs) \in Seq(Tasks)
                /\ Has(Tail(jobs), y) => Has(jobs, y) /\ Ahead(jobs, Head(jobs), y)
                /\ Ahead(Tail(jobs), y, z) => Ahead(jobs, y, z)
                /\ Has(jobs, y) /\ y # Head(jobs) => Has(Tail(jobs), y)
  BY ONLY <1>1, jobs # <<>>, WithoutFirst
<1>3. \A y : Has(Tail(jobs), y) => Has(jobs, y) /\ ~Same(Head(jobs), y)
  BY ONLY <1>1, <1>2 DEF JobsSound
<1> QED BY ONLY <1>1, <1>2, <1>3

LEMMA ForgetStep ==
    ASSUME PollersSound, NEW x, Forgets(x) PROVE PollersSound'
<1>1. /\ PollerTypes /\ ListSound /\ JobsSound
      /\ \A r \in Slots : SlotSound(r)
      /\ \A g \in 1 .. Len(fns) : FnSound(g)
  BY DEF PollersSound
<1>2. /\ jobs # <<>> /\ x = Head(jobs) /\ x.do = "register" /\ x.of = {} /\ jobs' = Tail(jobs)
      /\ slot' = slot /\ pollers' = pollers /\ fns' = fns /\ polling' = polling
  BY DEF Forgets
<1>3. /\ Head(jobs) \in Tasks /\ Tail(jobs) \in Seq(Tasks)
      /\ \A y : Has(Tail(jobs), y) => Has(jobs, y)
      /\ \A y, z : Ahead(Tail(jobs), y, z) => Ahead(jobs, y, z)
      /\ \A y : Has(jobs, y) /\ y # Head(jobs) => Has(Tail(jobs), y)
  BY <1>2, JobsBehind
<1>4. /\ x \in Tasks /\ jobs' \in Seq(Tasks)
      /\ \A y : Has(jobs', y) => Has(jobs, y)
      /\ \A y, z : Ahead(jobs', y, z) => Ahead(jobs, y, z)
  BY ONLY <1>2, <1>3
<1>5. \A y : Has(jobs, y) /\ y # x => Has(jobs', y)  BY ONLY <1>2, <1>3
<1>6. PollerTypes' /\ ListSound'  BY <1>1, <1>2, <1>4 DEF PollerTypes, ListSound
<1>7. JobsSound'
  <2>1. ASSUME NEW y, Has(jobs', y) PROVE JobSound(y)'
    <3>1. JobSound(y)  BY <1>1, <1>4, <2>1 DEF JobsSound
    <3> QED BY ONLY <1>2, <3>1 DEF JobSound
  <2> QED BY <1>1, <1>4, <2>1 DEF JobsSound
<1>8. ASSUME NEW r \in Slots PROVE SlotSound(r)'
  <2>1. SlotSound(r) /\ (slot[r] # Nothing => slot[r].fn \in Nat)
    BY <1>1 DEF PollerTypes
  <2>2. \A g \in Nat : Registration(g, {r}) # x
    <3> SUFFICES ASSUME NEW g \in Nat PROVE Registration(g, {r}) # x  OBVIOUS
    <3>1. Registration(g, {r}).of = {r}  BY DEF Registration
    <3>2. {r} # {}  OBVIOUS
    <3> QED BY ONLY <1>2, <3>1, <3>2
  <2>3. \A g \in Nat : Has(jobs, Registration(g, {r})) => Has(jobs', Registration(g, {r}))
    BY ONLY <1>5, <2>2
  <2> QED BY ONLY <1>2, <2>1, <2>3 DEF SlotSound
<1>9. ASSUME NEW g \in 1 .. Len(fns') PROVE FnSound(g)'
  <2>1. FnSound(g) /\ g \in Nat  BY <1>1, <1>2 DEF PollerTypes
  <2>2. Deregistration(g).do = "deregister"  BY DEF Deregistration
  <2>3. Deregistration(g) # x  BY <1>2, <2>2
  <2>4. Has(jobs, Deregistration(g)) => Has(jobs', Deregistration(g))
    BY ONLY <1>5, <2>3
  <2> QED BY ONLY <1>2, <2>1, <2>4 DEF FnSound
<1> QED BY <1>6, <1>7, <1>8, <1>9 DEF PollersSound

(* deregistration_task                                                     *)
Deregisters(x) ==
    /\ polling = 0 /\ jobs # <<>> /\ x = Head(jobs) /\ x.do = "deregister"
    /\ pollers' = Erase(Place(x.fn)) /\ fns' = [fns EXCEPT ![x.fn] = "gone"]
    /\ slot' = slot /\ jobs' = Tail(jobs) /\ polling' = polling

LEMMA DeregisterStep ==
    ASSUME PollersSound, NEW x, Deregisters(x) PROVE PollersSound'
<1>1. /\ PollerTypes /\ ListSound /\ JobsSound
      /\ \A r \in Slots : SlotSound(r)
      /\ \A g \in 1 .. Len(fns) : FnSound(g)
  BY DEF PollersSound
<1>2. /\ polling = 0 /\ jobs # <<>> /\ x = Head(jobs) /\ x.do = "deregister" /\ jobs' = Tail(jobs)
      /\ slot' = slot /\ polling' = polling
  BY DEF Deregisters
<1>f. PICK f : f = x.fn  OBVIOUS
<1>0. pollers' = Erase(Place(f)) /\ fns' = [fns EXCEPT ![f] = "gone"]
  BY <1>f DEF Deregisters
<1>3. /\ Head(jobs) \in Tasks /\ Tail(jobs) \in Seq(Tasks) /\ Has(jobs, Head(jobs))
      /\ \A y : Has(Tail(jobs), y) => Has(jobs, y) /\ ~Same(Head(jobs), y)
      /\ \A y, z : Ahead(Tail(jobs), y, z) => Ahead(jobs, y, z)
      /\ \A y : Has(jobs, y) /\ y # Head(jobs) => Has(Tail(jobs), y)
  BY <1>2, JobsBehind
<1>4. /\ x \in Tasks /\ jobs' \in Seq(Tasks) /\ Has(jobs, x)
      /\ \A y : Has(jobs', y) => Has(jobs, y) /\ ~Same(x, y)
      /\ \A y, z : Ahead(jobs', y, z) => Ahead(jobs, y, z)
  BY ONLY <1>2, <1>3
<1>5. \A y : Has(jobs, y) /\ y # x => Has(jobs', y)  BY ONLY <1>2, <1>3
<1>6. f \in 1 .. Len(fns) /\ fns[f] = "dummy" /\ Has(pollers, f)
  <2>1. JobSound(x)  BY <1>1, <1>4 DEF JobsSound
  <2>2. f \in 1 .. Len(fns) /\ fns[f] = "dummy"
    BY ONLY <1>2, <1>f, <2>1 DEF JobSound
  <2> QED BY <1>1, <2>2 DEF FnSound
<1>7. /\ Len(fns') = Len(fns) /\ fns' \in Seq({"alive", "dummy", "gone"})
      /\ fns'[f] = "gone" /\ \A g \in 1 .. Len(fns) : g # f => fns'[g] = fns[g]
  BY <1>0, <1>1, <1>6 DEF PollerTypes
<1>8. /\ pollers' \in Seq(Nat)
      /\ \A g, h : Ahead(pollers', g, h) => Ahead(pollers, g, h)
      /\ \A g : Has(pollers', g) <=> Has(pollers, g) /\ g # f
  <2>1. PICK t : t = Erase(Place(f))  OBVIOUS
  <2>2. /\ t \in Seq(Nat)
        /\ \A g, h : Ahead(t, g, h) => Ahead(pollers, g, h)
        /\ \A g : Has(t, g) <=> Has(pollers, g) /\ g # f
    BY ONLY <1>1, <1>6, <2>1, Erased
  <2>3. pollers' = t  BY <1>0, <2>1
  <2> QED BY ONLY <2>2, <2>3
<1>9. PollerTypes'
  <2>1. polling' \in 0 .. Len(pollers')  BY ONLY <1>2, <1>8
  <2> QED BY ONLY <1>1, <1>2, <1>4, <1>7, <1>8, <2>1 DEF PollerTypes
<1>10. ListSound'  BY ONLY <1>1, <1>7, <1>8 DEF ListSound
<1>11. JobsSound'
  <2>1. ASSUME NEW y, Has(jobs', y) PROVE JobSound(y)'
    <3>1. JobSound(y)  BY <1>1, <1>4, <2>1 DEF JobsSound
    <3>2. y.do = "deregister" => y.fn # f  BY <1>2, <1>4, <1>f, <2>1 DEF Same
    <3>3. y.do = "register" => y.fn # f
      <4>1. ASSUME y.do = "register", y.fn = f PROVE FALSE
        <5>1. PICK p \in Slots : slot[p] # Nothing /\ slot[p].fn = f
          BY ONLY <1>6, <3>1, <4>1 DEF JobSound
        <5>2. SlotSound(p) /\ f # 0  BY <1>1, <1>6, <5>1 DEF PollerTypes
        <5> QED BY ONLY <1>6, <5>1, <5>2 DEF SlotSound
      <4> QED BY <4>1
    <3> QED BY ONLY <1>2, <1>7, <3>1, <3>2, <3>3 DEF JobSound
  <2> QED BY <1>1, <1>4, <2>1 DEF JobsSound
<1>12. ASSUME NEW r \in Slots PROVE SlotSound(r)'
  <2>1. SlotSound(r) /\ (slot[r] # Nothing => slot[r].fn \in Nat)
    BY <1>1 DEF PollerTypes
  <2>2. ASSUME NEW g \in Nat PROVE Registration(g, {r}) # x
    <3>1. {r} \in SUBSET Slots  OBVIOUS
    <3>2. Registration(g, {r}).do = "register"  BY ONLY <3>1, TaskFields
    <3>3. x.do = "deregister"  BY <1>2
    <3> QED BY ONLY <3>2, <3>3
  <2>3. \A g \in Nat : Has(jobs, Registration(g, {r})) => Has(jobs', Registration(g, {r}))
    BY ONLY <1>5, <2>2
  <2>4. slot[r] # Nothing /\ slot[r].fn # 0 => slot[r].fn # f
    BY ONLY <1>6, <2>1 DEF SlotSound
  <2> QED BY ONLY <1>2, <1>7, <1>8, <2>1, <2>3, <2>4 DEF SlotSound
<1>13. ASSUME NEW g \in 1 .. Len(fns') PROVE FnSound(g)'
  <2>1. CASE g = f  BY ONLY <1>7, <1>8, <2>1 DEF FnSound
  <2>2. CASE g # f
    <3>1. FnSound(g) /\ g \in Nat /\ fns'[g] = fns[g]
      BY <1>1, <1>7, <2>2 DEF PollerTypes
    <3>2. Deregistration(g).fn = g  BY DEF Deregistration
    <3>3. Deregistration(g) # x  BY <1>f, <2>2, <3>2
    <3>4. Has(jobs, Deregistration(g)) => Has(jobs', Deregistration(g))
      BY ONLY <1>5, <3>3
    <3> QED BY ONLY <1>2, <1>8, <2>2, <3>1, <3>4 DEF FnSound
  <2> QED BY <2>1, <2>2
<1> QED BY <1>9, <1>10, <1>11, <1>12, <1>13 DEF PollersSound

(* Whatever happens to pollers, and while poll_once() goes on.             *)
LEMMA StepPollers == PollersSound /\ [PollerNext]_pollerVars => PollersSound'
<1> SUFFICES ASSUME PollersSound, [PollerNext]_pollerVars PROVE PollersSound'  OBVIOUS
<1>1. CASE PollerTask
  <2>1. PICK job : job = Head(jobs)  OBVIOUS
  <2>2. /\ polling = 0 /\ jobs # <<>> /\ jobs' = Tail(jobs) /\ polling' = polling
        /\ \/ \E p \in job.of :
                 /\ pollers' = Append(pollers, slot[p].fn)
                 /\ slot' = [slot EXCEPT ![p].task = 0]
                 /\ fns' = fns
           \/ /\ job.do = "register" /\ job.of = {}
              /\ slot' = slot /\ pollers' = pollers /\ fns' = fns
           \/ /\ job.do = "deregister"
              /\ pollers' = Erase(Place(job.fn))
              /\ fns' = [fns EXCEPT ![job.fn] = "gone"]
              /\ slot' = slot
    BY <1>1, <2>1 DEF PollerTask
  <2>3. (\E p : Registers(job, p)) \/ Forgets(job) \/ Deregisters(job)
    BY ONLY <2>1, <2>2 DEF Registers, Forgets, Deregisters
  <2> QED BY <2>3, RegisterStep, ForgetStep, DeregisterStep
<1>2. CASE Poll \/ UNCHANGED pollerVars
  <2>1. /\ slot' = slot /\ pollers' = pollers /\ fns' = fns /\ jobs' = jobs
        /\ polling' = polling \/ polling' = IF polling < Len(pollers) THEN polling + 1 ELSE 0
    BY <1>2 DEF Poll, pollerVars
  <2>2. PollerTypes  BY DEF PollersSound
  <2>3. PollerTypes'  BY ONLY <2>1, <2>2 DEF PollerTypes
  <2>4. ListSound /\ JobsSound /\ (\A p \in Slots : SlotSound(p)) /\ \A f \in 1 .. Len(fns) : FnSound(f)
    BY DEF PollersSound
  <2>5. ListSound'  BY ONLY <2>1, <2>4 DEF ListSound
  <2>6. JobsSound'  BY ONLY <2>1, <2>4 DEF JobsSound, JobSound
  <2>7. \A p \in Slots : SlotSound(p)'  BY ONLY <2>1, <2>4 DEF SlotSound
  <2>8. \A f \in 1 .. Len(fns') : FnSound(f)'  BY ONLY <2>1, <2>4 DEF FnSound
  <2> QED BY <2>3, <2>5, <2>6, <2>7, <2>8 DEF PollersSound
<1>3. CASE \E p \in Slots : MakePoller(p)  BY <1>3, MakeStep
<1>4. CASE \E p, q \in Slots : MovePoller(p, q)  BY <1>4, MoveStep
<1>5. ASSUME NEW p \in Slots, DestroyPoller(p) PROVE PollersSound'
  <2>1. CASE slot[p].fn = 0  BY <1>5, <2>1, DestroyEmpty
  <2>2. CASE slot[p].fn # 0 /\ slot[p].task # 0  BY <1>5, <2>2, DestroyQueued
  <2>3. CASE slot[p].fn # 0 /\ slot[p].task = 0  BY <1>5, <2>3, DestroyListed
  <2> QED BY <2>1, <2>2, <2>3
<1> QED BY <1>1, <1>2, <1>3, <1>4, <1>5 DEF PollerNext
(* A set of places that hold one element has one place, when none is twice. *)
LEMMA OnePlace ==
    ASSUME PollersSound, NEW do, NEW f
    PROVE  Queued(do, f) = {} \/ \E i \in DOMAIN jobs : Queued(do, f) = {i}
<1>1. jobs \in Seq(Tasks) /\ DOMAIN jobs = 1 .. Len(jobs) /\ Len(jobs) \in Nat
  BY DEF PollersSound, PollerTypes
<1>2. ASSUME NEW i \in Queued(do, f), NEW j \in Queued(do, f), i < j PROVE FALSE
  <2>1. Ahead(jobs, jobs[i], jobs[j])  BY <1>1, <1>2 DEF Queued, Ahead
  <2>2. Same(jobs[i], jobs[j])  BY <1>2 DEF Queued, Same
  <2> QED BY <2>1, <2>2 DEF PollersSound, JobsSound
<1>3. Queued(do, f) \subseteq 1 .. Len(jobs)  BY <1>1 DEF Queued
<1>4. \A i, j \in Queued(do, f) : i = j  BY <1>1, <1>2, <1>3
<1> QED BY ONLY <1>1, <1>3, <1>4

LEMMA QueuedHas ==
    ASSUME PollersSound, NEW do, NEW f
    PROVE  /\ \A i \in Queued(do, f) : /\ jobs[i].do = do /\ jobs[i].fn = f
                                       /\ i \in DOMAIN jobs /\ Has(jobs, jobs[i]) /\ JobSound(jobs[i])
           /\ \A x : Has(jobs, x) /\ x.do = do /\ x.fn = f => Queued(do, f) # {}
<1>1. jobs \in Seq(Tasks) /\ DOMAIN jobs = 1 .. Len(jobs) /\ Len(jobs) \in Nat
  BY DEF PollersSound, PollerTypes
<1>2. \A i \in 1 .. Len(jobs) : Has(jobs, jobs[i]) /\ JobSound(jobs[i])
  BY DEF Has, PollersSound, JobsSound
<1>3. \A x : Has(jobs, x) /\ x.do = do /\ x.fn = f => Queued(do, f) # {}
  BY <1>1 DEF Has, Queued
<1> QED BY <1>1, <1>2, <1>3 DEF Queued

LEMMA SoundPollersExact == PollersSound => PollersExact
<1> SUFFICES ASSUME PollersSound PROVE PollersExact  OBVIOUS
<1>1. /\ PollerTypes /\ ListSound /\ JobsSound
      /\ \A r \in Slots : SlotSound(r)
      /\ \A g \in 1 .. Len(fns) : FnSound(g)
  BY DEF PollersSound
<1>2. /\ pollers \in Seq(Nat) /\ Len(pollers) \in Nat /\ DOMAIN pollers = 1 .. Len(pollers)
      /\ fns \in Seq({"alive", "dummy", "gone"}) /\ DOMAIN fns = 1 .. Len(fns) /\ Len(fns) \in Nat
      /\ polling <= Len(pollers)
  BY <1>1 DEF PollerTypes
<1>3. ASSUME NEW i \in DOMAIN pollers, NEW j \in DOMAIN pollers, pollers[i] = pollers[j] PROVE i = j
  <2>1. ~(i < j) /\ ~(j < i)  BY <1>1, <1>2, <1>3 DEF ListSound, Ahead
  <2> QED BY <1>2, <2>1
<1>4. ASSUME NEW f \in DOMAIN fns
      PROVE  LET listed == \E i \in DOMAIN pollers : pollers[i] = f
                 coming == Queued("register", f)
                 leaving == Queued("deregister", f)
             IN  CASE fns[f] = "alive" ->
                        /\ leaving = {}
                        /\ Cardinality(coming) = (IF listed THEN 0 ELSE 1)
                        /\ \E p \in Slots :
                              Owner(f) = {p} /\ \A i \in coming : jobs[i].of = {p}
                   [] fns[f] = "dummy" -> listed /\ Cardinality(leaving) = 1
                   [] OTHER -> ~listed /\ leaving = {} /\ \A i \in coming : jobs[i].of = {}
  <2> DEFINE listed == \E i \in DOMAIN pollers : pollers[i] = f
             coming == Queued("register", f)
             leaving == Queued("deregister", f)
  <2>1. listed <=> Has(pollers, f)  BY <1>2 DEF Has
  <2>2. FnSound(f) /\ fns[f] \in {"alive", "dummy", "gone"} /\ f \in Nat /\ f # 0
    BY <1>1, <1>2
  <2>3. leaving # {} => fns[f] = "dummy"
    <3> SUFFICES ASSUME NEW i \in leaving PROVE fns[f] = "dummy"  OBVIOUS
    <3>1. jobs[i].do = "deregister" /\ jobs[i].fn = f /\ JobSound(jobs[i])
      BY QueuedHas
    <3> QED BY ONLY <3>1 DEF JobSound
  <2>4. (leaving = {} \/ \E i \in DOMAIN jobs : leaving = {i}) /\ (coming = {} \/ \E i \in DOMAIN jobs : coming = {i})
    BY OnePlace
  <2>5. /\ leaving # {} => Cardinality(leaving) = 1
        /\ coming # {} => Cardinality(coming) = 1
        /\ coming = {} => Cardinality(coming) = 0
    BY <2>4, FS_Singleton, FS_EmptySet
  <2> HIDE DEF listed, coming, leaving
  <2>6. CASE fns[f] = "alive"
    <3>1. PICK p \in Slots : slot[p] # Nothing /\ slot[p].fn = f
      BY <2>2, <2>6 DEF FnSound
    <3>2. SlotSound(p)  BY <1>1
    <3>3. /\ \A q \in Slots : slot[q] # Nothing /\ slot[q].fn = f => q = p
          /\ slot[p].task # 0 => Has(jobs, Registration(f, {p}))
          /\ Has(pollers, f) <=> slot[p].task = 0
      BY ONLY <2>2, <3>1, <3>2 DEF SlotSound
    <3>4. Owner(f) = {p}  BY <3>1, <3>3 DEF Owner
    <3>5. \A i \in coming : jobs[i].of = {p} /\ slot[p].task # 0
      <4> SUFFICES ASSUME NEW i \in coming PROVE jobs[i].of = {p} /\ slot[p].task # 0
        OBVIOUS
      <4>1. jobs[i].do = "register" /\ jobs[i].fn = f /\ JobSound(jobs[i])
        BY QueuedHas DEF coming
      <4>2. PICK q \in Slots : jobs[i].of = {q} /\ slot[q] # Nothing /\ slot[q].fn = f /\ slot[q].task # 0
        BY ONLY <2>6, <4>1 DEF JobSound
      <4> QED BY <3>3, <4>2
    <3>6. slot[p].task # 0 => coming # {}
      <4>1. Registration(f, {p}).do = "register" /\ Registration(f, {p}).fn = f
        BY DEF Registration
      <4> QED BY <3>3, <4>1, QueuedHas DEF coming
    <3>7. Cardinality(coming) = IF listed THEN 0 ELSE 1
      BY ONLY <2>1, <2>5, <3>3, <3>5, <3>6
    <3>8. leaving = {}  BY ONLY <2>3, <2>6
    <3> QED BY ONLY <2>6, <3>4, <3>5, <3>7, <3>8, p \in Slots DEF listed, coming, leaving
  <2>7. CASE fns[f] = "dummy"
    <3>1. Has(pollers, f) /\ Has(jobs, Deregistration(f))  BY <2>2, <2>7 DEF FnSound
    <3>2. leaving # {}
      <4>1. Deregistration(f).do = "deregister" /\ Deregistration(f).fn = f
        BY DEF Deregistration
      <4> QED BY <3>1, <4>1, QueuedHas DEF leaving
    <3>3. listed /\ Cardinality(leaving) = 1  BY ONLY <2>1, <2>5, <3>1, <3>2
    <3> QED BY ONLY <2>7, <3>3 DEF listed, leaving
  <2>8. CASE fns[f] = "gone"
    <3>1. ~listed  BY <2>1, <2>2, <2>8 DEF FnSound
    <3>2. leaving = {}  BY ONLY <2>3, <2>8
    <3>3. \A i \in coming : jobs[i].of = {}
      <4> SUFFICES ASSUME NEW i \in coming PROVE jobs[i].of = {}  OBVIOUS
      <4>1. jobs[i].do = "register" /\ jobs[i].fn = f /\ JobSound(jobs[i])
        BY QueuedHas DEF coming
      <4>2. ASSUME NEW q \in Slots, slot[q] # Nothing, slot[q].fn = f PROVE FALSE
        <5>1. SlotSound(q)  BY <1>1
        <5> QED BY ONLY <2>2, <2>8, <4>2, <5>1 DEF SlotSound
      <4> QED BY ONLY <4>1, <4>2 DEF JobSound
    <3> QED BY ONLY <2>8, <3>1, <3>2, <3>3 DEF listed, coming, leaving
  <2> QED BY <2>2, <2>6, <2>7, <2>8
<1> QED BY <1>2, <1>3, <1>4 DEF PollersExact

(* Whatever a poll function does to pollers, its own included: poll_once() *)
(* never calls one that is gone, a live poller is in the list once or has  *)
(* one task that will put it there and knows where it is, and a dummy has  *)
(* one that takes it out (reactor::poller, register_poller(),              *)
(* unregister_poller(), replace_poller()).                                 *)
THEOREM PollersExactHolds == PollerSpec => []PollersExact
<1>1. PollerSpec => []PollersSound  BY InitPollers, StepPollers, PTL DEF PollerSpec
<1> QED BY <1>1, SoundPollersExact, PTL

-----------------------------------------------------------------------------
(* Threads.  The invariant has a way back through all the contexts that    *)
(* were entered (Nested), and what is known of each context: a thread that *)
(* is out waits in exactly one of four ways (ContextSound).                *)
ContextStates ==
    [at : {"in", "out", "over", "freed"}, owner : Fibers \union {Main},
     promise : {"fresh", "spent"}, joiner : Fibers \union {Nobody, "async"}]

ThreadTasks == {"enter", "later", "joined", "free"} \X Fibers

ThreadTypes ==
    /\ context \in [Fibers -> ContextStates \union {NoFiber}]
    /\ current \in Fibers \union {Main}
    /\ link \in [Fibers -> Fibers \union {Main, Nobody}]
    /\ ready \in Seq(ThreadTasks)
    /\ waitsFor \in SUBSET Fibers /\ alarms \in SUBSET Fibers
    /\ preempted \in Seq(Fibers)
    /\ waits \in Nat /\ aborted \in BOOLEAN

Entered == {t \in Fibers : context[t].at = "in"}

(* The way from context c back by the links l, through all of E.           *)
WayBack(E, l, c, n, path) ==
    /\ path[0] = Main /\ path[n] = c
    /\ \A i \in 1 .. n : path[i] \in E /\ l[path[i]] = path[i - 1]
    /\ \A i, j \in 0 .. n : path[i] = path[j] => i = j
    /\ \A t \in E : \E i \in 1 .. n : path[i] = t

Nest(E, l, c) == \E n \in Nat : \E path \in [0 .. n -> E \union {Main}] : WayBack(E, l, c, n, path)

Nested == Nest(Entered, link, current)

(* A thread that has not ended and that t joins *)
Joins(u, t) == context[u].at \in {"in", "out"} /\ context[u].joiner = t

Preempted(t) == Has(preempted, t)
EnterIn(s, t) == Has(s, <<"enter", t>>) \/ Has(s, <<"later", t>>)
EndIn(s, t) == Has(s, <<"joined", t>>) \/ Has(s, <<"free", t>>)
ToEnter(t) == EnterIn(ready, t)
Ending(t) == EndIn(ready, t)
Joining(t) == \E u \in Fibers : Joins(u, t)

(* No two tasks are about one thread, and none is preempted twice. *)
TasksApart(s) == \A x, y : Ahead(s, x, y) => x[2] # y[2]

QueuesSound == TasksApart(ready) /\ \A t : ~Ahead(preempted, t, t)

(* A thread that is out is so in one way.                                  *)
ContextSound(t) ==
    /\ context[t].at = "out" <=> (t \in waitsFor \/ Preempted(t) \/ ToEnter(t) \/ Joining(t))
    /\ ~(t \in waitsFor /\ Preempted(t)) /\ ~(t \in waitsFor /\ ToEnter(t)) /\ ~(t \in waitsFor /\ Joining(t))
    /\ ~(Preempted(t) /\ ToEnter(t)) /\ ~(Preempted(t) /\ Joining(t)) /\ ~(ToEnter(t) /\ Joining(t))
    /\ Ending(t) => context[t].at = "over" /\ context[t].joiner = "async"
    /\ t \in alarms <=> Preempted(t)
    /\ context[t] # NoFiber => context[t].owner # t /\ context[t].joiner # t
    /\ \A u, v \in Fibers : Joins(u, t) /\ Joins(v, t) => u = v

AbortSound == aborted => current \in Grouped \cap Fibers /\ context[current].promise = "spent"

ThreadsSound ==
    /\ ThreadTypes /\ Nested /\ QueuesSound /\ AbortSound
    /\ \A t \in Fibers : ContextSound(t)

(* No thread is named as a context that is none.                           *)
LEMMA NamesApart ==
    /\ Main \notin Fibers /\ Nobody \notin Fibers /\ "async" \notin Fibers
    /\ Main # Nobody
BY FibersAssumption DEF Main, Nobody

(* A context that is entered goes on the way back.                         *)
LEMMA NestEntered ==
    ASSUME NEW E \in SUBSET Fibers, NEW l \in [Fibers -> Fibers \union {Main, Nobody}],
           NEW c, Nest(E, l, c), NEW t \in Fibers \ E
    PROVE  Nest(E \union {t}, [l EXCEPT ![t] = c], t)
<1>1. PICK n \in Nat : \E path \in [0 .. n -> E \union {Main}] : WayBack(E, l, c, n, path)
  BY DEF Nest
<1>2. PICK path \in [0 .. n -> E \union {Main}] : WayBack(E, l, c, n, path)  BY <1>1
<1>w. /\ path[0] = Main /\ path[n] = c
      /\ \A i \in 1 .. n : path[i] \in E /\ l[path[i]] = path[i - 1]
      /\ \A i, j \in 0 .. n : path[i] = path[j] => i = j
      /\ \A u \in E : \E i \in 1 .. n : path[i] = u
  BY ONLY <1>2 DEF WayBack
<1>3. PICK m, F, k : m = n + 1 /\ F = E \union {t} /\ k = [l EXCEPT ![t] = c]  OBVIOUS
<1>4. PICK way : way = [i \in 0 .. m |-> IF i = m THEN t ELSE path[i]]  OBVIOUS
<1>5. /\ m \in Nat /\ m \notin 0 .. n /\ m # 0 /\ m - 1 = n
      /\ \A i \in 0 .. m : i = m \/ i \in 0 .. n
      /\ \A i \in 1 .. m : i = m \/ i \in 1 .. n
      /\ \A i \in 1 .. n : i \in 1 .. m /\ i # m /\ i - 1 \in 0 .. n /\ i \in 0 .. n
      /\ 0 \in 0 .. n /\ n \in 0 .. m /\ m \in 1 .. m /\ m \in 0 .. m /\ n # m
      /\ \A i \in 0 .. n : i \in 0 .. m /\ i # m
  BY <1>3
<1>6. /\ way[m] = t
      /\ \A i \in 0 .. n : way[i] = path[i] /\ path[i] \in E \union {Main}
  BY ONLY <1>2, <1>4, <1>5
<1>7. t \notin E \union {Main}  BY NamesApart
<1>8. k[t] = c /\ \A u \in E : k[u] = l[u]  BY <1>3
<1>9. way \in [0 .. m -> F \union {Main}]  BY ONLY <1>2, <1>3, <1>4, <1>5, <1>6
<1>10. way[0] = Main  BY ONLY <1>5, <1>6, <1>w
<1>11. ASSUME NEW i \in 1 .. m PROVE way[i] \in F /\ k[way[i]] = way[i - 1]
  <2>1. CASE i = m  BY ONLY <1>3, <1>5, <1>6, <1>8, <1>w, <2>1
  <2>2. CASE i \in 1 .. n  BY ONLY <1>3, <1>5, <1>6, <1>8, <1>w, <2>2
  <2> QED BY <1>5, <2>1, <2>2
<1>12. ASSUME NEW i \in 0 .. m, NEW j \in 0 .. m, way[i] = way[j] PROVE i = j
  BY ONLY ZenonT(60), <1>5, <1>6, <1>7, <1>w, <1>12
<1>13. ASSUME NEW u \in F PROVE \E i \in 1 .. m : way[i] = u
  <2>1. CASE u = t  BY ONLY <1>5, <1>6, <2>1
  <2>2. CASE u \in E  BY ONLY <1>5, <1>6, <1>w, <2>2
  <2> QED BY <1>3, <2>1, <2>2
<1>14. WayBack(F, k, t, m, way)
  BY ONLY <1>6, <1>10, <1>11, <1>12, <1>13 DEF WayBack
<1>15. Nest(F, k, t)  BY ONLY <1>5, <1>9, <1>14 DEF Nest
<1> QED BY ONLY <1>3, <1>15

(* The current context leaves it.                                          *)
LEMMA NestLeft ==
    ASSUME NEW E \in SUBSET Fibers, NEW l, NEW t \in Fibers, Nest(E, l, t)
    PROVE  t \in E /\ l[t] \in (E \ {t}) \union {Main} /\ Nest(E \ {t}, l, l[t])
<1>1. PICK n \in Nat : \E path \in [0 .. n -> E \union {Main}] : WayBack(E, l, t, n, path)
  BY DEF Nest
<1>2. PICK path \in [0 .. n -> E \union {Main}] : WayBack(E, l, t, n, path)  BY <1>1
<1>w. /\ path[0] = Main /\ path[n] = t
      /\ \A i \in 1 .. n : path[i] \in E /\ l[path[i]] = path[i - 1]
      /\ \A i, j \in 0 .. n : path[i] = path[j] => i = j
      /\ \A u \in E : \E i \in 1 .. n : path[i] = u
  BY ONLY <1>2 DEF WayBack
<1>3. t # Main /\ n # 0  BY <1>w, NamesApart
<1>4. PICK m, F : m = n - 1 /\ F = E \ {t}  OBVIOUS
<1>5. /\ m \in Nat /\ n \in 1 .. n /\ 0 \in 0 .. m /\ n \in 0 .. n /\ m \in 0 .. m /\ n - 1 = m
      /\ \A i \in 0 .. m : i \in 0 .. n /\ i # n
      /\ \A i \in 1 .. m : i \in 1 .. n /\ i # n /\ i \in 0 .. m /\ i - 1 \in 0 .. m
      /\ \A i \in 1 .. n : i # n => i \in 1 .. m
  BY <1>3, <1>4
<1>6. PICK way : way = [i \in 0 .. m |-> path[i]]  OBVIOUS
<1>7. \A i \in 0 .. m : way[i] = path[i] /\ path[i] \in F \union {Main}
  <2>1. \A i \in 0 .. m : way[i] = path[i]  BY ONLY <1>6
  <2>2. \A i \in 0 .. m : path[i] \in E \union {Main} /\ path[i] # t
    BY ONLY <1>2, <1>5, <1>w
  <2> QED BY ONLY <1>4, <2>1, <2>2
<1>8. way \in [0 .. m -> F \union {Main}]  BY ONLY <1>6, <1>7
<1>9. t \in E /\ way[m] = l[t] /\ l[t] \in F \union {Main}  BY ONLY <1>5, <1>7, <1>w
<1>10. ASSUME NEW i \in 1 .. m PROVE way[i] \in F /\ l[way[i]] = way[i - 1]
  <2>1. path[i] \in E /\ l[path[i]] = path[i - 1] /\ path[i] # t  BY ONLY <1>5, <1>w
  <2> QED BY ONLY <1>4, <1>5, <1>7, <2>1
<1>11. ASSUME NEW i \in 0 .. m, NEW j \in 0 .. m, way[i] = way[j] PROVE i = j
  BY ONLY <1>5, <1>7, <1>w, <1>11
<1>12. ASSUME NEW u \in F PROVE \E i \in 1 .. m : way[i] = u
  <2>1. PICK i \in 1 .. n : path[i] = u  BY ONLY <1>4, <1>w
  <2>2. i # n  BY <1>4, <1>w, <2>1
  <2> QED BY ONLY <1>5, <1>7, <2>1, <2>2
<1>13. way[0] = Main  BY ONLY <1>5, <1>7, <1>w
<1>14. WayBack(F, l, l[t], m, way)
  BY ONLY <1>9, <1>10, <1>11, <1>12, <1>13 DEF WayBack
<1>15. Nest(F, l, l[t])  BY ONLY <1>5, <1>8, <1>14 DEF Nest
<1> QED BY ONLY <1>4, <1>9, <1>15

(* A task is of one kind and about one thread.                             *)
LEMMA ThreadTaskFields ==
    ASSUME NEW k, NEW t, NEW l, NEW u
    PROVE  /\ <<k, t>>[1] = k /\ <<k, t>>[2] = t
           /\ <<k, t>> = <<l, u>> <=> k = l /\ t = u
OBVIOUS

(* A task is what its fields say.                                          *)
LEMMA ThreadTaskIs ==
    ASSUME NEW x \in ThreadTasks
    PROVE  /\ x[1] \in {"enter", "later", "joined", "free"} /\ x[2] \in Fibers
           /\ x = <<x[1], x[2]>>
BY DEF ThreadTasks

(* The tasks with one more, about a thread that none is about.             *)
LEMMA TaskAdded ==
    ASSUME NEW s \in Seq(ThreadTasks), TasksApart(s), NEW t \in Fibers,
           NEW k \in {"enter", "later", "joined", "free"},
           ~EnterIn(s, t), ~EndIn(s, t), NEW v
    PROVE  /\ Append(s, <<k, t>>) \in Seq(ThreadTasks) /\ TasksApart(Append(s, <<k, t>>))
           /\ EnterIn(Append(s, <<k, t>>), v) <=> EnterIn(s, v) \/ (v = t /\ k \in {"enter", "later"})
           /\ EndIn(Append(s, <<k, t>>), v) <=> EndIn(s, v) \/ (v = t /\ k \in {"joined", "free"})
<1>1. PICK z : z = <<k, t>>  OBVIOUS
<1>2. z \in ThreadTasks /\ z[2] = t  BY <1>1 DEF ThreadTasks
<1>3. PICK r : r = Append(s, z)  OBVIOUS
<1>4. \A x, y : /\ Has(Append(s, z), x) <=> Has(s, x) \/ x = z
                /\ Ahead(Append(s, z), x, y) <=> Ahead(s, x, y) \/ (Has(s, x) /\ y = z)
  BY ONLY <1>2, s \in Seq(ThreadTasks), HasAppend
<1>5. \A x, y : /\ Has(r, x) <=> Has(s, x) \/ x = z
                /\ Ahead(r, x, y) <=> Ahead(s, x, y) \/ (Has(s, x) /\ y = z)
  BY ONLY <1>3, <1>4
<1>6. r \in Seq(ThreadTasks)  BY <1>2, <1>3
<1>7. ASSUME NEW x, Has(s, x) PROVE x[2] # t
  <2>1. x \in ThreadTasks  BY <1>7, HasOf
  <2>2. x[1] \in {"enter", "later", "joined", "free"} /\ x = <<x[1], x[2]>>
    BY ONLY <2>1, ThreadTaskIs
  <2>3. x[2] = t => x = <<"enter", t>> \/ x = <<"later", t>> \/ x = <<"joined", t>> \/ x = <<"free", t>>
    BY ONLY <2>2
  <2> QED BY ONLY <1>7, <2>3, ~EnterIn(s, t), ~EndIn(s, t) DEF EnterIn, EndIn
<1>8. TasksApart(r)  BY ONLY <1>2, <1>5, <1>7, TasksApart(s) DEF TasksApart
<1>9. \A l : <<l, v>> = z <=> l = k /\ v = t  BY ONLY <1>1, ThreadTaskFields
<1>10. \A l : Has(r, <<l, v>>) <=> Has(s, <<l, v>>) \/ (l = k /\ v = t)
  BY ONLY <1>5, <1>9
<1>11. /\ EnterIn(r, v) <=> EnterIn(s, v) \/ (v = t /\ k \in {"enter", "later"})
       /\ EndIn(r, v) <=> EndIn(s, v) \/ (v = t /\ k \in {"joined", "free"})
  BY ONLY <1>10 DEF EnterIn, EndIn
<1> QED BY ONLY <1>1, <1>3, <1>6, <1>8, <1>11

(* The tasks without the first.                                            *)
LEMMA TaskTaken ==
    ASSUME NEW s \in Seq(ThreadTasks), s # <<>>, TasksApart(s), NEW k, NEW t,
           k = Head(s)[1], t = Head(s)[2], NEW v
    PROVE  /\ k \in {"enter", "later", "joined", "free"} /\ t \in Fibers
           /\ Tail(s) \in Seq(ThreadTasks) /\ TasksApart(Tail(s))
           /\ ~EnterIn(Tail(s), t) /\ ~EndIn(Tail(s), t)
           /\ k \in {"enter", "later"} => EnterIn(s, t)
           /\ k \in {"joined", "free"} => EndIn(s, t)
           /\ v # t => (EnterIn(Tail(s), v) <=> EnterIn(s, v)) /\ (EndIn(Tail(s), v) <=> EndIn(s, v))
<1>1. PICK z, r : z = Head(s) /\ r = Tail(s)  OBVIOUS
<1>2. \A y, w : /\ Head(s) \in ThreadTasks /\ Has(s, Head(s)) /\ Tail(s) \in Seq(ThreadTasks)
                /\ Has(s, y) <=> y = Head(s) \/ Has(Tail(s), y)
                /\ Has(Tail(s), y) => Ahead(s, Head(s), y)
                /\ Ahead(Tail(s), y, w) => Ahead(s, y, w)
  BY ONLY s \in Seq(ThreadTasks), s # <<>>, HasTail
<1>3. /\ z \in ThreadTasks /\ r \in Seq(ThreadTasks)
      /\ \A y, w : /\ Has(s, y) <=> y = z \/ Has(r, y)
                   /\ Has(r, y) => Ahead(s, z, y)
                   /\ Ahead(r, y, w) => Ahead(s, y, w)
  BY ONLY <1>1, <1>2
<1>4. /\ k \in {"enter", "later", "joined", "free"} /\ t \in Fibers /\ z = <<k, t>>
  <2>1. k = z[1] /\ t = z[2]  BY <1>1
  <2> QED BY ONLY <1>3, <2>1, ThreadTaskIs
<1>5. TasksApart(r)  BY ONLY <1>3, TasksApart(s) DEF TasksApart
<1>6. ASSUME NEW l PROVE ~Has(r, <<l, t>>)
  <2>1. <<l, t>>[2] = t /\ z[2] = t  BY ONLY <1>4
  <2> QED BY ONLY <1>3, <2>1, TasksApart(s) DEF TasksApart
<1>7. ASSUME v # t, NEW l PROVE Has(r, <<l, v>>) <=> Has(s, <<l, v>>)
  <2>1. <<l, v>> # z  BY ONLY <1>4, <1>7, ThreadTaskFields
  <2> QED BY ONLY <1>3, <2>1
<1>8. ~EnterIn(r, t) /\ ~EndIn(r, t)  BY ONLY <1>6 DEF EnterIn, EndIn
<1>9. v # t => (EnterIn(r, v) <=> EnterIn(s, v)) /\ (EndIn(r, v) <=> EndIn(s, v))
  BY ONLY <1>7 DEF EnterIn, EndIn
<1>10. Has(s, <<k, t>>)  BY ONLY <1>3, <1>4
<1>11. (k \in {"enter", "later"} => EnterIn(s, t)) /\ (k \in {"joined", "free"} => EndIn(s, t))
  BY ONLY <1>10 DEF EnterIn, EndIn
<1> QED BY ONLY <1>1, <1>3, <1>4, <1>5, <1>8, <1>9, <1>11

(* A context that is in, out, over or freed is a context.                  *)
LEMMA ContextIs ==
    ASSUME ThreadTypes, NEW t \in Fibers
    PROVE  /\ context[t] \in ContextStates \/ context[t] = NoFiber
           /\ context[t] = NoFiber <=> context[t].at = "none"
           /\ context[t] # NoFiber => context[t].at \in {"in", "out", "over", "freed"}
<1>1. context[t] \in ContextStates \/ context[t] = NoFiber  BY DEF ThreadTypes
<1>2. NoFiber.at = "none"  BY DEF NoFiber
<1>3. context[t] \in ContextStates => context[t].at \in {"in", "out", "over", "freed"}
  BY DEF ContextStates
<1> QED BY ONLY <1>1, <1>2, <1>3

(* One context that changes.                                               *)
LEMMA ContextChanged ==
    ASSUME ThreadTypes, NEW t \in Fibers, NEW r \in ContextStates, context' = [context EXCEPT ![t] = r]
    PROVE  /\ context' \in [Fibers -> ContextStates \union {NoFiber}]
           /\ context'[t] = r
           /\ \A u \in Fibers : u # t => context'[u] = context[u]
BY DEF ThreadTypes

(* What does not concern a thread leaves it as it is.                      *)
LEMMA OthersSound ==
    ASSUME NEW v \in Fibers, ContextSound(v), context'[v] = context[v],
           v \in waitsFor' <=> v \in waitsFor, v \in alarms' <=> v \in alarms,
           Preempted(v)' <=> Preempted(v), ToEnter(v)' <=> ToEnter(v), Ending(v)' => Ending(v),
           \A u \in Fibers : Joins(u, v)' <=> Joins(u, v)
    PROVE  ContextSound(v)'
<1>1. Joining(v)' <=> Joining(v)  BY DEF Joining
<1> QED BY <1>1 DEF ContextSound

(* The current thread goes back to where it was entered from.              *)
Leaves(t, r) ==
    /\ current = t /\ current' = link[t] /\ link' = link
    /\ r \in ContextStates /\ r.at # "in"
    /\ context' = [context EXCEPT ![t] = r]

(* Without it, the contexts still nest.                                    *)
LEMMA LeavesNest ==
    ASSUME ThreadTypes, Nested, NEW t \in Fibers, NEW r, Leaves(t, r)
    PROVE  /\ Nested' /\ current' \in Fibers \union {Main} /\ context[t].at = "in" /\ context[t] \in ContextStates
           /\ link' \in [Fibers -> Fibers \union {Main, Nobody}]
           /\ context' \in [Fibers -> ContextStates \union {NoFiber}]
           /\ context'[t] = r
           /\ \A u \in Fibers : u # t => context'[u] = context[u]
<1>0. /\ current = t /\ current' = link[t] /\ link' = link
      /\ r \in ContextStates /\ r.at # "in"
      /\ context' = [context EXCEPT ![t] = r]
  BY DEF Leaves
<1>1. /\ context' \in [Fibers -> ContextStates \union {NoFiber}]
      /\ context'[t] = r
      /\ \A u \in Fibers : u # t => context'[u] = context[u]
  BY ONLY ThreadTypes, t \in Fibers, <1>0, ContextChanged
<1>2. Entered \in SUBSET Fibers /\ Nest(Entered, link, t)
  BY <1>0 DEF Entered, Nested
<1>3. t \in Entered /\ link[t] \in (Entered \ {t}) \union {Main} /\ Nest(Entered \ {t}, link, link[t])
  BY ONLY <1>2, t \in Fibers, NestLeft
<1>4. Entered' = Entered \ {t}  BY <1>0, <1>1 DEF Entered
<1>5. Nested'  BY ONLY <1>0, <1>3, <1>4 DEF Nested
<1>6. context[t].at = "in" /\ current' \in Fibers \union {Main}
  BY <1>0, <1>2, <1>3 DEF Entered
<1>7. context[t] \in ContextStates  BY <1>6, ContextIs
<1>8. link' \in [Fibers -> Fibers \union {Main, Nobody}]  BY <1>0 DEF ThreadTypes
<1> QED BY <1>1, <1>5, <1>6, <1>7, <1>8

(* A thread is entered, for the first time or again.                       *)
Enters(t, r) ==
    /\ context[t].at # "in" /\ current' = t /\ link' = [link EXCEPT ![t] = current]
    /\ r \in ContextStates /\ r.at = "in"
    /\ context' = [context EXCEPT ![t] = r]

(* With it, the contexts still nest.                                       *)
LEMMA EntersNest ==
    ASSUME ThreadTypes, Nested, NEW t \in Fibers, NEW r, Enters(t, r)
    PROVE  /\ Nested' /\ current' \in Fibers \union {Main} /\ current # t
           /\ link' \in [Fibers -> Fibers \union {Main, Nobody}]
           /\ context' \in [Fibers -> ContextStates \union {NoFiber}]
           /\ context'[t] = r
           /\ \A u \in Fibers : u # t => context'[u] = context[u]
<1>0. /\ context[t].at # "in" /\ current' = t /\ link' = [link EXCEPT ![t] = current]
      /\ r \in ContextStates /\ r.at = "in"
      /\ context' = [context EXCEPT ![t] = r]
  BY DEF Enters
<1>1. /\ context' \in [Fibers -> ContextStates \union {NoFiber}]
      /\ context'[t] = r
      /\ \A u \in Fibers : u # t => context'[u] = context[u]
  BY ONLY ThreadTypes, t \in Fibers, <1>0, ContextChanged
<1>2. /\ Entered \in SUBSET Fibers /\ t \in Fibers \ Entered /\ Nest(Entered, link, current)
      /\ link \in [Fibers -> Fibers \union {Main, Nobody}]
  BY <1>0 DEF Entered, Nested, ThreadTypes
<1>3. Nest(Entered \union {t}, [link EXCEPT ![t] = current], t)
  BY ONLY <1>2, NestEntered
<1>4. Entered' = Entered \union {t}  BY <1>0, <1>1 DEF Entered
<1>5. Nested'  BY ONLY <1>0, <1>3, <1>4 DEF Nested
<1>6. current # t
  <2>1. current = t => t \in Entered  BY ONLY <1>2, NestLeft
  <2> QED BY <1>2, <2>1
<1>7. link' \in [Fibers -> Fibers \union {Main, Nobody}]  BY <1>0 DEF ThreadTypes
<1> QED BY <1>0, <1>1, <1>5, <1>6, <1>7

(* The current thread is in, and nothing will enter it.                    *)
LEMMA CurrentIsIn ==
    ASSUME ThreadsSound, NEW t \in Fibers, current = t
    PROVE  /\ context[t].at = "in" /\ context[t] \in ContextStates /\ context[t] # NoFiber
           /\ t \notin waitsFor /\ t \notin alarms /\ ~Preempted(t) /\ ~ToEnter(t) /\ ~Ending(t) /\ ~Joining(t)
           /\ context[t].owner # t /\ context[t].joiner # t
<1>1. Entered \in SUBSET Fibers /\ Nest(Entered, link, t)
  BY DEF ThreadsSound, Entered, Nested
<1>2. t \in Entered  BY ONLY <1>1, t \in Fibers, NestLeft
<1>3. context[t].at = "in" /\ ContextSound(t) /\ ThreadTypes
  BY <1>2 DEF Entered, ThreadsSound
<1>4. context[t] \in ContextStates /\ context[t] # NoFiber
  BY ONLY <1>3, t \in Fibers, ContextIs
<1> QED BY ONLY <1>3, <1>4 DEF ContextSound

(* Whom a thread joins does not change while it comes and goes.            *)
LEMMA JoinsAlike ==
    ASSUME NEW t \in Fibers, context[t].at \in {"in", "out"}, context'[t].at \in {"in", "out"},
           context'[t].joiner = context[t].joiner,
           \A u \in Fibers : u # t => context'[u] = context[u]
    PROVE  \A u, v \in Fibers : Joins(u, v)' <=> Joins(u, v)
BY DEF Joins

(* No thread is made yet.                                                  *)
LEMMA InitThreads == ThreadInit => ThreadsSound
<1> SUFFICES ASSUME ThreadInit PROVE ThreadsSound  OBVIOUS
<1>1. /\ context = [t \in Fibers |-> NoFiber] /\ current = Main /\ link = [t \in Fibers |-> Nobody]
      /\ ready = <<>> /\ waitsFor = {} /\ preempted = <<>> /\ alarms = {} /\ waits = 0 /\ aborted = FALSE
  BY DEF ThreadInit
<1>2. ThreadTypes
  <2>1. context \in [Fibers -> ContextStates \union {NoFiber}]  BY ONLY <1>1
  <2>2. current \in Fibers \union {Main} /\ link \in [Fibers -> Fibers \union {Main, Nobody}]
    BY ONLY <1>1
  <2>3. ready \in Seq(ThreadTasks) /\ preempted \in Seq(Fibers)  BY ONLY <1>1
  <2> QED BY ONLY <1>1, <2>1, <2>2, <2>3 DEF ThreadTypes
<1>3. \A t \in Fibers : context[t].at = "none" /\ context[t] = NoFiber
  BY <1>1 DEF NoFiber
<1>4. Nested
  <2>1. Entered = {}  BY <1>3 DEF Entered
  <2>2. PICK path : path = [i \in 0 .. 0 |-> Main]  OBVIOUS
  <2>3. WayBack(Entered, link, current, 0, path)  BY <1>1, <2>1, <2>2 DEF WayBack
  <2>4. path \in [0 .. 0 -> Entered \union {Main}]  BY <2>2
  <2>5. 0 \in Nat  OBVIOUS
  <2> QED BY <2>3, <2>4, <2>5 DEF Nested, Nest
<1>5. QueuesSound /\ \A t : ~Preempted(t) /\ ~ToEnter(t) /\ ~Ending(t)
  BY <1>1, HasNone DEF QueuesSound, TasksApart, Preempted, ToEnter, Ending, EnterIn, EndIn
<1>6. \A u, t \in Fibers : ~Joins(u, t)  BY <1>3 DEF Joins
<1>7. ASSUME NEW t \in Fibers PROVE ContextSound(t)
  BY ONLY <1>1, <1>3, <1>5, <1>6, <1>7 DEF ContextSound, Joining
<1> QED BY <1>1, <1>2, <1>4, <1>5, <1>7 DEF ThreadsSound, AbortSound

(* What switch_out() does to the context.                                  *)
LEMMA OutOf ==
    ASSUME NEW c \in ContextStates, NEW r, r = [c EXCEPT !.at = "out"]
    PROVE  r \in ContextStates /\ r.at = "out" /\ r.owner = c.owner /\ r.joiner = c.joiner /\ r.promise = c.promise
BY DEF ContextStates

(* A thread that goes out, in one way.                                     *)
LEMMA OutSound ==
    ASSUME NEW t \in Fibers, context'[t].at = "out", context'[t].owner # t, context'[t].joiner # t,
           ~Ending(t)', (t \in alarms' <=> Preempted(t)'),
           \A u \in Fibers : ~Joins(u, t)',
           \/ t \in waitsFor' /\ ~Preempted(t)' /\ ~ToEnter(t)'
           \/ t \notin waitsFor' /\ Preempted(t)' /\ ~ToEnter(t)'
           \/ t \notin waitsFor' /\ ~Preempted(t)' /\ ToEnter(t)'
    PROVE  ContextSound(t)'
<1>1. ~Joining(t)'  BY DEF Joining
<1> QED BY <1>1 DEF ContextSound

(* The current thread goes out: what that leaves alone.                    *)
LEMMA GoesOut ==
    ASSUME ThreadsSound, NEW t \in Fibers, current = t, NEW r, r \in ContextStates, r.at = "out",
           r.owner = context[t].owner, r.joiner = context[t].joiner,
           context' = [context EXCEPT ![t] = r], current' = link[t], link' = link
    PROVE  /\ Nested' /\ current' \in Fibers \union {Main}
           /\ link' \in [Fibers -> Fibers \union {Main, Nobody}]
           /\ context' \in [Fibers -> ContextStates \union {NoFiber}]
           /\ context'[t] = r /\ r.owner # t /\ r.joiner # t
           /\ \A u \in Fibers : u # t => context'[u] = context[u]
           /\ \A u, v \in Fibers : Joins(u, v)' <=> Joins(u, v)
           /\ \A u \in Fibers : ~Joins(u, t)'
<1>1. ThreadTypes /\ Nested  BY DEF ThreadsSound
<1>2. /\ context[t].at = "in" /\ ~Joining(t)
      /\ context[t].owner # t /\ context[t].joiner # t
  BY CurrentIsIn
<1>3. Leaves(t, r)  BY DEF Leaves
<1>4. /\ Nested' /\ current' \in Fibers \union {Main}
      /\ link' \in [Fibers -> Fibers \union {Main, Nobody}]
      /\ context' \in [Fibers -> ContextStates \union {NoFiber}]
      /\ context'[t] = r
      /\ \A u \in Fibers : u # t => context'[u] = context[u]
  BY ONLY <1>1, <1>3, t \in Fibers, LeavesNest
<1>5. \A u, v \in Fibers : Joins(u, v)' <=> Joins(u, v)  BY <1>2, <1>4, JoinsAlike
<1>6. \A u \in Fibers : ~Joins(u, t)'  BY <1>2, <1>5 DEF Joining
<1> QED BY <1>2, <1>4, <1>5, <1>6

(* get() of a future that is not available.                                *)
LEMMA WaitOfThread ==
    ASSUME ThreadsSound, ~aborted, NEW t \in Fibers, Wait(t)
    PROVE  ThreadsSound'
<1>0. /\ current = t /\ context' = [context EXCEPT ![t].at = "out"] /\ current' = link[t]
      /\ waits' = waits + 1 /\ waitsFor' = waitsFor \union {t} /\ link' = link /\ ready' = ready
      /\ preempted' = preempted /\ alarms' = alarms /\ aborted' = aborted
  BY DEF Wait, SwitchOut
<1>1. /\ ThreadTypes /\ QueuesSound /\ AbortSound
      /\ \A v \in Fibers : ContextSound(v)
  BY DEF ThreadsSound
<1>2. /\ context[t] \in ContextStates
      /\ t \notin waitsFor /\ t \notin alarms /\ ~Preempted(t) /\ ~ToEnter(t) /\ ~Ending(t)
      /\ context[t].at = "in"
  BY <1>0, CurrentIsIn
<1>3. PICK r : r = [context[t] EXCEPT !.at = "out"]  OBVIOUS
<1>4. /\ r \in ContextStates /\ r.at = "out" /\ r.owner = context[t].owner /\ r.joiner = context[t].joiner
      /\ context' = [context EXCEPT ![t] = r]
  BY ONLY <1>0, <1>2, <1>3, OutOf
<1>5. /\ Nested' /\ current' \in Fibers \union {Main}
      /\ link' \in [Fibers -> Fibers \union {Main, Nobody}]
      /\ context' \in [Fibers -> ContextStates \union {NoFiber}]
      /\ context'[t] = r /\ r.owner # t /\ r.joiner # t
      /\ \A u \in Fibers : u # t => context'[u] = context[u]
      /\ \A u, v \in Fibers : Joins(u, v)' <=> Joins(u, v)
      /\ \A u \in Fibers : ~Joins(u, t)'
  BY ONLY ThreadsSound, t \in Fibers, <1>0, <1>4, GoesOut
<1>6. \A v : (Preempted(v)' <=> Preempted(v)) /\ (ToEnter(v)' <=> ToEnter(v)) /\ (Ending(v)' <=> Ending(v))
  BY ONLY <1>0 DEF Preempted, ToEnter, Ending
<1>7. ThreadTypes'  BY <1>0, <1>1, <1>5 DEF ThreadTypes
<1>8. QueuesSound'  BY <1>0, <1>1 DEF QueuesSound
<1>9. AbortSound'  BY <1>0 DEF AbortSound
<1>10. ContextSound(t)'
  <2>1. context'[t].at = "out" /\ context'[t].owner # t /\ context'[t].joiner # t
    BY ONLY <1>4, <1>5
  <2>2. ~Ending(t)' /\ (t \in alarms' <=> Preempted(t)') /\ t \in waitsFor' /\ ~Preempted(t)' /\ ~ToEnter(t)'
    BY ONLY <1>0, <1>2, <1>6
  <2> QED BY ONLY t \in Fibers, <1>5, <2>1, <2>2, OutSound
<1>11. ASSUME NEW v \in Fibers, v # t PROVE ContextSound(v)'
  <2>1. ContextSound(v) /\ context'[v] = context[v] /\ (v \in waitsFor' <=> v \in waitsFor) /\ (v \in alarms' <=> v \in alarms)
    BY <1>0, <1>1, <1>5, <1>11
  <2> QED BY ONLY v \in Fibers, <1>5, <1>6, <2>1, OthersSound
<1> QED BY <1>5, <1>7, <1>8, <1>9, <1>10, <1>11 DEF ThreadsSound

(* later().get(), which yield() is without a scheduling group.             *)
LEMMA LaterOfThread ==
    ASSUME ThreadsSound, ~aborted, NEW t \in Fibers, current = t, Later(t)
    PROVE  ThreadsSound'
<1>0. /\ current = t /\ context' = [context EXCEPT ![t].at = "out"] /\ current' = link[t]
      /\ waits' = waits + 1 /\ waitsFor' = waitsFor /\ link' = link
      /\ ready' = Append(ready, <<"later", t>>)
      /\ preempted' = preempted /\ alarms' = alarms /\ aborted' = aborted
  BY DEF Later, SwitchOut
<1>1. /\ ThreadTypes /\ QueuesSound /\ AbortSound
      /\ \A v \in Fibers : ContextSound(v)
  BY DEF ThreadsSound
<1>2. /\ context[t] \in ContextStates
      /\ t \notin waitsFor /\ t \notin alarms /\ ~Preempted(t) /\ ~ToEnter(t) /\ ~Ending(t)
      /\ context[t].at = "in"
  BY <1>0, CurrentIsIn
<1>3. PICK r : r = [context[t] EXCEPT !.at = "out"]  OBVIOUS
<1>4. /\ r \in ContextStates /\ r.at = "out" /\ r.owner = context[t].owner /\ r.joiner = context[t].joiner
      /\ context' = [context EXCEPT ![t] = r]
  BY ONLY <1>0, <1>2, <1>3, OutOf
<1>5. /\ Nested' /\ current' \in Fibers \union {Main}
      /\ link' \in [Fibers -> Fibers \union {Main, Nobody}]
      /\ context' \in [Fibers -> ContextStates \union {NoFiber}]
      /\ context'[t] = r /\ r.owner # t /\ r.joiner # t
      /\ \A u \in Fibers : u # t => context'[u] = context[u]
      /\ \A u, v \in Fibers : Joins(u, v)' <=> Joins(u, v)
      /\ \A u \in Fibers : ~Joins(u, t)'
  BY ONLY ThreadsSound, t \in Fibers, <1>0, <1>4, GoesOut
<1>6. /\ ready' \in Seq(ThreadTasks) /\ TasksApart(ready')
      /\ \A v : (ToEnter(v)' <=> ToEnter(v) \/ v = t) /\ (Ending(v)' <=> Ending(v))
  <2>1. PICK k : k = "later"  OBVIOUS
  <2>2. ready \in Seq(ThreadTasks) /\ TasksApart(ready) /\ ~EnterIn(ready, t) /\ ~EndIn(ready, t)
    BY <1>1, <1>2 DEF ThreadTypes, QueuesSound, ToEnter, Ending
  <2>3. \A v : /\ Append(ready, <<k, t>>) \in Seq(ThreadTasks) /\ TasksApart(Append(ready, <<k, t>>))
               /\ EnterIn(Append(ready, <<k, t>>), v) <=> EnterIn(ready, v) \/ (v = t /\ k \in {"enter", "later"})
               /\ EndIn(Append(ready, <<k, t>>), v) <=> EndIn(ready, v) \/ (v = t /\ k \in {"joined", "free"})
    BY ONLY <2>1, <2>2, t \in Fibers, TaskAdded
  <2>4. ready' = Append(ready, <<k, t>>) /\ k \in {"enter", "later"} /\ k \notin {"joined", "free"}
    BY ONLY <1>0, <2>1
  <2> QED BY ONLY <2>3, <2>4 DEF ToEnter, Ending
<1>7. ThreadTypes'  BY <1>0, <1>1, <1>5, <1>6 DEF ThreadTypes
<1>8. QueuesSound' /\ \A v : Preempted(v)' <=> Preempted(v)
  BY <1>0, <1>1, <1>6 DEF QueuesSound, Preempted
<1>9. AbortSound'  BY <1>0 DEF AbortSound
<1>10. ContextSound(t)'
  <2>1. context'[t].at = "out" /\ context'[t].owner # t /\ context'[t].joiner # t
    BY ONLY <1>4, <1>5
  <2>2. ~Ending(t)' /\ (t \in alarms' <=> Preempted(t)') /\ t \notin waitsFor' /\ ~Preempted(t)' /\ ToEnter(t)'
    BY ONLY <1>0, <1>2, <1>6, <1>8
  <2> QED BY ONLY t \in Fibers, <1>5, <2>1, <2>2, OutSound
<1>11. ASSUME NEW v \in Fibers, v # t PROVE ContextSound(v)'
  <2>1. ContextSound(v) /\ context'[v] = context[v] /\ (v \in waitsFor' <=> v \in waitsFor) /\ (v \in alarms' <=> v \in alarms)
    BY <1>0, <1>1, <1>5, <1>11
  <2>2. (Preempted(v)' <=> Preempted(v)) /\ (ToEnter(v)' <=> ToEnter(v)) /\ (Ending(v)' => Ending(v))
    BY ONLY <1>6, <1>8, <1>11
  <2> QED BY ONLY v \in Fibers, <1>5, <2>1, <2>2, OthersSound
<1> QED BY <1>5, <1>7, <1>8, <1>9, <1>10, <1>11 DEF ThreadsSound

(* yield() of a thread whose group has used up its time                    *)
LEMMA PreemptOfThread ==
    ASSUME ThreadsSound, ~aborted, NEW t \in Fibers, current = t, t \in Grouped, Preempt(t)
    PROVE  ThreadsSound'
<1>1. /\ ThreadTypes /\ Nested /\ QueuesSound /\ AbortSound
      /\ \A v \in Fibers : ContextSound(v)
  BY DEF ThreadsSound
<1>2. /\ context[t] \in ContextStates
      /\ t \notin waitsFor /\ t \notin alarms /\ ~Preempted(t) /\ ~ToEnter(t) /\ ~Ending(t)
      /\ context[t].at = "in"
  BY CurrentIsIn
<1>s. CASE context[t].promise = "spent"
  <2>0. /\ aborted' = TRUE /\ context' = context /\ current' = current /\ link' = link /\ ready' = ready
        /\ waitsFor' = waitsFor /\ preempted' = preempted /\ alarms' = alarms /\ waits' = waits
    BY <1>s DEF Preempt
  <2>1. ThreadTypes'  BY <1>1, <2>0 DEF ThreadTypes
  <2>2. Entered' = Entered  BY <2>0 DEF Entered
  <2>3. Nested' /\ QueuesSound'  BY <1>1, <2>0, <2>2 DEF Nested, QueuesSound
  <2>4. AbortSound'  BY <1>s, <2>0 DEF AbortSound
  <2>5. ASSUME NEW v \in Fibers PROVE ContextSound(v)'
    <3>1. /\ Preempted(v)' <=> Preempted(v)
          /\ ToEnter(v)' <=> ToEnter(v)
          /\ Ending(v)' <=> Ending(v)
      BY ONLY <2>0 DEF Preempted, ToEnter, Ending
    <3>2. \A u \in Fibers : Joins(u, v)' <=> Joins(u, v)  BY ONLY <2>0 DEF Joins
    <3>3. ContextSound(v)  BY <1>1
    <3> QED BY ONLY v \in Fibers, <2>0, <3>1, <3>2, <3>3, OthersSound
  <2> QED BY <2>1, <2>3, <2>4, <2>5 DEF ThreadsSound
<1>f. CASE context[t].promise # "spent"
  <2>0. /\ context' = [context EXCEPT ![t].at = "out", ![t].promise = "spent"] /\ current' = link[t]
        /\ waits' = waits + 1 /\ waitsFor' = waitsFor /\ link' = link /\ ready' = ready
        /\ preempted' = Append(preempted, t) /\ alarms' = alarms \union {t} /\ aborted' = aborted
    BY <1>f DEF Preempt
  <2>3. PICK r : r = [context[t] EXCEPT !.at = "out", !.promise = "spent"]  OBVIOUS
  <2>4. /\ r \in ContextStates /\ r.at = "out" /\ r.owner = context[t].owner /\ r.joiner = context[t].joiner
        /\ context' = [context EXCEPT ![t] = r]
    <3>1. r \in ContextStates /\ r.at = "out" /\ r.owner = context[t].owner /\ r.joiner = context[t].joiner
      BY ONLY <1>2, <2>3 DEF ContextStates
    <3>2. context' = [context EXCEPT ![t] = r]
      BY ONLY <2>0, <2>3, <1>1, t \in Fibers DEF ThreadTypes
    <3> QED BY <3>1, <3>2
  <2>5. /\ Nested' /\ current' \in Fibers \union {Main}
        /\ link' \in [Fibers -> Fibers \union {Main, Nobody}]
        /\ context' \in [Fibers -> ContextStates \union {NoFiber}]
        /\ context'[t] = r /\ r.owner # t /\ r.joiner # t
        /\ \A u \in Fibers : u # t => context'[u] = context[u]
        /\ \A u, v \in Fibers : Joins(u, v)' <=> Joins(u, v)
        /\ \A u \in Fibers : ~Joins(u, t)'
    BY ONLY ThreadsSound, t \in Fibers, current = t, <2>0, <2>4, GoesOut
  <2>6. /\ preempted' \in Seq(Fibers)
        /\ \A v, w : /\ Has(preempted', v) <=> Has(preempted, v) \/ v = t
                     /\ Ahead(preempted', v, w) <=> Ahead(preempted, v, w) \/ (Has(preempted, v) /\ w = t)
    <3>1. preempted \in Seq(Fibers)  BY <1>1 DEF ThreadTypes
    <3>2. Append(preempted, t) \in Seq(Fibers)  BY <3>1
    <3>3. \A v, w : /\ Has(Append(preempted, t), v) <=> Has(preempted, v) \/ v = t
                    /\ Ahead(Append(preempted, t), v, w) <=> Ahead(preempted, v, w) \/ (Has(preempted, v) /\ w = t)
      BY ONLY <3>1, t \in Fibers, HasAppend
    <3> QED BY ONLY <2>0, <3>2, <3>3
  <2>7. ThreadTypes'  BY <2>0, <1>1, <2>5, <2>6 DEF ThreadTypes
  <2>8. /\ QueuesSound'
        /\ \A v : /\ Preempted(v)' <=> Preempted(v) \/ v = t
                  /\ ToEnter(v)' <=> ToEnter(v)
                  /\ Ending(v)' <=> Ending(v)
    BY ONLY <2>0, <1>1, <1>2, <2>6 DEF QueuesSound, Preempted, ToEnter, Ending
  <2>9. AbortSound'  BY <2>0 DEF AbortSound
  <2>10. ContextSound(t)'
    <3>1. context'[t].at = "out" /\ context'[t].owner # t /\ context'[t].joiner # t
      BY ONLY <2>4, <2>5
    <3>2. ~Ending(t)' /\ (t \in alarms' <=> Preempted(t)') /\ t \notin waitsFor' /\ Preempted(t)' /\ ~ToEnter(t)'
      BY ONLY <2>0, <1>2, <2>8
    <3> QED BY ONLY t \in Fibers, <2>5, <3>1, <3>2, OutSound
  <2>11. ASSUME NEW v \in Fibers, v # t PROVE ContextSound(v)'
    <3>1. ContextSound(v) /\ context'[v] = context[v] /\ (v \in waitsFor' <=> v \in waitsFor) /\ (v \in alarms' <=> v \in alarms)
      BY <2>0, <1>1, <2>5, <2>11
    <3>2. (Preempted(v)' <=> Preempted(v)) /\ (ToEnter(v)' <=> ToEnter(v)) /\ (Ending(v)' => Ending(v))
      BY ONLY <2>8, <2>11
    <3> QED BY ONLY v \in Fibers, <2>5, <3>1, <3>2, OthersSound
  <2> QED BY <2>5, <2>7, <2>8, <2>9, <2>10, <2>11 DEF ThreadsSound
<1> QED BY <1>s, <1>f

(* What happens to no context leaves the way back and the joins.           *)
LEMMA ContextsKept ==
    ASSUME Nested, context' = context, current' = current, link' = link
    PROVE  Nested' /\ \A u, v : Joins(u, v)' <=> Joins(u, v)
<1>1. Entered' = Entered  BY DEF Entered
<1>2. Nested'  BY <1>1 DEF Nested
<1> QED BY <1>2 DEF Joins

(* One more task, about a thread that has none.                            *)
LEMMA ReadyAdded ==
    ASSUME ready \in Seq(ThreadTasks), TasksApart(ready), NEW t \in Fibers,
           NEW k \in {"enter", "later", "joined", "free"},
           ~ToEnter(t), ~Ending(t), ready' = Append(ready, <<k, t>>)
    PROVE  /\ ready' \in Seq(ThreadTasks) /\ TasksApart(ready')
           /\ \A v : /\ ToEnter(v)' <=> ToEnter(v) \/ (v = t /\ k \in {"enter", "later"})
                     /\ Ending(v)' <=> Ending(v) \/ (v = t /\ k \in {"joined", "free"})
<1>1. ~EnterIn(ready, t) /\ ~EndIn(ready, t)  BY DEF ToEnter, Ending
<1>2. \A v : /\ Append(ready, <<k, t>>) \in Seq(ThreadTasks) /\ TasksApart(Append(ready, <<k, t>>))
             /\ EnterIn(Append(ready, <<k, t>>), v) <=> EnterIn(ready, v) \/ (v = t /\ k \in {"enter", "later"})
             /\ EndIn(Append(ready, <<k, t>>), v) <=> EndIn(ready, v) \/ (v = t /\ k \in {"joined", "free"})
  BY <1>1, TaskAdded
<1>3. PICK r : r = Append(ready, <<k, t>>)  OBVIOUS
<1>4. ready' = r  BY <1>3
<1>5. \A v : /\ r \in Seq(ThreadTasks) /\ TasksApart(r)
             /\ EnterIn(r, v) <=> EnterIn(ready, v) \/ (v = t /\ k \in {"enter", "later"})
             /\ EndIn(r, v) <=> EndIn(ready, v) \/ (v = t /\ k \in {"joined", "free"})
  BY ONLY <1>2, <1>3
<1> QED BY ONLY <1>4, <1>5 DEF ToEnter, Ending

(* A thread that nothing enters, since it is not out.                      *)
LEMMA InSound ==
    ASSUME NEW t \in Fibers, context'[t].at # "out", context'[t].owner # t, context'[t].joiner # t,
           Ending(t)' => context'[t].at = "over" /\ context'[t].joiner = "async",
           t \notin alarms', t \notin waitsFor', ~Preempted(t)', ~ToEnter(t)',
           \A u \in Fibers : ~Joins(u, t)'
    PROVE  ContextSound(t)'
<1>1. ~Joining(t)'  BY DEF Joining
<1> QED BY <1>1 DEF ContextSound

(* A thread that is out, and what would enter it, taken away and replaced  *)
(* by a task.                                                              *)
LEMMA WokenSound ==
    ASSUME ThreadsSound, ~aborted, NEW t \in Fibers, t \in waitsFor \/ Preempted(t),
           context' = context, current' = current, link' = link, aborted' = aborted, waits' = waits,
           ready' = Append(ready, <<"enter", t>>), waitsFor' = waitsFor \ {t}, alarms' = alarms \ {t},
           preempted' \in Seq(Fibers), \A v : ~Ahead(preempted', v, v),
           \A v : Has(preempted', v) <=> Has(preempted, v) /\ v # t
    PROVE  ThreadsSound'
<1>1. /\ ThreadTypes /\ Nested /\ QueuesSound /\ AbortSound
      /\ \A v \in Fibers : ContextSound(v)
  BY DEF ThreadsSound
<1>2. /\ context[t].at = "out" /\ ~ToEnter(t) /\ ~Ending(t) /\ ~Joining(t)
      /\ context[t].owner # t /\ context[t].joiner # t
  <2>1. ContextSound(t)  BY <1>1
  <2>2. context[t].at = "out" /\ ~ToEnter(t) /\ ~Ending(t) /\ ~Joining(t)
    BY <2>1 DEF ContextSound
  <2>3. context[t] # NoFiber  BY <2>2 DEF NoFiber
  <2> QED BY <2>1, <2>2, <2>3 DEF ContextSound
<1>3. Nested' /\ \A u, v : Joins(u, v)' <=> Joins(u, v)  BY <1>1, ContextsKept
<1>4. /\ ready' \in Seq(ThreadTasks) /\ TasksApart(ready')
      /\ \A v : (ToEnter(v)' <=> ToEnter(v) \/ v = t) /\ (Ending(v)' <=> Ending(v))
  <2>1. PICK k : k = "enter"  OBVIOUS
  <2>2. ready \in Seq(ThreadTasks) /\ TasksApart(ready) /\ ready' = Append(ready, <<k, t>>)
    BY <1>1, <2>1 DEF ThreadTypes, QueuesSound
  <2>3. k \in {"enter", "later", "joined", "free"} /\ k \in {"enter", "later"} /\ k \notin {"joined", "free"}
    BY ONLY <2>1
  <2>4. /\ ready' \in Seq(ThreadTasks) /\ TasksApart(ready')
        /\ \A v : /\ ToEnter(v)' <=> ToEnter(v) \/ (v = t /\ k \in {"enter", "later"})
                  /\ Ending(v)' <=> Ending(v) \/ (v = t /\ k \in {"joined", "free"})
    BY ONLY t \in Fibers, <1>2, <2>2, <2>3, ReadyAdded
  <2> QED BY ONLY <2>3, <2>4
<1>5. ThreadTypes'  BY <1>1, <1>4 DEF ThreadTypes
<1>6. QueuesSound' /\ \A v : Preempted(v)' <=> Preempted(v) /\ v # t
  BY <1>4 DEF QueuesSound, Preempted
<1>7. AbortSound'  BY DEF AbortSound
<1>8. ContextSound(t)'
  <2>1. \A u \in Fibers : ~Joins(u, t)'  BY <1>2, <1>3 DEF Joining
  <2>2. context'[t].at = "out" /\ context'[t].owner # t /\ context'[t].joiner # t
    BY <1>2
  <2>3. ~Ending(t)' /\ (t \in alarms' <=> Preempted(t)') /\ t \notin waitsFor' /\ ~Preempted(t)' /\ ToEnter(t)'
    BY <1>2, <1>4, <1>6
  <2> QED BY ONLY t \in Fibers, <2>1, <2>2, <2>3, OutSound
<1>9. ASSUME NEW v \in Fibers, v # t PROVE ContextSound(v)'
  <2>1. ContextSound(v) /\ context'[v] = context[v] /\ (v \in waitsFor' <=> v \in waitsFor) /\ (v \in alarms' <=> v \in alarms)
    BY <1>1, <1>9
  <2>2. (Preempted(v)' <=> Preempted(v)) /\ (ToEnter(v)' <=> ToEnter(v)) /\ (Ending(v)' => Ending(v))
    BY ONLY <1>4, <1>6, <1>9
  <2> QED BY ONLY v \in Fibers, <1>3, <2>1, <2>2, OthersSound
<1> QED BY <1>3, <1>5, <1>6, <1>7, <1>8, <1>9 DEF ThreadsSound

(* The promise behind that future is set.                                  *)
LEMMA FulfilOfThread ==
    ASSUME ThreadsSound, ~aborted, NEW t \in Fibers, Fulfil(t)
    PROVE  ThreadsSound'
<1>0. /\ t \in waitsFor /\ waitsFor' = waitsFor \ {t} /\ ready' = Append(ready, <<"enter", t>>)
      /\ context' = context /\ current' = current /\ link' = link /\ preempted' = preempted
      /\ alarms' = alarms /\ waits' = waits /\ aborted' = aborted
  BY DEF Fulfil
<1>1. ThreadTypes /\ QueuesSound /\ ContextSound(t)  BY DEF ThreadsSound
<1>2. ~Preempted(t) /\ t \notin alarms  BY <1>0, <1>1 DEF ContextSound
<1>3. alarms' = alarms \ {t}  BY <1>0, <1>2
<1>4. /\ preempted' \in Seq(Fibers) /\ \A v : ~Ahead(preempted', v, v)
      /\ \A v : Has(preempted', v) <=> Has(preempted, v) /\ v # t
  BY <1>0, <1>1, <1>2 DEF ThreadTypes, QueuesSound, Preempted
<1> QED BY ONLY ThreadsSound, ~aborted, t \in Fibers, <1>0, <1>3, <1>4, WokenSound

(* The alarm of a thread that was preempted.                               *)
LEMMA RescheduleOfThread ==
    ASSUME ThreadsSound, ~aborted, NEW t \in Fibers, Reschedule(t)
    PROVE  ThreadsSound'
<1>0. /\ t \in alarms /\ alarms' = alarms \ {t} /\ ready' = Append(ready, <<"enter", t>>)
      /\ \E i \in DOMAIN preempted : preempted[i] = t /\ preempted' = WithoutPreempted(i)
      /\ context' = context /\ current' = current /\ link' = link
      /\ waitsFor' = waitsFor /\ waits' = waits /\ aborted' = aborted
  BY DEF Reschedule
<1>1. ThreadTypes /\ QueuesSound /\ ContextSound(t)  BY DEF ThreadsSound
<1>2. Preempted(t) /\ t \notin waitsFor  BY <1>0, <1>1 DEF ContextSound
<1>3. waitsFor' = waitsFor \ {t}  BY <1>0, <1>2
<1>4. PICK i \in DOMAIN preempted : preempted[i] = t /\ preempted' = WithoutPreempted(i)
  BY <1>0
<1>5. preempted \in Seq(Fibers) /\ \A v : ~Ahead(preempted, v, v)
  BY <1>1 DEF ThreadTypes, QueuesSound
<1>6. i \in 1 .. Len(preempted)  BY <1>5
<1>7. PICK s : s = SubSeq(preempted, 1, i - 1) \o SubSeq(preempted, i + 1, Len(preempted))
  OBVIOUS
<1>8. preempted' = s  BY <1>4, <1>7 DEF WithoutPreempted
<1>9. \A g, h : /\ s \in Seq(Fibers)
                /\ Ahead(s, g, h) => Ahead(preempted, g, h)
                /\ Has(s, g) <=> Has(preempted, g) /\ g # t
  <2>1. t = preempted[i] /\ ~Ahead(preempted, preempted[i], preempted[i]) /\ preempted \in Seq(Fibers)
    BY <1>4, <1>5
  <2>2. ASSUME NEW g, NEW h
        PROVE  /\ SubSeq(preempted, 1, i - 1) \o SubSeq(preempted, i + 1, Len(preempted)) \in Seq(Fibers)
               /\ Ahead(SubSeq(preempted, 1, i - 1) \o SubSeq(preempted, i + 1, Len(preempted)), g, h)
                      => Ahead(preempted, g, h)
               /\ Has(SubSeq(preempted, 1, i - 1) \o SubSeq(preempted, i + 1, Len(preempted)), g)
                      <=> Has(preempted, g) /\ g # preempted[i]
    BY ONLY <1>6, <2>1, HasWithout
  <2> QED BY ONLY <1>7, <2>1, <2>2
<1>10. /\ preempted' \in Seq(Fibers) /\ \A v : ~Ahead(preempted', v, v)
       /\ \A v : Has(preempted', v) <=> Has(preempted, v) /\ v # t
  BY ONLY <1>5, <1>8, <1>9
<1> QED BY ONLY ThreadsSound, ~aborted, t \in Fibers, <1>0, <1>2, <1>3, <1>10, WokenSound

(* The reactor has nothing else to do.                                     *)
LEMMA YieldedOfThread ==
    ASSUME ThreadsSound, ~aborted, TryRunOneYieldedThread
    PROVE  ThreadsSound'
<1>0. /\ preempted # <<>> /\ alarms' = alarms \ {Head(preempted)} /\ preempted' = Tail(preempted)
      /\ ready' = Append(ready, <<"enter", Head(preempted)>>)
      /\ context' = context /\ current' = current /\ link' = link
      /\ waitsFor' = waitsFor /\ waits' = waits /\ aborted' = aborted
  BY DEF TryRunOneYieldedThread
<1>1. ThreadTypes /\ QueuesSound /\ \A v \in Fibers : ContextSound(v)
  BY DEF ThreadsSound
<1>2. preempted \in Seq(Fibers) /\ \A v : ~Ahead(preempted, v, v)
  BY <1>1 DEF ThreadTypes, QueuesSound
<1>3. \A y, z : /\ Head(preempted) \in Fibers /\ Has(preempted, Head(preempted)) /\ Tail(preempted) \in Seq(Fibers)
                /\ Has(preempted, y) <=> y = Head(preempted) \/ Has(Tail(preempted), y)
                /\ Has(Tail(preempted), y) => Ahead(preempted, Head(preempted), y)
                /\ Ahead(Tail(preempted), y, z) => Ahead(preempted, y, z)
  BY ONLY <1>0, <1>2, HasTail
<1>4. PICK t : t = Head(preempted)  OBVIOUS
<1>5. /\ t \in Fibers /\ Has(preempted, t) /\ preempted' \in Seq(Fibers)
      /\ \A v : ~Ahead(preempted', v, v)
      /\ \A v : Has(preempted', v) <=> Has(preempted, v) /\ v # t
  BY ONLY <1>0, <1>2, <1>3, <1>4
<1>6. Preempted(t)  BY ONLY <1>5 DEF Preempted
<1>7. ContextSound(t)  BY <1>1, <1>5
<1>8. t \notin waitsFor  BY ONLY <1>6, <1>7 DEF ContextSound
<1>9. alarms' = alarms \ {t} /\ ready' = Append(ready, <<"enter", t>>) /\ waitsFor' = waitsFor \ {t}
  BY <1>0, <1>4, <1>8
<1> QED BY ONLY ThreadsSound, ~aborted, <1>0, <1>5, <1>6, <1>9, WokenSound

(* A thread is made and runs at once.                                      *)
LEMMA ConstructOfThread ==
    ASSUME ThreadsSound, ~aborted, NEW t \in Fibers, NEW kind \in {"async", "plain"}, Construct(t, kind)
    PROVE  ThreadsSound'
<1>1. PICK r : r = [at |-> "in", owner |-> current, promise |-> "fresh",
                    joiner |-> IF kind = "async" THEN "async" ELSE Nobody]
  OBVIOUS
<1>0. /\ context[t] = NoFiber /\ context' = [context EXCEPT ![t] = r]
      /\ link' = [link EXCEPT ![t] = current] /\ current' = t
      /\ ready' = ready /\ waitsFor' = waitsFor /\ preempted' = preempted /\ alarms' = alarms
      /\ waits' = waits /\ aborted' = aborted
  BY <1>1 DEF Construct
<1>2. /\ ThreadTypes /\ Nested /\ QueuesSound /\ AbortSound
      /\ \A v \in Fibers : ContextSound(v)
  BY DEF ThreadsSound
<1>3. /\ r \in ContextStates /\ r.at = "in" /\ r.owner = current /\ r.joiner \in {"async", Nobody}
  <2>1. current \in Fibers \union {Main}  BY <1>2 DEF ThreadTypes
  <2> QED BY <1>1, <2>1 DEF ContextStates
<1>4. context[t].at = "none"  BY ONLY <1>0 DEF NoFiber
<1>5. /\ Nested' /\ current' \in Fibers \union {Main} /\ current # t
      /\ link' \in [Fibers -> Fibers \union {Main, Nobody}]
      /\ context' \in [Fibers -> ContextStates \union {NoFiber}]
      /\ context'[t] = r
      /\ \A u \in Fibers : u # t => context'[u] = context[u]
  <2>1. Enters(t, r)  BY <1>0, <1>3, <1>4 DEF Enters
  <2> QED BY ONLY <1>2, t \in Fibers, <2>1, EntersNest
<1>6. r.joiner \notin Fibers  BY <1>3, NamesApart
<1>7. \A u, v \in Fibers : Joins(u, v)' <=> Joins(u, v)
  BY ONLY <1>4, <1>5, <1>6 DEF Joins
<1>8. \A v : (Preempted(v)' <=> Preempted(v)) /\ (ToEnter(v)' <=> ToEnter(v)) /\ (Ending(v)' <=> Ending(v))
  BY ONLY <1>0 DEF Preempted, ToEnter, Ending
<1>9. ThreadTypes'  BY <1>0, <1>2, <1>5 DEF ThreadTypes
<1>10. QueuesSound' /\ AbortSound'  BY <1>0, <1>2 DEF QueuesSound, AbortSound
<1>11. ContextSound(t)'
  <2>1. ContextSound(t)  BY <1>2
  <2>2. /\ t \notin waitsFor /\ ~Preempted(t) /\ ~ToEnter(t) /\ ~Ending(t) /\ ~Joining(t) /\ t \notin alarms
    BY ONLY <1>4, <2>1 DEF ContextSound
  <2>3. \A u \in Fibers : ~Joins(u, t)'  BY <1>7, <2>2 DEF Joining
  <2>4. context'[t].at # "out" /\ context'[t].owner # t /\ context'[t].joiner # t
    BY ONLY <1>3, <1>5, <1>6, t \in Fibers
  <2>5. t \notin alarms' /\ t \notin waitsFor' /\ ~Preempted(t)' /\ ~ToEnter(t)' /\ ~Ending(t)'
    BY ONLY <1>0, <1>8, <2>2
  <2> QED BY ONLY t \in Fibers, <2>3, <2>4, <2>5, InSound
<1>12. ASSUME NEW v \in Fibers, v # t PROVE ContextSound(v)'
  <2>1. ContextSound(v) /\ context'[v] = context[v] /\ (v \in waitsFor' <=> v \in waitsFor) /\ (v \in alarms' <=> v \in alarms)
    BY <1>0, <1>2, <1>5, <1>12
  <2> QED BY ONLY v \in Fibers, <1>7, <1>8, <2>1, OthersSound
<1> QED BY <1>5, <1>9, <1>10, <1>11, <1>12 DEF ThreadsSound

(* The context of a thread that is over is freed.                          *)
LEMMA FreedOf ==
    ASSUME ThreadTypes, Nested, NEW t \in Fibers, context[t].at = "over",
           context' = [context EXCEPT ![t].at = "freed"], current' = current, link' = link
    PROVE  /\ Nested' /\ context' \in [Fibers -> ContextStates \union {NoFiber}]
           /\ context'[t].at = "freed" /\ context'[t].owner = context[t].owner
           /\ context'[t].joiner = context[t].joiner
           /\ \A u \in Fibers : u # t => context'[u] = context[u]
           /\ \A u, v \in Fibers : Joins(u, v)' <=> Joins(u, v)
<1>1. context[t] \in ContextStates  BY ContextIs
<1>2. PICK r : r = [context[t] EXCEPT !.at = "freed"]  OBVIOUS
<1>3. /\ r \in ContextStates /\ r.at = "freed" /\ r.owner = context[t].owner /\ r.joiner = context[t].joiner
  BY ONLY <1>1, <1>2 DEF ContextStates
<1>4. context' = [context EXCEPT ![t] = r]  BY <1>2
<1>5. /\ context' \in [Fibers -> ContextStates \union {NoFiber}]
      /\ context'[t] = r
      /\ \A u \in Fibers : u # t => context'[u] = context[u]
  BY ONLY ThreadTypes, t \in Fibers, <1>3, <1>4, ContextChanged
<1>6. Entered' = Entered  BY <1>3, <1>5 DEF Entered
<1>7. Nested'  BY <1>6 DEF Nested
<1>8. \A u, v \in Fibers : Joins(u, v)' <=> Joins(u, v)  BY <1>3, <1>5 DEF Joins
<1> QED BY ONLY <1>3, <1>5, <1>7, <1>8

(* The owner destroys a thread that it joined.                             *)
LEMMA DestroyOfThread ==
    ASSUME ThreadsSound, ~aborted, NEW u \in Fibers, NEW t \in Fibers, DestroyThread(u, t)
    PROVE  ThreadsSound'
<1>0. /\ current = u /\ context[t] # NoFiber /\ context[t].at # "freed" /\ context[t].joiner = u
      /\ context' = [context EXCEPT ![t].at = "freed"]
      /\ current' = current /\ link' = link
      /\ ready' = ready /\ waitsFor' = waitsFor /\ preempted' = preempted /\ alarms' = alarms
      /\ waits' = waits /\ aborted' = aborted
  BY DEF DestroyThread
<1>2. /\ ThreadTypes /\ Nested /\ QueuesSound /\ AbortSound
      /\ \A v \in Fibers : ContextSound(v)
  BY DEF ThreadsSound
<1>3. context[t].at = "over"
  <2>1. ~Joining(u)  BY <1>0, CurrentIsIn
  <2>2. context[t].at \notin {"in", "out"}  BY <1>0, <2>1 DEF Joining, Joins
  <2>3. context[t].at \in {"in", "out", "over", "freed"}  BY <1>0, <1>2, ContextIs
  <2> QED BY <1>0, <2>2, <2>3
<1>5. /\ Nested' /\ context' \in [Fibers -> ContextStates \union {NoFiber}]
      /\ context'[t].at = "freed" /\ context'[t].owner = context[t].owner
      /\ context'[t].joiner = context[t].joiner
      /\ \A v \in Fibers : v # t => context'[v] = context[v]
      /\ \A v, w \in Fibers : Joins(v, w)' <=> Joins(v, w)
  BY ONLY <1>0, <1>2, <1>3, t \in Fibers, FreedOf
<1>8. \A v : (Preempted(v)' <=> Preempted(v)) /\ (ToEnter(v)' <=> ToEnter(v)) /\ (Ending(v)' <=> Ending(v))
  BY ONLY <1>0 DEF Preempted, ToEnter, Ending
<1>9. ThreadTypes'  BY <1>0, <1>2, <1>5 DEF ThreadTypes
<1>10. QueuesSound' /\ AbortSound'  BY <1>0, <1>2 DEF QueuesSound, AbortSound
<1>11. ContextSound(t)'
  <2>1. ContextSound(t) /\ context[t].joiner # "async"  BY <1>0, <1>2, NamesApart
  <2>2. /\ t \notin waitsFor /\ ~Preempted(t) /\ ~ToEnter(t) /\ ~Ending(t) /\ ~Joining(t) /\ t \notin alarms
        /\ context[t].owner # t /\ context[t].joiner # t
    BY ONLY <1>0, <1>3, <2>1 DEF ContextSound
  <2>3. \A v \in Fibers : ~Joins(v, t)'  BY <1>5, <2>2 DEF Joining
  <2>4. context'[t].at # "out" /\ context'[t].owner # t /\ context'[t].joiner # t
    BY ONLY <1>5, <2>2
  <2>5. t \notin alarms' /\ t \notin waitsFor' /\ ~Preempted(t)' /\ ~ToEnter(t)' /\ ~Ending(t)'
    BY ONLY <1>0, <1>8, <2>2
  <2> QED BY ONLY t \in Fibers, <2>3, <2>4, <2>5, InSound
<1>12. ASSUME NEW v \in Fibers, v # t PROVE ContextSound(v)'
  <2>1. ContextSound(v) /\ context'[v] = context[v] /\ (v \in waitsFor' <=> v \in waitsFor) /\ (v \in alarms' <=> v \in alarms)
    BY <1>0, <1>2, <1>5, <1>12
  <2> QED BY ONLY v \in Fibers, <1>5, <1>8, <2>1, OthersSound
<1> QED BY <1>5, <1>9, <1>10, <1>11, <1>12 DEF ThreadsSound

(* join() of a thread that is over by one that goes on                     *)
LEMMA JoinOfEnded ==
    ASSUME ThreadsSound, ~aborted, NEW u \in Fibers, NEW t \in Fibers, Join(u, t), context[t].at = "over"
    PROVE  ThreadsSound'
<1>0. /\ current = u /\ context[t] # NoFiber /\ context[t].at = "over"
      /\ context[t].owner = u /\ context[t].joiner = Nobody
      /\ context' = [context EXCEPT ![t].joiner = u] /\ current' = current
      /\ ready' = ready /\ link' = link /\ waitsFor' = waitsFor /\ preempted' = preempted
      /\ alarms' = alarms /\ waits' = waits /\ aborted' = aborted
  BY DEF Join
<1>1. /\ ThreadTypes /\ Nested /\ QueuesSound /\ AbortSound
      /\ \A v \in Fibers : ContextSound(v)
  BY DEF ThreadsSound
<1>2. /\ context[u].at = "in" /\ t # u /\ context[t] \in ContextStates
  BY <1>0, <1>1, CurrentIsIn, ContextIs
<1>3. /\ context' \in [Fibers -> ContextStates \union {NoFiber}]
      /\ context'[t].at = "over" /\ context'[t].owner = u /\ context'[t].joiner = u
      /\ \A v \in Fibers : v # t => context'[v] = context[v]
  <2>1. PICK r : r = [context[t] EXCEPT !.joiner = u]  OBVIOUS
  <2>2. r \in ContextStates /\ r.at = "over" /\ r.owner = u /\ r.joiner = u
    BY ONLY <1>0, <1>2, <2>1, u \in Fibers DEF ContextStates
  <2>3. context' = [context EXCEPT ![t] = r]  BY ONLY <1>0, <2>1
  <2> QED BY ONLY <1>1, <2>2, <2>3, t \in Fibers, ContextChanged
<1>4. Nested' /\ \A v, w \in Fibers : Joins(v, w)' <=> Joins(v, w)
  <2>1. Entered' = Entered  BY <1>0, <1>3 DEF Entered
  <2>2. Nested'  BY <1>0, <1>1, <2>1 DEF Nested
  <2>3. \A v, w \in Fibers : Joins(v, w)' <=> Joins(v, w)  BY <1>0, <1>3 DEF Joins
  <2> QED BY <2>2, <2>3
<1>5. \A v : (Preempted(v)' <=> Preempted(v)) /\ (ToEnter(v)' <=> ToEnter(v)) /\ (Ending(v)' <=> Ending(v))
  BY ONLY <1>0 DEF Preempted, ToEnter, Ending
<1>6. ThreadTypes'  BY <1>0, <1>1, <1>3 DEF ThreadTypes
<1>7. QueuesSound' /\ AbortSound'  BY <1>0, <1>1 DEF QueuesSound, AbortSound
<1>8. ContextSound(t)'
  <2>1. ContextSound(t) /\ context[t].joiner # "async"  BY <1>0, <1>1, NamesApart DEF Nobody
  <2>2. /\ t \notin waitsFor /\ ~Preempted(t) /\ ~ToEnter(t) /\ ~Ending(t) /\ ~Joining(t) /\ t \notin alarms
    BY ONLY <1>0, <2>1 DEF ContextSound
  <2>3. \A v \in Fibers : ~Joins(v, t)'  BY <1>4, <2>2 DEF Joining
  <2>4. context'[t].at # "out" /\ context'[t].owner # t /\ context'[t].joiner # t
    BY ONLY <1>2, <1>3
  <2>5. t \notin alarms' /\ t \notin waitsFor' /\ ~Preempted(t)' /\ ~ToEnter(t)' /\ ~Ending(t)'
    BY ONLY <1>0, <1>5, <2>2
  <2> QED BY ONLY t \in Fibers, <2>3, <2>4, <2>5, InSound
<1>9. ASSUME NEW v \in Fibers, v # t PROVE ContextSound(v)'
  <2>1. ContextSound(v) /\ context'[v] = context[v] /\ (v \in waitsFor' <=> v \in waitsFor) /\ (v \in alarms' <=> v \in alarms)
    BY <1>0, <1>1, <1>3, <1>9
  <2> QED BY ONLY v \in Fibers, <1>4, <1>5, <2>1, OthersSound
<1> QED BY <1>4, <1>6, <1>7, <1>8, <1>9 DEF ThreadsSound

(* join() of one thread by another that waits for it                       *)
LEMMA JoinOfThread ==
    ASSUME ThreadsSound, ~aborted, NEW u \in Fibers, NEW t \in Fibers, Join(u, t), context[t].at # "over"
    PROVE  ThreadsSound'
<1>0. /\ current = u /\ context[t] # NoFiber /\ context[t].at # "freed"
      /\ context[t].owner = u /\ context[t].joiner = Nobody
      /\ context' = [context EXCEPT ![t].joiner = u, ![u].at = "out"]
      /\ current' = link[u]
      /\ context[t].at # "over" /\ ready' = ready
      /\ link' = link /\ waitsFor' = waitsFor /\ preempted' = preempted /\ alarms' = alarms
      /\ waits' = waits /\ aborted' = aborted
  BY DEF Join
<1>1. /\ ThreadTypes /\ Nested /\ QueuesSound /\ AbortSound
      /\ \A v \in Fibers : ContextSound(v)
  BY DEF ThreadsSound
<1>2. /\ context[u].at = "in" /\ context[u] \in ContextStates
      /\ u \notin waitsFor /\ u \notin alarms /\ ~Preempted(u) /\ ~ToEnter(u) /\ ~Ending(u) /\ ~Joining(u)
      /\ context[u].owner # u /\ context[u].joiner # u
  BY <1>0, CurrentIsIn
<1>3. t # u /\ context[t] \in ContextStates /\ context[t].at \in {"in", "out", "over"}
  BY <1>0, <1>1, <1>2, ContextIs
<1>4. /\ context' \in [Fibers -> ContextStates \union {NoFiber}]
      /\ context'[u].at = "out" /\ context'[u].owner = context[u].owner /\ context'[u].joiner = context[u].joiner
      /\ context'[t].at = context[t].at /\ context'[t].owner = u /\ context'[t].joiner = u
      /\ context'[t] # NoFiber
      /\ \A v \in Fibers : v # t /\ v # u => context'[v] = context[v]
  <2>1. PICK r, q : r = [context[u] EXCEPT !.at = "out"] /\ q = [context[t] EXCEPT !.joiner = u]
    OBVIOUS
  <2>2. /\ r \in ContextStates /\ r.at = "out" /\ r.owner = context[u].owner /\ r.joiner = context[u].joiner
        /\ q \in ContextStates /\ q.at = context[t].at /\ q.owner = u /\ q.joiner = u
    BY ONLY <1>0, <1>2, <1>3, <2>1, u \in Fibers DEF ContextStates
  <2>3. context \in [Fibers -> ContextStates \union {NoFiber}]
    BY <1>1 DEF ThreadTypes
  <2>4. /\ context' \in [Fibers -> ContextStates \union {NoFiber}]
        /\ context'[u] = r /\ context'[t] = q
        /\ \A v \in Fibers : v # t /\ v # u => context'[v] = context[v]
    BY ONLY <1>0, <1>3, <2>1, <2>2, <2>3, u \in Fibers, t \in Fibers
  <2>5. q # NoFiber  BY ONLY <1>3, <2>2 DEF NoFiber
  <2> QED BY ONLY <2>2, <2>4, <2>5
<1>5. Nested' /\ current' \in Fibers \union {Main}
  <2>1. Entered \in SUBSET Fibers /\ Nest(Entered, link, u)
    BY <1>0, <1>1 DEF Entered, Nested
  <2>2. u \in Entered /\ link[u] \in (Entered \ {u}) \union {Main} /\ Nest(Entered \ {u}, link, link[u])
    BY ONLY <2>1, u \in Fibers, NestLeft
  <2>3. Entered' = Entered \ {u}  BY <1>3, <1>4 DEF Entered
  <2> QED BY ONLY <1>0, <2>1, <2>2, <2>3 DEF Nested
<1>6. \A v : Preempted(v)' <=> Preempted(v)  BY ONLY <1>0 DEF Preempted
<1>7. AbortSound'  BY <1>0 DEF AbortSound
<1>8. Nobody \notin Fibers /\ Nobody # "async"  BY NamesApart DEF Nobody
<1>9. ~Ending(t) /\ ContextSound(t)
  BY ONLY <1>0, <1>1, <1>8, t \in Fibers DEF ContextSound
<1>f. context[t].at # "over"  BY <1>0
<1>11. ready' = ready /\ \A v : (ToEnter(v)' <=> ToEnter(v)) /\ (Ending(v)' <=> Ending(v))
  BY <1>0, <1>f DEF ToEnter, Ending
<1>12. \A v, w \in Fibers : Joins(v, w)' <=> Joins(v, w) \/ (v = t /\ w = u)
  BY ONLY <1>0, <1>2, <1>3, <1>4, <1>8, <1>f DEF Joins
<1>13. ThreadTypes' /\ QueuesSound'
  BY <1>0, <1>1, <1>4, <1>5, <1>11 DEF ThreadTypes, QueuesSound
<1>14. ContextSound(u)'
  <2>1. \A v \in Fibers : Joins(v, u)' <=> v = t  BY <1>2, <1>12 DEF Joining
  <2>2. Joining(u)'  BY <2>1 DEF Joining
  <2>3. context'[u].at = "out" /\ context'[u].owner # u /\ context'[u].joiner # u
    BY ONLY <1>2, <1>4
  <2>4. ~Ending(u)' /\ (u \in alarms' <=> Preempted(u)') /\ u \notin waitsFor' /\ ~Preempted(u)' /\ ~ToEnter(u)'
    BY ONLY <1>0, <1>2, <1>6, <1>11
  <2> QED BY ONLY <2>1, <2>2, <2>3, <2>4 DEF ContextSound
<1>15. ContextSound(t)'
  <2>1. \A v \in Fibers : Joins(v, t)' <=> Joins(v, t)  BY <1>3, <1>12
  <2>2. Joining(t)' <=> Joining(t)  BY <2>1 DEF Joining
  <2>3. context'[t].at = context[t].at /\ context'[t].owner # t /\ context'[t].joiner # t
    BY ONLY <1>3, <1>4
  <2>4. (t \in waitsFor' <=> t \in waitsFor) /\ (t \in alarms' <=> t \in alarms)
    BY ONLY <1>0
  <2> QED BY ONLY <1>6, <1>9, <1>11, <2>1, <2>2, <2>3, <2>4 DEF ContextSound
<1>16. ASSUME NEW v \in Fibers, v # t, v # u PROVE ContextSound(v)'
  <2>1. ContextSound(v) /\ context'[v] = context[v] /\ (v \in waitsFor' <=> v \in waitsFor) /\ (v \in alarms' <=> v \in alarms)
    BY <1>0, <1>1, <1>4, <1>16
  <2>2. (Preempted(v)' <=> Preempted(v)) /\ (ToEnter(v)' <=> ToEnter(v)) /\ (Ending(v)' => Ending(v))
    BY ONLY <1>6, <1>11, <1>16
  <2>3. \A w \in Fibers : Joins(w, v)' <=> Joins(w, v)  BY <1>12, <1>16
  <2> QED BY ONLY v \in Fibers, <2>1, <2>2, <2>3, OthersSound
<1> QED BY <1>5, <1>7, <1>13, <1>14, <1>15, <1>16 DEF ThreadsSound

(* main() of a context ends, and who joins it is told.                     *)
LEMMA EndOfThread ==
    ASSUME ThreadsSound, ~aborted, NEW t \in Fibers, FinalSwitchOut(t)
    PROVE  ThreadsSound'
<1>j. PICK j : j = context[t].joiner  OBVIOUS
<1>0. /\ current = t /\ context' = [context EXCEPT ![t].at = "over"] /\ current' = link[t]
      /\ j = Nobody => ready' = ready
      /\ j # Nobody /\ j = "async" => ready' = Append(ready, <<"joined", t>>)
      /\ j # Nobody /\ j # "async" => ready' = Append(ready, <<"enter", j>>)
      /\ link' = link /\ waitsFor' = waitsFor /\ preempted' = preempted /\ alarms' = alarms
      /\ waits' = waits /\ aborted' = aborted
  <2>1. /\ current = t /\ context' = [context EXCEPT ![t].at = "over"] /\ current' = link[t]
        /\ link' = link /\ waitsFor' = waitsFor /\ preempted' = preempted /\ alarms' = alarms
        /\ waits' = waits /\ aborted' = aborted
    BY DEF FinalSwitchOut
  <2>2. ready' = CASE j = Nobody -> ready
                   [] j = "async" -> Append(ready, <<"joined", t>>)
                   [] OTHER -> Append(ready, <<"enter", j>>)
    BY ONLY FinalSwitchOut(t), <1>j DEF FinalSwitchOut
  <2>3. j = Nobody => j # "async"  BY NamesApart DEF Nobody
  <2>4. /\ j = Nobody => ready' = ready
        /\ j # Nobody /\ j = "async" => ready' = Append(ready, <<"joined", t>>)
        /\ j # Nobody /\ j # "async" => ready' = Append(ready, <<"enter", j>>)
    BY ONLY <2>2, <2>3
  <2> QED BY ONLY <2>1, <2>4
<1>1. /\ ThreadTypes /\ Nested /\ QueuesSound /\ AbortSound
      /\ \A v \in Fibers : ContextSound(v)
      /\ ready \in Seq(ThreadTasks) /\ TasksApart(ready)
  BY DEF ThreadsSound, ThreadTypes, QueuesSound
<1>2. /\ context[t].at = "in" /\ context[t] \in ContextStates
      /\ t \notin waitsFor /\ t \notin alarms /\ ~Preempted(t) /\ ~ToEnter(t) /\ ~Ending(t) /\ ~Joining(t)
      /\ context[t].owner # t /\ j # t
  BY <1>0, <1>j, CurrentIsIn
<1>3. PICK r : r = [context[t] EXCEPT !.at = "over"]  OBVIOUS
<1>4. /\ r \in ContextStates /\ r.at = "over" /\ r.owner = context[t].owner /\ r.joiner = j
      /\ context' = [context EXCEPT ![t] = r] /\ j \in Fibers \union {Nobody, "async"}
  BY ONLY <1>0, <1>2, <1>3, <1>j DEF ContextStates
<1>5. /\ Nested' /\ current' \in Fibers \union {Main}
      /\ link' \in [Fibers -> Fibers \union {Main, Nobody}]
      /\ context' \in [Fibers -> ContextStates \union {NoFiber}]
      /\ context'[t] = r
      /\ \A u \in Fibers : u # t => context'[u] = context[u]
  <2>1. Leaves(t, r)  BY ONLY <1>0, <1>4 DEF Leaves
  <2> QED BY ONLY <1>1, <2>1, t \in Fibers, LeavesNest
<1>6. \A u, v \in Fibers : Joins(u, v)' <=> Joins(u, v) /\ u # t
  BY ONLY <1>4, <1>5 DEF Joins
<1>7. \A v \in Fibers : Joins(t, v) <=> v = j  BY ONLY <1>2, <1>j DEF Joins
<1>8. \A v : Preempted(v)' <=> Preempted(v)  BY ONLY <1>0 DEF Preempted
<1>9. AbortSound'  BY <1>0 DEF AbortSound
<1>10. /\ context'[t].at = "over" /\ context'[t].owner # t /\ context'[t].joiner = j
       /\ t \notin alarms' /\ t \notin waitsFor' /\ ~Preempted(t)'
       /\ \A u \in Fibers : ~Joins(u, t)'
  <2>1. \A u \in Fibers : ~Joins(u, t)'  BY <1>2, <1>6 DEF Joining
  <2> QED BY ONLY <1>0, <1>2, <1>4, <1>5, <1>8, <2>1
<1>11. Nobody \notin Fibers /\ "async" \notin Fibers  BY NamesApart
<1>12. ASSUME NEW v \in Fibers, v # t, v # j, ToEnter(v)' <=> ToEnter(v), Ending(v)' => Ending(v)
       PROVE  ContextSound(v)'
  <2>1. ContextSound(v) /\ context'[v] = context[v] /\ (v \in waitsFor' <=> v \in waitsFor) /\ (v \in alarms' <=> v \in alarms)
    BY <1>0, <1>1, <1>5, <1>12
  <2>2. \A u \in Fibers : Joins(u, v)' <=> Joins(u, v)  BY <1>6, <1>7, <1>12
  <2> QED BY ONLY v \in Fibers, <1>8, <1>12, <2>1, <2>2, OthersSound
<1>n. CASE j = Nobody
  <2>1. ready' = ready /\ \A v : (ToEnter(v)' <=> ToEnter(v)) /\ (Ending(v)' <=> Ending(v))
    BY <1>0, <1>n DEF ToEnter, Ending
  <2>2. ThreadTypes' /\ QueuesSound'
    BY <1>0, <1>1, <1>5, <2>1 DEF ThreadTypes, QueuesSound
  <2>3. ContextSound(t)'
    <3>1. context'[t].at # "out" /\ context'[t].joiner # t /\ ~ToEnter(t)' /\ ~Ending(t)'
      BY ONLY <1>2, <1>10, <2>1
    <3> QED BY ONLY t \in Fibers, <1>10, <3>1, InSound
  <2>4. ASSUME NEW v \in Fibers, v # t PROVE ContextSound(v)'
    BY <1>11, <1>12, <1>n, <2>1, <2>4
  <2> QED BY <1>5, <1>9, <2>2, <2>3, <2>4 DEF ThreadsSound
<1>a. CASE j = "async"
  <2>1. /\ ready' \in Seq(ThreadTasks) /\ TasksApart(ready')
        /\ \A v : (ToEnter(v)' <=> ToEnter(v)) /\ (Ending(v)' <=> Ending(v) \/ v = t)
    <3>1. PICK k : k = "joined"  OBVIOUS
    <3>0. j # Nobody  BY <1>a, NamesApart DEF Nobody
    <3>2. ready' = Append(ready, <<k, t>>)  BY ONLY <1>0, <1>a, <3>0, <3>1
    <3>3. k \in {"enter", "later", "joined", "free"} /\ k \notin {"enter", "later"} /\ k \in {"joined", "free"}
      BY ONLY <3>1
    <3>4. /\ ready' \in Seq(ThreadTasks) /\ TasksApart(ready')
          /\ \A v : /\ ToEnter(v)' <=> ToEnter(v) \/ (v = t /\ k \in {"enter", "later"})
                    /\ Ending(v)' <=> Ending(v) \/ (v = t /\ k \in {"joined", "free"})
      BY ONLY t \in Fibers, <1>1, <1>2, <3>2, <3>3, ReadyAdded
    <3> QED BY ONLY <3>3, <3>4
  <2>2. ThreadTypes' /\ QueuesSound'
    BY <1>0, <1>1, <1>5, <2>1 DEF ThreadTypes, QueuesSound
  <2>3. ContextSound(t)'
    <3>1. /\ context'[t].at # "out" /\ context'[t].joiner # t /\ ~ToEnter(t)'
          /\ context'[t].at = "over" /\ context'[t].joiner = "async"
      BY ONLY <1>2, <1>10, <1>a, <2>1
    <3> QED BY ONLY t \in Fibers, <1>10, <3>1, InSound
  <2>4. ASSUME NEW v \in Fibers, v # t PROVE ContextSound(v)'
    BY <1>11, <1>12, <1>a, <2>1, <2>4
  <2> QED BY <1>5, <1>9, <2>2, <2>3, <2>4 DEF ThreadsSound
<1>f. CASE j \in Fibers
  <2>0. /\ context[j].at = "out" /\ j \notin waitsFor /\ ~Preempted(j) /\ ~ToEnter(j) /\ ~Ending(j)
        /\ context[j].owner # j /\ context[j].joiner # j /\ j \notin alarms
        /\ \A u \in Fibers : Joins(u, j) => u = t
    <3>1. ContextSound(j) /\ Joins(t, j)  BY <1>1, <1>7, <1>f
    <3>2. Joining(j)  BY <3>1 DEF Joining
    <3>3. context[j].at = "out" /\ j \notin waitsFor /\ ~Preempted(j) /\ ~ToEnter(j) /\ j \notin alarms
      BY ONLY <3>1, <3>2 DEF ContextSound
    <3>4. ~Ending(j)  BY ONLY <3>1, <3>3 DEF ContextSound
    <3>5. context[j] # NoFiber  BY ONLY <3>3 DEF NoFiber
    <3>6. context[j].owner # j /\ context[j].joiner # j
      BY ONLY <3>1, <3>5 DEF ContextSound
    <3>7. \A u \in Fibers : Joins(u, j) => u = t
      BY ONLY <3>1, t \in Fibers DEF ContextSound
    <3> QED BY ONLY <3>3, <3>4, <3>6, <3>7
  <2>1. /\ ready' \in Seq(ThreadTasks) /\ TasksApart(ready')
        /\ \A v : (ToEnter(v)' <=> ToEnter(v) \/ v = j) /\ (Ending(v)' <=> Ending(v))
    <3>1. PICK k : k = "enter"  OBVIOUS
    <3>0. j # Nobody /\ j # "async"  BY <1>11, <1>f
    <3>2. ready' = Append(ready, <<k, j>>)  BY ONLY <1>0, <3>0, <3>1
    <3>3. k \in {"enter", "later", "joined", "free"} /\ k \in {"enter", "later"} /\ k \notin {"joined", "free"}
      BY ONLY <3>1
    <3>4. /\ ready' \in Seq(ThreadTasks) /\ TasksApart(ready')
          /\ \A v : /\ ToEnter(v)' <=> ToEnter(v) \/ (v = j /\ k \in {"enter", "later"})
                    /\ Ending(v)' <=> Ending(v) \/ (v = j /\ k \in {"joined", "free"})
      BY ONLY <1>f, <1>1, <2>0, <3>2, <3>3, ReadyAdded
    <3> QED BY ONLY <3>3, <3>4
  <2>2. ThreadTypes' /\ QueuesSound'
    BY <1>0, <1>1, <1>5, <2>1 DEF ThreadTypes, QueuesSound
  <2>3. ContextSound(t)'
    <3>1. context'[t].at # "out" /\ context'[t].joiner # t /\ ~ToEnter(t)' /\ ~Ending(t)'
      BY ONLY <1>2, <1>10, <2>1
    <3> QED BY ONLY t \in Fibers, <1>10, <3>1, InSound
  <2>4. ContextSound(j)'
    <3>1. \A u \in Fibers : ~Joins(u, j)'  BY <1>6, <1>f, <2>0
    <3>2. context'[j].at = "out" /\ context'[j].owner # j /\ context'[j].joiner # j
      BY ONLY <1>2, <1>5, <1>f, <2>0
    <3>3. ~Ending(j)' /\ (j \in alarms' <=> Preempted(j)') /\ j \notin waitsFor' /\ ~Preempted(j)' /\ ToEnter(j)'
      BY ONLY <1>0, <1>8, <2>0, <2>1
    <3> QED BY ONLY <1>f, <3>1, <3>2, <3>3, OutSound
  <2>5. ASSUME NEW v \in Fibers, v # t, v # j PROVE ContextSound(v)'
    BY <1>12, <2>1, <2>5
  <2> QED BY <1>5, <1>9, <2>2, <2>3, <2>4, <2>5 DEF ThreadsSound
<1> QED BY <1>4, <1>n, <1>a, <1>f

(* The task in front is taken.                                             *)
LEMMA FrontTask ==
    ASSUME ready \in Seq(ThreadTasks), TasksApart(ready), ready # <<>>
    PROVE  \E k \in {"enter", "later", "joined", "free"}, t \in Fibers, s \in Seq(ThreadTasks) :
              /\ k = Head(ready)[1] /\ t = Head(ready)[2] /\ s = Tail(ready)
              /\ TasksApart(s) /\ ~EnterIn(s, t) /\ ~EndIn(s, t)
              /\ k \in {"enter", "later"} => ToEnter(t)
              /\ k \in {"joined", "free"} => Ending(t)
              /\ \A v : v # t => (EnterIn(s, v) <=> ToEnter(v)) /\ (EndIn(s, v) <=> Ending(v))
<1>1. PICK k, t, s : k = Head(ready)[1] /\ t = Head(ready)[2] /\ s = Tail(ready)
  OBVIOUS
<1>2. \A v : /\ k \in {"enter", "later", "joined", "free"} /\ t \in Fibers
             /\ Tail(ready) \in Seq(ThreadTasks) /\ TasksApart(Tail(ready))
             /\ ~EnterIn(Tail(ready), t) /\ ~EndIn(Tail(ready), t)
             /\ k \in {"enter", "later"} => EnterIn(ready, t)
             /\ k \in {"joined", "free"} => EndIn(ready, t)
             /\ v # t => (EnterIn(Tail(ready), v) <=> EnterIn(ready, v)) /\ (EndIn(Tail(ready), v) <=> EndIn(ready, v))
  BY <1>1, TaskTaken
<1>3. /\ k \in {"enter", "later", "joined", "free"} /\ t \in Fibers /\ s \in Seq(ThreadTasks)
      /\ TasksApart(s) /\ ~EnterIn(s, t) /\ ~EndIn(s, t)
      /\ k \in {"enter", "later"} => ToEnter(t)
      /\ k \in {"joined", "free"} => Ending(t)
      /\ \A v : v # t => (EnterIn(s, v) <=> ToEnter(v)) /\ (EndIn(s, v) <=> Ending(v))
  BY ONLY <1>1, <1>2 DEF ToEnter, Ending
<1> QED BY ONLY <1>1, <1>3

(* The task in front enters its thread.                                    *)
LEMMA EnterTask ==
    ASSUME ThreadsSound, ~aborted, NEW t \in Fibers, NEW s \in Seq(ThreadTasks), TasksApart(s),
           ~EnterIn(s, t), ~EndIn(s, t), ToEnter(t),
           \A v : v # t => (EnterIn(s, v) <=> ToEnter(v)) /\ (EndIn(s, v) <=> Ending(v)),
           context' = [context EXCEPT ![t].at = "in"], link' = [link EXCEPT ![t] = current],
           current' = t, ready' = s,
           waitsFor' = waitsFor, preempted' = preempted, alarms' = alarms, waits' = waits, aborted' = aborted
    PROVE  ThreadsSound'
<1>1. /\ ThreadTypes /\ Nested /\ QueuesSound /\ AbortSound
      /\ \A v \in Fibers : ContextSound(v)
  BY DEF ThreadsSound
<1>2. /\ context[t].at = "out" /\ t \notin waitsFor /\ ~Preempted(t) /\ ~Joining(t) /\ t \notin alarms
      /\ context[t].owner # t /\ context[t].joiner # t /\ context[t] \in ContextStates
  <2>1. ContextSound(t)  BY <1>1
  <2>2. context[t].at = "out" /\ t \notin waitsFor /\ ~Preempted(t) /\ ~Joining(t) /\ t \notin alarms
    BY <2>1 DEF ContextSound
  <2>3. context[t] # NoFiber /\ context[t] \in ContextStates
    BY ONLY <1>1, <2>2, t \in Fibers, ContextIs DEF NoFiber
  <2>4. context[t].owner # t /\ context[t].joiner # t
    BY ONLY <2>1, <2>3 DEF ContextSound
  <2> QED BY ONLY <2>2, <2>3, <2>4
<1>3. PICK r : r = [context[t] EXCEPT !.at = "in"]  OBVIOUS
<1>4. /\ r \in ContextStates /\ r.at = "in" /\ r.owner = context[t].owner /\ r.joiner = context[t].joiner
  BY ONLY <1>2, <1>3 DEF ContextStates
<1>5. /\ Nested' /\ current' \in Fibers \union {Main}
      /\ link' \in [Fibers -> Fibers \union {Main, Nobody}]
      /\ context' \in [Fibers -> ContextStates \union {NoFiber}]
      /\ context'[t] = r
      /\ \A u \in Fibers : u # t => context'[u] = context[u]
  <2>1. context' = [context EXCEPT ![t] = r]  BY <1>3
  <2>2. Enters(t, r)  BY <1>2, <1>4, <2>1 DEF Enters
  <2> QED BY ONLY <1>1, t \in Fibers, <2>2, EntersNest
<1>6. \A u, v \in Fibers : Joins(u, v)' <=> Joins(u, v)
  BY <1>2, <1>4, <1>5, JoinsAlike
<1>7. \A v : /\ Preempted(v)' <=> Preempted(v)
             /\ ToEnter(v)' <=> ToEnter(v) /\ v # t
             /\ Ending(v)' <=> Ending(v) /\ v # t
  BY DEF Preempted, ToEnter, Ending
<1>8. ThreadTypes'  BY <1>1, <1>5 DEF ThreadTypes
<1>9. QueuesSound' /\ AbortSound'  BY <1>1 DEF QueuesSound, AbortSound
<1>10. ContextSound(t)'
  <2>1. \A v \in Fibers : ~Joins(v, t)'  BY <1>2, <1>6 DEF Joining
  <2>2. context'[t].at # "out" /\ context'[t].owner # t /\ context'[t].joiner # t
    BY ONLY <1>2, <1>4, <1>5
  <2>3. t \notin alarms' /\ t \notin waitsFor' /\ ~Preempted(t)' /\ ~ToEnter(t)' /\ ~Ending(t)'
    BY <1>2, <1>7
  <2> QED BY ONLY t \in Fibers, <2>1, <2>2, <2>3, InSound
<1>11. ASSUME NEW v \in Fibers, v # t PROVE ContextSound(v)'
  <2>1. ContextSound(v) /\ context'[v] = context[v] /\ (v \in waitsFor' <=> v \in waitsFor) /\ (v \in alarms' <=> v \in alarms)
    BY <1>1, <1>5, <1>11
  <2>2. (Preempted(v)' <=> Preempted(v)) /\ (ToEnter(v)' <=> ToEnter(v)) /\ (Ending(v)' => Ending(v))
    BY ONLY <1>7, <1>11
  <2> QED BY ONLY v \in Fibers, <1>6, <2>1, <2>2, OthersSound
<1> QED BY <1>5, <1>8, <1>9, <1>10, <1>11 DEF ThreadsSound

(* A task that only queues another about the same thread.                  *)
LEMMA QueuedTask ==
    ASSUME ThreadsSound, ~aborted, NEW t \in Fibers, NEW s \in Seq(ThreadTasks), TasksApart(s),
           ~EnterIn(s, t), ~EndIn(s, t), NEW k \in {"enter", "later", "joined", "free"},
           NEW l \in {"enter", "later", "joined", "free"},
           k \in {"enter", "later"} => ToEnter(t), k \in {"joined", "free"} => Ending(t),
           k \in {"enter", "later"} <=> l \in {"enter", "later"},
           \A v : v # t => (EnterIn(s, v) <=> ToEnter(v)) /\ (EndIn(s, v) <=> Ending(v)),
           context' = context, link' = link, current' = current, ready' = Append(s, <<l, t>>),
           waitsFor' = waitsFor, preempted' = preempted, alarms' = alarms, waits' = waits, aborted' = aborted
    PROVE  ThreadsSound'
<1>1. /\ ThreadTypes /\ Nested /\ QueuesSound /\ AbortSound
      /\ \A v \in Fibers : ContextSound(v)
  BY DEF ThreadsSound
<1>2. \A v : /\ Append(s, <<l, t>>) \in Seq(ThreadTasks) /\ TasksApart(Append(s, <<l, t>>))
             /\ EnterIn(Append(s, <<l, t>>), v) <=> EnterIn(s, v) \/ (v = t /\ l \in {"enter", "later"})
             /\ EndIn(Append(s, <<l, t>>), v) <=> EndIn(s, v) \/ (v = t /\ l \in {"joined", "free"})
  BY TaskAdded
<1>3. PICK r : r = Append(s, <<l, t>>)  OBVIOUS
<1>4. ready' = r  BY <1>3
<1>5. \A v : /\ r \in Seq(ThreadTasks) /\ TasksApart(r)
             /\ EnterIn(r, v) <=> EnterIn(s, v) \/ (v = t /\ l \in {"enter", "later"})
             /\ EndIn(r, v) <=> EndIn(s, v) \/ (v = t /\ l \in {"joined", "free"})
  BY ONLY <1>2, <1>3
<1>6. /\ ready' \in Seq(ThreadTasks) /\ TasksApart(ready')
      /\ \A v : /\ ToEnter(v)' <=> EnterIn(s, v) \/ (v = t /\ l \in {"enter", "later"})
                /\ Ending(v)' <=> EndIn(s, v) \/ (v = t /\ l \in {"joined", "free"})
  BY ONLY <1>4, <1>5 DEF ToEnter, Ending
<1>7. ~ToEnter(t) \/ ~Ending(t)  BY <1>1 DEF ContextSound
<1>8. k \in {"joined", "free"} <=> l \in {"joined", "free"}  OBVIOUS
<1>9. ASSUME NEW v PROVE (ToEnter(v)' <=> ToEnter(v)) /\ (Ending(v)' <=> Ending(v))
  <2>1. CASE v = t  BY <1>6, <1>7, <1>8, <2>1
  <2>2. CASE v # t  BY <1>6, <2>2
  <2> QED BY <2>1, <2>2
<1>10. Nested' /\ \A u, v : Joins(u, v)' <=> Joins(u, v)  BY <1>1, ContextsKept
<1>11. ThreadTypes'  BY <1>1, <1>6 DEF ThreadTypes
<1>12. QueuesSound' /\ AbortSound' /\ \A v : Preempted(v)' <=> Preempted(v)
  BY <1>1, <1>6 DEF QueuesSound, AbortSound, Preempted
<1>13. ASSUME NEW v \in Fibers PROVE ContextSound(v)'
  <2>1. ContextSound(v) /\ context'[v] = context[v] /\ (v \in waitsFor' <=> v \in waitsFor) /\ (v \in alarms' <=> v \in alarms)
    BY <1>1, <1>13
  <2>2. (Preempted(v)' <=> Preempted(v)) /\ (ToEnter(v)' <=> ToEnter(v)) /\ (Ending(v)' => Ending(v))
    BY ONLY <1>9, <1>12
  <2> QED BY ONLY v \in Fibers, <1>10, <2>1, <2>2, OthersSound
<1> QED BY <1>10, <1>11, <1>12, <1>13 DEF ThreadsSound

(* The task in front frees what async() kept.                              *)
LEMMA FreeTask ==
    ASSUME ThreadsSound, ~aborted, NEW t \in Fibers, NEW s \in Seq(ThreadTasks), TasksApart(s),
           ~EnterIn(s, t), ~EndIn(s, t), Ending(t),
           \A v : v # t => (EnterIn(s, v) <=> ToEnter(v)) /\ (EndIn(s, v) <=> Ending(v)),
           context' = [context EXCEPT ![t].at = "freed"], link' = link, current' = current, ready' = s,
           waitsFor' = waitsFor, preempted' = preempted, alarms' = alarms, waits' = waits, aborted' = aborted
    PROVE  ThreadsSound'
<1>1. /\ ThreadTypes /\ Nested /\ QueuesSound /\ AbortSound
      /\ \A v \in Fibers : ContextSound(v)
  BY DEF ThreadsSound
<1>2. /\ context[t].at = "over" /\ t \notin waitsFor /\ ~Preempted(t) /\ ~Joining(t) /\ t \notin alarms
      /\ context[t].owner # t /\ context[t].joiner # t
  <2>1. ContextSound(t)  BY <1>1
  <2>2. context[t].at = "over" /\ t \notin waitsFor /\ ~Preempted(t) /\ ~Joining(t) /\ t \notin alarms
    BY <2>1 DEF ContextSound
  <2>3. context[t] # NoFiber  BY ONLY <2>2 DEF NoFiber
  <2>4. context[t].owner # t /\ context[t].joiner # t
    BY ONLY <2>1, <2>3 DEF ContextSound
  <2> QED BY ONLY <2>2, <2>4
<1>5. /\ Nested' /\ context' \in [Fibers -> ContextStates \union {NoFiber}]
      /\ context'[t].at = "freed" /\ context'[t].owner = context[t].owner
      /\ context'[t].joiner = context[t].joiner
      /\ \A v \in Fibers : v # t => context'[v] = context[v]
      /\ \A v, w \in Fibers : Joins(v, w)' <=> Joins(v, w)
  BY <1>1, <1>2, FreedOf
<1>7. \A v : /\ Preempted(v)' <=> Preempted(v)
             /\ ToEnter(v)' <=> ToEnter(v) /\ v # t
             /\ Ending(v)' <=> Ending(v) /\ v # t
  BY DEF Preempted, ToEnter, Ending
<1>8. ThreadTypes'  BY <1>1, <1>5 DEF ThreadTypes
<1>9. QueuesSound' /\ AbortSound'  BY <1>1 DEF QueuesSound, AbortSound
<1>10. ContextSound(t)'
  <2>1. \A v \in Fibers : ~Joins(v, t)'  BY <1>2, <1>5 DEF Joining
  <2>2. context'[t].at # "out" /\ context'[t].owner # t /\ context'[t].joiner # t
    BY ONLY <1>2, <1>5
  <2>3. t \notin alarms' /\ t \notin waitsFor' /\ ~Preempted(t)' /\ ~ToEnter(t)' /\ ~Ending(t)'
    BY <1>2, <1>7
  <2> QED BY ONLY t \in Fibers, <2>1, <2>2, <2>3, InSound
<1>11. ASSUME NEW v \in Fibers, v # t PROVE ContextSound(v)'
  <2>1. ContextSound(v) /\ context'[v] = context[v] /\ (v \in waitsFor' <=> v \in waitsFor) /\ (v \in alarms' <=> v \in alarms)
    BY <1>1, <1>5, <1>11
  <2>2. (Preempted(v)' <=> Preempted(v)) /\ (ToEnter(v)' <=> ToEnter(v)) /\ (Ending(v)' => Ending(v))
    BY ONLY <1>7, <1>11
  <2> QED BY ONLY v \in Fibers, <1>5, <2>1, <2>2, OthersSound
<1> QED BY <1>5, <1>8, <1>9, <1>10, <1>11 DEF ThreadsSound

(* The task in front, of each of the four kinds.                           *)
LEMMA TaskOfThread ==
    ASSUME ThreadsSound, ~aborted, ReadyTask PROVE ThreadsSound'
<1>1. ready # <<>> /\ ready \in Seq(ThreadTasks) /\ TasksApart(ready)
  BY DEF ReadyTask, ThreadsSound, ThreadTypes, QueuesSound
<1>2. PICK k \in {"enter", "later", "joined", "free"}, t \in Fibers, s \in Seq(ThreadTasks) :
         /\ k = Head(ready)[1] /\ t = Head(ready)[2] /\ s = Tail(ready)
         /\ TasksApart(s) /\ ~EnterIn(s, t) /\ ~EndIn(s, t)
         /\ k \in {"enter", "later"} => ToEnter(t)
         /\ k \in {"joined", "free"} => Ending(t)
         /\ \A v : v # t => (EnterIn(s, v) <=> ToEnter(v)) /\ (EndIn(s, v) <=> Ending(v))
  BY ONLY <1>1, FrontTask
<1>3. /\ waitsFor' = waitsFor /\ preempted' = preempted /\ alarms' = alarms /\ waits' = waits /\ aborted' = aborted
      /\ k = "enter" => /\ context' = [context EXCEPT ![t].at = "in"] /\ ready' = s
                        /\ link' = [link EXCEPT ![t] = current] /\ current' = t
      /\ k = "later" => ready' = Append(s, <<"enter", t>>) /\ context' = context /\ link' = link /\ current' = current
      /\ k = "joined" => ready' = Append(s, <<"free", t>>) /\ context' = context /\ link' = link /\ current' = current
      /\ k = "free" => /\ context' = [context EXCEPT ![t].at = "freed"] /\ ready' = s
                       /\ link' = link /\ current' = current
  BY ONLY ReadyTask, <1>2 DEF ReadyTask
<1>e. CASE k = "enter"  BY <1>2, <1>3, <1>e, EnterTask
<1>l. CASE k = "later"
  <2>1. PICK l : l = "enter"  OBVIOUS
  <2>2. /\ l \in {"enter", "later", "joined", "free"}
        /\ k \in {"enter", "later"} <=> l \in {"enter", "later"}
        /\ ready' = Append(s, <<l, t>>) /\ context' = context /\ link' = link /\ current' = current
    BY ONLY <1>3, <1>l, <2>1
  <2> QED BY <1>2, <1>3, <2>2, QueuedTask
<1>j. CASE k = "joined"
  <2>1. PICK l : l = "free"  OBVIOUS
  <2>2. /\ l \in {"enter", "later", "joined", "free"}
        /\ k \in {"enter", "later"} <=> l \in {"enter", "later"}
        /\ ready' = Append(s, <<l, t>>) /\ context' = context /\ link' = link /\ current' = current
    BY ONLY <1>3, <1>j, <2>1
  <2> QED BY <1>2, <1>3, <2>2, QueuedTask
<1>f. CASE k = "free"  BY <1>2, <1>3, <1>f, FreeTask
<1> QED BY <1>2, <1>e, <1>l, <1>j, <1>f

(* Every step keeps the invariant.                                         *)
LEMMA StepThreads == ThreadsSound /\ [ThreadNext]_threadVars => ThreadsSound'
<1> SUFFICES ASSUME ThreadsSound, [ThreadNext]_threadVars PROVE ThreadsSound'  OBVIOUS
<1>1. CASE ThreadNext
  <2>1. ~aborted  BY <1>1 DEF ThreadNext
  <2>2. CASE ReadyTask  BY <2>1, <2>2, TaskOfThread
  <2>3. CASE TryRunOneYieldedThread  BY <2>1, <2>3, YieldedOfThread
  <2>4. ASSUME NEW t \in Fibers, Async(t) \/ MakeThread(t) PROVE ThreadsSound'
    <3>1. \E kind \in {"async", "plain"} : Construct(t, kind)
      BY <2>4 DEF Async, MakeThread
    <3> QED BY <2>1, <3>1, ConstructOfThread
  <2>5. ASSUME NEW t \in Fibers, Wait(t) PROVE ThreadsSound'
    BY <2>1, <2>5, WaitOfThread
  <2>6. ASSUME NEW t \in Fibers, Yield(t) PROVE ThreadsSound'
    <3>1. current = t /\ (Later(t) \/ (t \in Grouped /\ Preempt(t)))
      BY <2>6 DEF Yield
    <3>2. CASE Later(t)  BY <2>1, <3>1, <3>2, LaterOfThread
    <3>3. CASE t \in Grouped /\ Preempt(t)  BY <2>1, <3>1, <3>3, PreemptOfThread
    <3> QED BY <3>1, <3>2, <3>3
  <2>7. ASSUME NEW t \in Fibers, FinalSwitchOut(t) PROVE ThreadsSound'
    BY <2>1, <2>7, EndOfThread
  <2>8. ASSUME NEW t \in Fibers, Fulfil(t) PROVE ThreadsSound'
    BY <2>1, <2>8, FulfilOfThread
  <2>9. ASSUME NEW t \in Fibers, Reschedule(t) PROVE ThreadsSound'
    BY <2>1, <2>9, RescheduleOfThread
  <2>10. ASSUME NEW u \in Fibers, NEW t \in Fibers, Join(u, t) PROVE ThreadsSound'
    BY <2>1, <2>10, JoinOfThread, JoinOfEnded
  <2>11. ASSUME NEW u \in Fibers, NEW t \in Fibers, DestroyThread(u, t) PROVE ThreadsSound'
    BY <2>1, <2>11, DestroyOfThread
  <2> QED BY ONLY <1>1, <2>2, <2>3, <2>4, <2>5, <2>6, <2>7, <2>8, <2>9, <2>10, <2>11 DEF ThreadNext
<1>2. CASE UNCHANGED threadVars
  <2>1. /\ context' = context /\ current' = current /\ link' = link /\ ready' = ready
        /\ waitsFor' = waitsFor /\ preempted' = preempted /\ alarms' = alarms /\ waits' = waits /\ aborted' = aborted
    BY <1>2 DEF threadVars
  <2>2. ThreadsSound  OBVIOUS
  <2> QED BY ONLY <2>1, <2>2
      DEF ThreadsSound, ThreadTypes, Nested, Entered, QueuesSound, AbortSound, ContextSound,
          Preempted, ToEnter, Ending, Joining, Joins
<1> QED BY <1>1, <1>2

(* As many contexts are on the way back as were entered.                   *)
LEMMA SoundNests == ThreadsSound => ContextsNest
<1> SUFFICES ASSUME ThreadsSound PROVE ContextsNest  OBVIOUS
<1>1. PICK n \in Nat : \E path \in [0 .. n -> Entered \union {Main}] : WayBack(Entered, link, current, n, path)
  BY DEF ThreadsSound, Nested, Nest
<1>2. PICK path \in [0 .. n -> Entered \union {Main}] : WayBack(Entered, link, current, n, path)
  BY <1>1
<1>3. /\ path[0] = Main /\ path[n] = current
      /\ \A i \in 1 .. n : path[i] \in Entered /\ link[path[i]] = path[i - 1]
      /\ \A i, j \in 0 .. n : path[i] = path[j] => i = j
      /\ \A u \in Entered : \E i \in 1 .. n : path[i] = u
  BY ONLY <1>2 DEF WayBack
<1>4. PICK f : f = [i \in 1 .. n |-> path[i]]  OBVIOUS
<1>5. f \in Bijection(1 .. n, Entered)
  <2>1. \A i \in 1 .. n : f[i] = path[i] /\ i \in 0 .. n  BY <1>4
  <2>2. f \in [1 .. n -> Entered]  BY ONLY <1>3, <1>4
  <2>3. \A i, j \in 1 .. n : f[i] = f[j] => i = j  BY ONLY <1>3, <2>1
  <2>4. \A u \in Entered : \E i \in 1 .. n : f[i] = u  BY ONLY <1>3, <2>1
  <2>5. f \in Injection(1 .. n, Entered)
    BY ONLY <2>2, <2>3 DEF Injection, IsInjective
  <2>6. f \in Surjection(1 .. n, Entered)  BY ONLY <2>2, <2>4 DEF Surjection
  <2> QED BY ONLY <2>5, <2>6 DEF Bijection
<1>6. Cardinality(Entered) = n  BY <1>5, FS_CountingElements DEF ExistsBijection
<1>7. Entered = {t \in Fibers : Is(t, "in")}  BY DEF Entered, Is
<1> QED BY ONLY ZenonT(60), <1>2, <1>3, <1>6, <1>7 DEF ContextsNest

(* What enters t again is there once, in the one way that t is out.        *)
LEMMA OneWaker ==
    ASSUME ThreadsSound, NEW t \in Fibers
    PROVE  Cardinality(Wakers(t)) = (IF Is(t, "out") THEN 1 ELSE 0)
<1>1. ContextSound(t) /\ QueuesSound /\ ThreadTypes  BY DEF ThreadsSound
<1> DEFINE A == {<<"event">>} \cap {<<"event">> : x \in waitsFor \cap {t}}
           B == {<<"preempted", i>> : i \in {j \in DOMAIN preempted : preempted[j] = t}}
           C == {<<"task", i>> : i \in {j \in DOMAIN ready : ready[j][2] = t /\ ready[j][1] \in {"enter", "later"}}}
           D == {<<"done", u>> : u \in {x \in Fibers : context[x] # NoFiber /\ ~Is(x, "over") /\ ~Is(x, "freed")
                                                       /\ context[x].joiner = t}}
<1>a. /\ t \in waitsFor => A = {<<"event">>}
      /\ t \notin waitsFor => A = {}
  OBVIOUS
<1>b. /\ Preempted(t) => \E x : B = {x}
      /\ ~Preempted(t) => B = {}
  <2>1. DOMAIN preempted = 1 .. Len(preempted) /\ Len(preempted) \in Nat
    BY <1>1 DEF ThreadTypes
  <2>2. ~Ahead(preempted, t, t)  BY <1>1 DEF QueuesSound
  <2>3. ASSUME NEW i \in 1 .. Len(preempted), NEW j \in 1 .. Len(preempted), preempted[i] = t, preempted[j] = t
        PROVE  i = j
    BY ONLY <2>1, <2>2, <2>3 DEF Ahead
  <2>4. ASSUME NEW i \in 1 .. Len(preempted), preempted[i] = t PROVE B = {<<"preempted", i>>}
    <3>1. {j \in DOMAIN preempted : preempted[j] = t} = {i}
      BY ONLY <2>1, <2>3, <2>4
    <3> QED BY <3>1
  <2>5. ~Preempted(t) => B = {}  BY <2>1 DEF Preempted, Has
  <2> QED BY <2>4, <2>5 DEF Preempted, Has
<1>c. /\ ToEnter(t) => \E x : C = {x}
      /\ ~ToEnter(t) => C = {}
  <2>1. DOMAIN ready = 1 .. Len(ready) /\ Len(ready) \in Nat /\ ready \in Seq(ThreadTasks)
    BY <1>1 DEF ThreadTypes
  <2>2. TasksApart(ready)  BY <1>1 DEF QueuesSound
  <2>3. ASSUME NEW i \in 1 .. Len(ready), NEW j \in 1 .. Len(ready), ready[i][2] = t, ready[j][2] = t
        PROVE  i = j
    BY ONLY <2>1, <2>2, <2>3 DEF Ahead, TasksApart
  <2>4. ASSUME NEW i \in 1 .. Len(ready), ready[i][2] = t, ready[i][1] \in {"enter", "later"}
        PROVE  C = {<<"task", i>>}
    <3>1. {j \in DOMAIN ready : ready[j][2] = t /\ ready[j][1] \in {"enter", "later"}} = {i}
      BY ONLY <2>1, <2>3, <2>4
    <3> QED BY <3>1
  <2>5. \A i \in 1 .. Len(ready) : ready[i] = <<ready[i][1], ready[i][2]>>
    <3>1. \A i \in 1 .. Len(ready) : ready[i] \in ThreadTasks
      BY ONLY <2>1, ElementOfSeq
    <3> QED BY ONLY <3>1, ThreadTaskIs
  <2>6. ToEnter(t) <=> \E i \in 1 .. Len(ready) : ready[i][2] = t /\ ready[i][1] \in {"enter", "later"}
    <3>1. ASSUME NEW k, Has(ready, <<k, t>>)
          PROVE  \E i \in 1 .. Len(ready) : ready[i][2] = t /\ ready[i][1] = k
      <4>1. PICK i \in 1 .. Len(ready) : ready[i] = <<k, t>>  BY ONLY <3>1 DEF Has
      <4> QED BY ONLY <4>1, ThreadTaskFields
    <3>2. ASSUME NEW i \in 1 .. Len(ready), ready[i][2] = t PROVE Has(ready, <<ready[i][1], t>>)
      BY ONLY <2>5, <3>2 DEF Has
    <3> QED BY <3>1, <3>2 DEF ToEnter, EnterIn
  <2> HIDE DEF C
  <2>7. ToEnter(t) => \E x : C = {x}  BY ONLY <2>4, <2>6
  <2>8. ~ToEnter(t) => {j \in DOMAIN ready : ready[j][2] = t /\ ready[j][1] \in {"enter", "later"}} = {}
    BY ONLY <2>1, <2>6
  <2>9. ~ToEnter(t) => C = {}  BY ONLY <2>8 DEF C
  <2> QED BY ONLY <2>7, <2>9
<1>d. /\ Joining(t) => \E x : D = {x}
      /\ ~Joining(t) => D = {}
  <2>1. \A x \in Fibers : /\ context[x] = NoFiber <=> context[x].at = "none"
                          /\ context[x] # NoFiber => context[x].at \in {"in", "out", "over", "freed"}
    BY <1>1, ContextIs
  <2>2. {x \in Fibers : context[x] # NoFiber /\ ~Is(x, "over") /\ ~Is(x, "freed") /\ context[x].joiner = t}
            = {x \in Fibers : Joins(x, t)}
    BY ONLY <2>1 DEF Joins, Is
  <2>3. \A u, v \in Fibers : Joins(u, t) /\ Joins(v, t) => u = v
    BY <1>1 DEF ContextSound
  <2>4. ASSUME NEW u \in Fibers, Joins(u, t) PROVE D = {<<"done", u>>}
    <3>1. {x \in Fibers : Joins(x, t)} = {u}  BY ONLY <2>3, <2>4
    <3> QED BY <2>2, <3>1
  <2>5. ~Joining(t) => D = {}  BY <2>2 DEF Joining
  <2> QED BY <2>4, <2>5 DEF Joining
<1>e. Wakers(t) = A \union B \union C \union D  BY DEF Wakers
<1> HIDE DEF A, B, C, D
<1>2. CASE context[t].at = "out"
  <2>1. \E x : A \union B \union C \union D = {x}
    <3>1. /\ t \in waitsFor \/ Preempted(t) \/ ToEnter(t) \/ Joining(t)
          /\ ~(t \in waitsFor /\ Preempted(t)) /\ ~(t \in waitsFor /\ ToEnter(t)) /\ ~(t \in waitsFor /\ Joining(t))
          /\ ~(Preempted(t) /\ ToEnter(t)) /\ ~(Preempted(t) /\ Joining(t)) /\ ~(ToEnter(t) /\ Joining(t))
      BY <1>1, <1>2 DEF ContextSound
    <3> QED BY ONLY <1>a, <1>b, <1>c, <1>d, <3>1
  <2>2. Cardinality(Wakers(t)) = 1  BY <1>e, <2>1, FS_Singleton
  <2> QED BY <1>2, <2>2 DEF Is
<1>3. CASE context[t].at # "out"
  <2>1. A \union B \union C \union D = {}
    <3>1. t \notin waitsFor /\ ~Preempted(t) /\ ~ToEnter(t) /\ ~Joining(t)
      BY <1>1, <1>3 DEF ContextSound
    <3> QED BY ONLY <1>a, <1>b, <1>c, <1>d, <3>1
  <2>2. Cardinality(Wakers(t)) = 0  BY <1>e, <2>1, FS_EmptySet
  <2> QED BY <1>3, <2>2 DEF Is
<1> QED BY <1>2, <1>3

(* What the invariant says of the alarms, and the rest.                    *)
LEMMA SoundThreadsExact == ThreadsSound => ThreadsExact
<1> SUFFICES ASSUME ThreadsSound PROVE ThreadsExact  OBVIOUS
<1>1. ASSUME NEW t \in Fibers PROVE t \in alarms <=> \E i \in DOMAIN preempted : preempted[i] = t
  <2>1. ContextSound(t) /\ DOMAIN preempted = 1 .. Len(preempted)
    BY DEF ThreadsSound, ThreadTypes
  <2> QED BY <2>1 DEF ContextSound, Preempted, Has
<1>2. aborted => current # Main /\ current \in Grouped /\ context[current].promise = "spent"
  BY NamesApart DEF ThreadsSound, AbortSound
<1> QED BY <1>1, <1>2, SoundNests, OneWaker DEF ThreadsExact

(* Control always goes back to the context that gave it, a thread that     *)
(* waits is entered again by exactly one of the ways there are, its alarm  *)
(* is set while it is preempted, and no stack is freed that is in use, for *)
(* any threads, any of them in a scheduling group, and any waits.          *)
THEOREM ThreadsExactHolds == ThreadSpec => []ThreadsExact
<1>1. ThreadInit => ThreadsSound  BY InitThreads
<1>2. ThreadsSound /\ [ThreadNext]_threadVars => ThreadsSound'  BY StepThreads
<1>3. ThreadsSound => ThreadsExact  BY SoundThreadsExact
<1> QED BY <1>1, <1>2, <1>3, PTL DEF ThreadSpec
=============================================================================

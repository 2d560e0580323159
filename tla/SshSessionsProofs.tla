------------------------- MODULE SshSessionsProofs -------------------------
(* Theorems about the SSH controller of SshSessions, for every number of   *)
(* connections, sessions and tokens.                                       *)
EXTENDS SshSessions, TLAPS

Typed == TypeOK /\ StageOK

\* Detach keeps the types of what it may write.
LEMMA DetachTyped ==
  ASSUME TypeOK, NEW s \in Sessions, NEW c \in Conns, Detach(s, c)
  PROVE  /\ attached' \in [Sessions -> Conns \cup {NoConn}]
         /\ detachedBy' \in [Sessions -> Conns \cup {NoConn}]
         /\ elapsed' \in [Sessions -> BOOLEAN]
<1>1. CASE attached[s] = c
  <2>1. /\ attached' = [attached EXCEPT ![s] = NoConn]
        /\ detachedBy' = [detachedBy EXCEPT ![s] = c]
        /\ elapsed' = [elapsed EXCEPT ![s] = FALSE]
    BY <1>1 DEF Detach
  <2>2. elapsed' \in [Sessions -> BOOLEAN]
    BY <2>1, Zenon DEF TypeOK
  <2>3. attached' \in [Sessions -> Conns \cup {NoConn}]
    BY <2>1 DEF TypeOK
  <2>4. detachedBy' \in [Sessions -> Conns \cup {NoConn}]
    BY <2>1 DEF TypeOK
  <2> QED
    BY <2>2, <2>3, <2>4
<1>2. CASE attached[s] # c
  BY <1>2 DEF TypeOK, Detach, attachVars
<1> QED
  BY <1>1, <1>2

\* The type invariant with the positions of the handlers is inductive.
LEMMA TypedInductive == Spec => []Typed
<1> USE ConstantsAssumption DEF Typed, TypeOK, StageOK, Stages, Phases, Causes, Actors
<1>1. Init => Typed
  BY DEF Init
<1>2. Typed /\ [Next]_vars => Typed'
  <2> SUFFICES ASSUME Typed, [Next]_vars PROVE Typed'
    OBVIOUS
  <2> USE DEF connVars, actorVars, tableVars, attachVars, cleanVars,
              Goto, Idle, RequestStop, StopRequested, Enqueued
  <2>1. ASSUME NEW c \in Conns, Open(c) PROVE Typed'
    BY <2>1 DEF Open
  <2>2. ASSUME NEW c \in Conns, ConnectRegister(c) PROVE Typed'
    BY <2>2 DEF ConnectRegister, HolderDuringStart
  <2>3. ASSUME NEW c \in Conns, ConnectStart(c) PROVE Typed'
    BY <2>3 DEF ConnectStart
  <2>4. ASSUME NEW c \in Conns, ResumeRotate(c) PROVE Typed'
    <3>1. PICK t \in issued, n \in Tokens \ issued :
            /\ resumable[t] # NoSession
            /\ resumable' = [resumable EXCEPT ![t] = NoSession,
                                             ![n] = resumable[t]]
            /\ issued' = issued \cup {n}
            /\ bound' = [bound EXCEPT ![c] = resumable[t]]
            /\ held' = [held EXCEPT ![c] = n]
            /\ lastHolder' = [lastHolder EXCEPT ![resumable[t]] = c]
      BY <2>4 DEF ResumeRotate, Rotated, TokenToKeep
    <3>2. t \in Tokens /\ resumable[t] \in Sessions
      BY <3>1
    <3>3. TypeOK'
      <4>1. resumable' \in [Tokens -> Sessions \cup {NoSession}]
        BY <3>1, <3>2
      <4> QED
        BY <2>4, <3>1, <3>2, <4>1 DEF ResumeRotate
    <3>4. StageOK'
      <4>1. \A a \in Actors :
              hand'[a] \in Sessions <=> stage'[a] \in {"detach", "stop", "push"}
        BY <2>4 DEF ResumeRotate
      <4>2. phase' # "serving" =>
              mutex' = NoActor /\ \A a \in Actors : stage'[a] = "idle"
        BY <2>4 DEF ResumeRotate
      <4>3. bound'[c] \in Sessions /\ held'[c] \in Tokens
        BY <3>1, <3>2
      <4> QED
        BY <2>4, <3>1, <4>1, <4>2, <4>3 DEF ResumeRotate
    <3> QED
      BY <3>3, <3>4
  <2>5. ASSUME NEW c \in Conns, ResumeAttach(c) PROVE Typed'
    BY <2>5 DEF ResumeAttach
  <2>6. ASSUME NEW c \in Conns, TerminateUnbound(c) PROVE Typed'
    BY <2>6 DEF TerminateUnbound
  <2>7. ASSUME NEW c \in Conns, TerminateErase(c) PROVE Typed'
    BY <2>7 DEF TerminateErase
  <2>8. ASSUME NEW c \in Conns, TerminateDetach(c) PROVE Typed'
    <3>1. Detach(hand[c], c) /\ hand[c] \in Sessions
      BY <2>8 DEF TerminateDetach
    <3>2. /\ attached' \in [Sessions -> Conns \cup {NoConn}]
          /\ detachedBy' \in [Sessions -> Conns \cup {NoConn}]
          /\ elapsed' \in [Sessions -> BOOLEAN]
      BY <3>1, DetachTyped
    <3>3. TypeOK'
      BY <2>8, <3>2 DEF TerminateDetach
    <3>4. StageOK'
      BY <2>8 DEF TerminateDetach
    <3> QED
      BY <3>3, <3>4
  <2>9. ASSUME NEW c \in Conns, Close(c) PROVE Typed'
    <3>1. TypeOK'
      <4>1. CASE ~terminating[c] /\ bound[c] # NoSession
        <5>1. /\ attached' \in [Sessions -> Conns \cup {NoConn}]
              /\ detachedBy' \in [Sessions -> Conns \cup {NoConn}]
              /\ elapsed' \in [Sessions -> BOOLEAN]
          BY <2>9, <4>1, DetachTyped DEF Close
        <5> QED
          BY <2>9, <4>1, <5>1 DEF Close
      <4>2. CASE terminating[c] \/ bound[c] = NoSession
        BY <2>9, <4>2 DEF Close
      <4> QED
        BY <4>1, <4>2
    <3>2. StageOK'
      BY <2>9 DEF Close
    <3> QED
      BY <3>1, <3>2
  <2>10. ASSUME NEW c \in Conns, ExpireSkip(c) \/ ExpireCheck(c) PROVE Typed'
    BY <2>10 DEF ExpireSkip, ExpireCheck, TimerDue
  <2>11. CASE HttpTerminate
    <3>1. PICK t \in issued :
            /\ resumable[t] # NoSession
            /\ hand' = [hand EXCEPT ![Http] = resumable[t]]
            /\ resumable' = [resumable EXCEPT ![t] = NoSession]
      BY <2>11 DEF HttpTerminate
    <3>2. t \in Tokens /\ resumable[t] \in Sessions
      BY <3>1
    <3>3. TypeOK'
      BY <2>11, <3>1, <3>2 DEF HttpTerminate
    <3>4. StageOK'
      BY <2>11, <3>1, <3>2 DEF HttpTerminate
    <3> QED
      BY <3>3, <3>4
  <2>12. CASE ExpireErase
    BY <2>12 DEF ExpireErase, StillOwns
  <2>13. ASSUME NEW a \in Actors, QueueStopRequest(a) PROVE Typed'
    BY <2>13 DEF QueueStopRequest, Cause
  <2>14. ASSUME NEW a \in Actors, QueueStopPush(a) PROVE Typed'
    BY <2>14 DEF QueueStopPush
  <2>15. ASSUME NEW s \in Sessions, WindowElapses(s) \/ WorkerExits(s)
         PROVE Typed'
    <3>1. CASE WindowElapses(s)
      BY <3>1 DEF WindowElapses
    <3>2. CASE WorkerExits(s)
      BY <3>2 DEF WorkerExits
    <3> QED
      BY <2>15, <3>1, <3>2
  <2>16. CASE CleanerTake
    <3>1. Head(queue) \in Sessions /\ Tail(queue) \in Seq(Sessions)
      BY <2>16 DEF CleanerTake
    <3> QED
      BY <2>16, <3>1 DEF CleanerTake
  <2>17. CASE CleanerJoin
    BY <2>17 DEF CleanerJoin
  <2>18. CASE Quit \/ StopAllDone \/ CleanerExit
    BY <2>18 DEF Quit, StopAllDone, CleanerExit
  <2>19. CASE StopAllNext
    BY <2>19 DEF StopAllNext
  <2>20. CASE UNCHANGED vars
    BY <2>20 DEF vars
  <2> QED
    BY <2>1, <2>2, <2>3, <2>4, <2>5, <2>6, <2>7, <2>8, <2>9, <2>10, <2>11,
       <2>12, <2>13, <2>14, <2>15, <2>16, <2>17, <2>18, <2>19, <2>20
       DEF Next, ConnNext
<1>3. QED
  BY <1>1, <1>2, PTL DEF Spec

\* The controller's variables keep their types.
THEOREM TypeCorrect == Spec => []TypeOK
BY TypedInductive, PTL DEF Typed

-----------------------------------------------------------------------------
(* The cleanup queue *)

Contains(q, s) == \E i \in 1..Len(q) : q[i] = s

\* Appending to the queue adds the new element and keeps the others.
LEMMA AppendContains ==
  ASSUME NEW q \in Seq(Sessions), NEW x \in Sessions, NEW s
  PROVE  Contains(Append(q, x), s) <=> Contains(q, s) \/ s = x
<1> DEFINE r == Append(q, x)
<1>1. /\ Len(r) = Len(q) + 1
      /\ r[Len(q) + 1] = x
      /\ \A i \in 1..Len(q) : r[i] = q[i]
  OBVIOUS
<1>2. ASSUME Contains(q, s) \/ s = x PROVE Contains(r, s)
  BY <1>1, <1>2 DEF Contains
<1>3. ASSUME Contains(r, s) PROVE Contains(q, s) \/ s = x
  <2>1. PICK i \in 1..Len(r) : r[i] = s
    BY <1>3 DEF Contains
  <2>2. CASE i = Len(q) + 1
    BY <1>1, <2>1, <2>2
  <2>3. CASE i \in 1..Len(q)
    BY <1>1, <2>1, <2>3 DEF Contains
  <2> QED
    BY <1>1, <2>1, <2>2, <2>3
<1> QED
  BY <1>2, <1>3

\* Taking the head off the queue loses the head and nothing else.
LEMMA TailContains ==
  ASSUME NEW q \in Seq(Sessions), q # <<>>, NEW s
  PROVE  Contains(q, s) <=> Contains(Tail(q), s) \/ s = Head(q)
<1> DEFINE r == Tail(q)
<1>1. /\ Len(q) \in Nat /\ Len(q) > 0
      /\ Len(r) = Len(q) - 1
      /\ Head(q) = q[1]
      /\ \A i \in 1..Len(r) : r[i] = q[i + 1]
  OBVIOUS
<1>2. ASSUME Contains(r, s) \/ s = Head(q) PROVE Contains(q, s)
  <2>1. CASE s = Head(q)
    BY <1>1, <2>1 DEF Contains
  <2>2. ASSUME NEW i \in 1..Len(r), r[i] = s PROVE Contains(q, s)
    <3>1. i + 1 \in 1..Len(q) /\ q[i + 1] = s
      BY <1>1, <2>2
    <3> QED
      BY <3>1 DEF Contains
  <2> QED
    BY <1>2, <2>1, <2>2 DEF Contains
<1>3. ASSUME Contains(q, s) PROVE Contains(r, s) \/ s = Head(q)
  <2>1. PICK i \in 1..Len(q) : q[i] = s
    BY <1>3 DEF Contains
  <2>2. CASE i = 1
    BY <1>1, <2>1, <2>2
  <2>3. CASE i # 1
    <3>1. i - 1 \in 1..Len(r) /\ r[i - 1] = s
      BY <1>1, <2>1, <2>3
    <3> QED
      BY <3>1 DEF Contains
  <2> QED
    BY <2>2, <2>3
<1> QED
  BY <1>2, <1>3

-----------------------------------------------------------------------------
(* Ownership of the workers *)

IInv == Typed /\ Protected /\ WorkersOwned /\ OneTokenPerSession

\* Steps that leave alone who has which session keep the invariant.
LEMMA OwnershipFrame ==
  ASSUME IInv, Typed',
         UNCHANGED <<tableVars, hand, cleanVars, worker, bound, held,
                     lastHolder, phase>>,
         \A c \in Conns : stage'[c] = "start" <=> stage[c] = "start"
  PROVE  IInv'
<1> USE DEF IInv, tableVars, cleanVars, Registered, InHand, InQueue, Owned
<1>1. Protected'
  BY DEF Protected
<1>2. WorkersOwned'
  BY DEF WorkersOwned
<1>3. OneTokenPerSession'
  BY DEF OneTokenPerSession
<1> QED
  BY <1>1, <1>2, <1>3

\* Every step of the controller keeps the invariant.
LEMMA OwnershipStep ==
  ASSUME IInv, Typed', [Next]_vars
  PROVE  IInv'
<1> USE ConstantsAssumption
<1> USE DEF Actors
<1>0. TypeOK /\ StageOK /\ TypeOK' /\ StageOK'
  BY DEF IInv, Typed
<1>1. ASSUME NEW c \in Conns,
             \/ Open(c) \/ ResumeAttach(c) \/ TerminateUnbound(c)
             \/ TerminateDetach(c) \/ Close(c)
             \/ ExpireSkip(c) \/ ExpireCheck(c)
      PROVE  IInv'
  <2>1. UNCHANGED <<tableVars, hand, cleanVars, worker, bound, held,
                    lastHolder, phase>>
    BY <1>1 DEF Open, ResumeAttach, TerminateUnbound, TerminateDetach, Close,
       ExpireSkip, ExpireCheck, connVars, actorVars, tableVars, cleanVars
  <2>2. \A d \in Conns : stage'[d] = "start" <=> stage[d] = "start"
    BY <1>0, <1>1 DEF Open, ResumeAttach, TerminateUnbound, TerminateDetach,
       Close, ExpireSkip, ExpireCheck, actorVars, Goto, TypeOK
  <2> QED
    BY <2>1, <2>2, OwnershipFrame
<1>2. ASSUME NEW a \in Actors, QueueStopRequest(a) PROVE IInv'
  <2>1. UNCHANGED <<tableVars, hand, cleanVars, worker, bound, held,
                    lastHolder, phase>>
    BY <1>2 DEF QueueStopRequest, connVars, tableVars, cleanVars
  <2>2. \A d \in Conns : stage'[d] = "start" <=> stage[d] = "start"
    BY <1>0, <1>2 DEF QueueStopRequest, Goto, TypeOK
  <2> QED
    BY <2>1, <2>2, OwnershipFrame
<1>3. ASSUME NEW s \in Sessions, WindowElapses(s) PROVE IInv'
  BY <1>3, OwnershipFrame DEF WindowElapses, connVars, actorVars, tableVars,
     cleanVars
<1>4. ASSUME NEW c \in Conns, ConnectRegister(c) PROVE IInv'
  <2> USE <1>0 DEF IInv, TypeOK, Owned, Registered, InHand, InQueue, Goto,
          connVars, actorVars, tableVars, cleanVars
  <2>4. PICK s \in Sessions, t \in Tokens \ issued :
          /\ lastHolder[s] = NoConn
          /\ resumable' = [resumable EXCEPT ![t] = s]
          /\ issued' = issued \cup {t}
          /\ bound' = [bound EXCEPT ![c] = s]
          /\ held' = [held EXCEPT ![c] = t]
          /\ attached' = [attached EXCEPT ![s] = c]
          /\ lastHolder' = [lastHolder EXCEPT ![s] = c]
    BY <1>4 DEF ConnectRegister
  <2>5. /\ Idle(c) /\ bound[c] = NoSession /\ mutex = NoActor /\ mutex' = c
        /\ Goto(c, "start")
        /\ UNCHANGED <<hand, cleanVars, worker, phase>>
    BY <1>4 DEF ConnectRegister, HolderDuringStart
  <2>1. Protected'
    BY <2>4, <2>5 DEF Protected, Idle, StageOK
  <2>6. /\ resumable[t] = NoSession /\ resumable'[t] = s
        /\ \A u \in Tokens : u # t => resumable'[u] = resumable[u]
        /\ \A u \in Tokens : resumable[u] # s
    BY <2>4 DEF Protected
  <2>2. WorkersOwned'
    <3>1. ASSUME NEW x \in Sessions, Owned(x) PROVE Owned(x)'
      BY <2>5, <2>6, <3>1
    <3> QED
      BY <2>5, <3>1 DEF WorkersOwned
  <2>3. OneTokenPerSession'
    BY <2>6 DEF OneTokenPerSession
  <2> QED
    BY <2>1, <2>2, <2>3
<1>5. ASSUME NEW c \in Conns, ConnectStart(c) PROVE IInv'
  <2> USE <1>0 DEF IInv, TypeOK, Owned, Registered, InHand, InQueue, Goto,
          connVars, actorVars, tableVars, cleanVars
  <2>1. Protected'
    BY <1>5 DEF Protected, ConnectStart, StageOK
  <2>2. WorkersOwned'
    BY <1>5 DEF Protected, WorkersOwned, ConnectStart, StageOK
  <2>3. OneTokenPerSession'
    BY <1>5 DEF Protected, OneTokenPerSession, ConnectStart, StageOK
  <2> QED
    BY <2>1, <2>2, <2>3
<1>6. ASSUME NEW c \in Conns, ResumeRotate(c) PROVE IInv'
  <2> USE <1>0 DEF IInv, TypeOK, Owned, Registered, InHand, InQueue, Goto,
          connVars, actorVars, tableVars, cleanVars
  <2>4. PICK t \in issued, n \in Tokens \ issued :
          /\ resumable[t] # NoSession
          /\ resumable' = [resumable EXCEPT ![t] = NoSession,
                                           ![n] = resumable[t]]
          /\ issued' = issued \cup {n}
          /\ bound' = [bound EXCEPT ![c] = resumable[t]]
          /\ held' = [held EXCEPT ![c] = n]
          /\ lastHolder' = [lastHolder EXCEPT ![resumable[t]] = c]
    BY <1>6 DEF ResumeRotate, Rotated, TokenToKeep
  <2>5. /\ Idle(c) /\ mutex = NoActor /\ mutex' = NoActor
        /\ Goto(c, "attach")
        /\ UNCHANGED <<hand, cleanVars, worker, phase>>
    BY <1>6 DEF ResumeRotate
  <2>1. Protected'
    BY <2>4, <2>5 DEF Protected, Idle, StageOK
  <2>6. /\ t # n
        /\ resumable'[t] = NoSession /\ resumable'[n] = resumable[t]
        /\ \A u \in Tokens : u \notin {t, n} => resumable'[u] = resumable[u]
    BY <2>4
  <2>7. resumable[n] = NoSession
    BY <2>4 DEF Protected
  <2>2. WorkersOwned'
    <3>1. ASSUME NEW x \in Sessions, Owned(x) PROVE Owned(x)'
      <4>1. Registered(x) => Registered(x)'
        <5> SUFFICES ASSUME NEW u \in Tokens, resumable[u] = x
                     PROVE  \E v \in Tokens : resumable'[v] = x
          OBVIOUS
        <5>1. n \in Tokens
          BY <2>4
        <5>2. CASE u = t
          BY <2>6, <5>1, <5>2
        <5>3. CASE u = n
          BY <2>7, <5>3, ConstantsAssumption
        <5>4. CASE u \notin {t, n}
          BY <2>6, <5>4
        <5> QED
          BY <5>2, <5>3, <5>4
      <4> QED
        BY <2>5, <3>1, <4>1
    <3> QED
      BY <2>5, <3>1 DEF WorkersOwned
  <2>3. OneTokenPerSession'
    <3> SUFFICES ASSUME NEW u \in Tokens, NEW v \in Tokens,
                        resumable'[u] = resumable'[v],
                        resumable'[u] # NoSession
                 PROVE  u = v
      BY DEF OneTokenPerSession
    <3>1. u # t /\ v # t
      BY <2>6
    <3>2. CASE u # n /\ v # n
      BY <2>6, <3>1, <3>2 DEF OneTokenPerSession
    <3>3. ASSUME NEW w \in Tokens, w # t, w # n PROVE resumable'[w] # resumable'[n]
      BY <2>4, <2>6, <3>3 DEF OneTokenPerSession
    <3> QED
      BY <3>1, <3>2, <3>3
  <2> QED
    BY <2>1, <2>2, <2>3
<1>7. ASSUME NEW c \in Conns, TerminateErase(c) PROVE IInv'
  <2> USE <1>0 DEF IInv, TypeOK, Owned, Registered, InHand, InQueue, Goto,
          connVars, actorVars, tableVars, cleanVars
  <2>1. Protected'
    BY <1>7 DEF Protected, TerminateErase, Idle, StageOK
  <2>2. WorkersOwned'
    <3>1. /\ hand'[c] = bound[c]
          /\ \A a \in Actors : a # c => hand'[a] = hand[a]
          /\ hand[c] \notin Sessions
          /\ \A t \in Tokens : resumable'[t] = resumable[t]
                               \/ resumable[t] = bound[c]
          /\ UNCHANGED <<cleanVars, worker>>
      BY <1>7 DEF TerminateErase, Idle, StageOK
    <3>2. ASSUME NEW x \in Sessions, Owned(x) PROVE Owned(x)'
      <4>1. CASE x = bound[c]
        BY <3>1, <4>1
      <4>2. CASE x # bound[c]
        BY <3>1, <3>2, <4>2
      <4> QED
        BY <4>1, <4>2
    <3> QED
      BY <3>1, <3>2 DEF WorkersOwned
  <2>3. OneTokenPerSession'
    BY <1>7 DEF Protected, OneTokenPerSession, TerminateErase, Idle, StageOK
  <2> QED
    BY <2>1, <2>2, <2>3
<1>8. CASE HttpTerminate
  <2> USE <1>0 DEF IInv, TypeOK, Owned, Registered, InHand, InQueue, Goto,
          connVars, actorVars, tableVars, cleanVars
  <2>4. PICK t \in issued :
          /\ resumable[t] # NoSession
          /\ hand' = [hand EXCEPT ![Http] = resumable[t]]
          /\ resumable' = [resumable EXCEPT ![t] = NoSession]
    BY <1>8 DEF HttpTerminate
  <2>5. /\ phase = "serving" /\ stage[Http] = "idle" /\ mutex = NoActor
        /\ Goto(Http, "stop")
        /\ UNCHANGED <<issued, mutex, bound, held, cleanVars, worker,
                       lastHolder, phase>>
    BY <1>8 DEF HttpTerminate
  <2>1. Protected'
    BY <2>4, <2>5 DEF Protected, StageOK
  <2>2. WorkersOwned'
    BY <2>4, <2>5 DEF Protected, WorkersOwned, StageOK
  <2>3. OneTokenPerSession'
    BY <2>4, <2>5 DEF Protected, OneTokenPerSession, StageOK
  <2> QED
    BY <2>1, <2>2, <2>3
<1>9. CASE ExpireErase
  <2> USE <1>0 DEF IInv, TypeOK, Owned, Registered, InHand, InQueue, Goto,
          connVars, actorVars, tableVars, cleanVars
  <2>1. Protected'
    BY <1>9 DEF Protected, ExpireErase, StillOwns, StageOK
  <2>2. WorkersOwned'
    <3>1. CASE ~StillOwns(expiring)
      BY <1>9, <3>1 DEF WorkersOwned, ExpireErase
    <3>2. CASE StillOwns(expiring)
      <4> DEFINE e == bound[expiring]
      <4>1. /\ hand'[MainLoop] = e
            /\ \A a \in Actors : a # MainLoop => hand'[a] = hand[a]
            /\ hand[MainLoop] \notin Sessions
            /\ \A t \in Tokens : resumable'[t] = resumable[t]
                                 \/ resumable[t] = e
            /\ UNCHANGED <<cleanVars, worker>>
        BY <1>9, <3>2 DEF ExpireErase, StillOwns, StageOK
      <4>2. ASSUME NEW x \in Sessions, Owned(x) PROVE Owned(x)'
        <5>1. CASE x = e
          BY <4>1, <5>1
        <5>2. CASE x # e
          BY <4>1, <4>2, <5>2
        <5> QED
          BY <5>1, <5>2
      <4> QED
        BY <4>1, <4>2 DEF WorkersOwned
    <3> QED
      BY <3>1, <3>2
  <2>3. OneTokenPerSession'
    BY <1>9 DEF Protected, OneTokenPerSession, ExpireErase, StillOwns, StageOK
  <2> QED
    BY <2>1, <2>2, <2>3
<1>10. ASSUME NEW a \in Actors, QueueStopPush(a) PROVE IInv'
  <2> USE <1>0 DEF IInv, TypeOK, Owned, Registered, InHand, Goto,
          connVars, actorVars, tableVars
  <2>1. hand[a] \in Sessions /\ stage[a] = "push"
    BY <1>10 DEF QueueStopPush, StageOK
  <2>2. \A x : InQueue(x)' <=> InQueue(x) \/ x = hand[a]
    BY <1>10, <2>1, AppendContains DEF QueueStopPush, Enqueued, Contains, InQueue
  <2>3. /\ hand' = [hand EXCEPT ![a] = NoSession]
        /\ UNCHANGED <<resumable, issued, mutex, cleaning, worker, bound, held,
                       lastHolder, phase>>
        /\ phase = "serving"
        /\ \A c \in Conns : stage'[c] = "start" <=> stage[c] = "start"
    BY <1>10, <2>1 DEF QueueStopPush, StageOK
  <2>4. Protected'
    BY <2>1, <2>2, <2>3 DEF Protected
  <2>5. ASSUME NEW x \in Sessions, Owned(x) PROVE Owned(x)'
    <3>1. CASE x = hand[a]
      BY <2>2, <3>1
    <3>2. CASE x # hand[a]
      BY <2>2, <2>3, <2>5, <3>2
    <3> QED
      BY <3>1, <3>2
  <2>6. WorkersOwned'
    BY <2>3, <2>5 DEF WorkersOwned
  <2>7. OneTokenPerSession'
    BY <2>3 DEF OneTokenPerSession
  <2> QED
    BY <2>4, <2>6, <2>7
<1>11. ASSUME NEW s \in Sessions, WorkerExits(s) PROVE IInv'
  <2> USE <1>0 DEF IInv, TypeOK, Owned, Registered, InHand, InQueue, Goto,
          connVars, actorVars, tableVars, cleanVars
  <2>1. Protected'
    BY <1>11 DEF Protected, WorkerExits, StageOK
  <2>2. WorkersOwned'
    BY <1>11 DEF Protected, WorkersOwned, WorkerExits, StageOK
  <2>3. OneTokenPerSession'
    BY <1>11 DEF Protected, OneTokenPerSession, WorkerExits, StageOK
  <2> QED
    BY <2>1, <2>2, <2>3
<1>12. CASE CleanerTake
  <2> USE <1>0 DEF IInv, TypeOK, Owned, Registered, InHand, actorVars, tableVars,
          connVars
  <2>1. /\ queue \in Seq(Sessions) /\ queue # <<>>
        /\ queue' = Tail(queue) /\ cleaning = NoSession /\ phase # "stopped"
        /\ cleaning' = Head(queue)
        /\ UNCHANGED <<resumable, issued, mutex, hand, stage, worker, bound,
                       held, lastHolder, phase>>
    BY <1>12 DEF CleanerTake
  <2>2. ASSUME NEW x PROVE InQueue(x) <=> InQueue(x)' \/ x = cleaning'
    <3>1. InQueue(x) <=> Contains(queue, x)
      BY DEF InQueue, Contains
    <3>2. InQueue(x)' <=> Contains(Tail(queue), x)
      BY <2>1 DEF InQueue, Contains
    <3>3. Contains(queue, x) <=> Contains(Tail(queue), x) \/ x = Head(queue)
      BY <2>1, TailContains
    <3> QED
      BY <2>1, <3>1, <3>2, <3>3
  <2>3. Protected'
    BY <2>1, <2>2, ConstantsAssumption DEF Protected
  <2>4. ASSUME NEW x \in Sessions, Owned(x) PROVE Owned(x)'
    BY <2>1, <2>2, <2>4
  <2>5. WorkersOwned'
    BY <2>1, <2>4 DEF WorkersOwned
  <2>6. OneTokenPerSession'
    BY <2>1 DEF OneTokenPerSession
  <2> QED
    BY <2>3, <2>5, <2>6
<1>13. CASE CleanerJoin
  <2> USE <1>0 DEF IInv, TypeOK, Owned, Registered, InHand, InQueue, Goto,
          connVars, actorVars, tableVars, cleanVars
  <2>1. Protected'
    BY <1>13 DEF Protected, CleanerJoin, StageOK
  <2>2. WorkersOwned'
    BY <1>13 DEF Protected, WorkersOwned, CleanerJoin, StageOK
  <2>3. OneTokenPerSession'
    BY <1>13 DEF Protected, OneTokenPerSession, CleanerJoin, StageOK
  <2> QED
    BY <2>1, <2>2, <2>3
<1>14. CASE Quit \/ StopAllDone \/ CleanerExit
  <2> USE <1>0 DEF IInv, TypeOK, Owned, Registered, InHand, InQueue, Goto,
          connVars, actorVars, tableVars, cleanVars
  <2>1. Protected'
    BY <1>14 DEF Protected, Quit, StopAllDone, CleanerExit, Drained, StageOK
  <2>2. WorkersOwned'
    BY <1>14 DEF Protected, WorkersOwned, Quit, StopAllDone, CleanerExit, Drained, StageOK
  <2>3. OneTokenPerSession'
    BY <1>14 DEF Protected, OneTokenPerSession, Quit, StopAllDone, CleanerExit, Drained, StageOK
  <2> QED
    BY <2>1, <2>2, <2>3
<1>15. CASE StopAllNext
  <2> USE <1>0 DEF IInv, TypeOK, Owned, Registered, InHand
  <2>1. PICK t \in issued :
          /\ resumable[t] # NoSession
          /\ queue' = Append(queue, resumable[t])
          /\ resumable' = [resumable EXCEPT ![t] = NoSession]
    BY <1>15 DEF StopAllNext, Enqueued
  <2>2. /\ phase = "stopAll"
        /\ UNCHANGED <<issued, mutex, stage, hand, bound, held, worker,
                       lastHolder, cleaning, phase>>
    BY <1>15 DEF StopAllNext, connVars, actorVars
  <2>3. t \in Tokens /\ resumable[t] \in Sessions
    BY <2>1
  <2>4. ASSUME NEW x PROVE InQueue(x)' <=> InQueue(x) \/ x = resumable[t]
    <3>1. InQueue(x) <=> Contains(queue, x)
      BY DEF InQueue, Contains
    <3>2. InQueue(x)' <=> Contains(Append(queue, resumable[t]), x)
      BY <2>1 DEF InQueue, Contains
    <3>3. queue \in Seq(Sessions)
      OBVIOUS
    <3> QED
      BY <2>3, <3>1, <3>2, <3>3, AppendContains
  <2>5. worker[resumable[t]] # "none"
    BY <2>2, <2>3 DEF Protected, StageOK
  <2>6. Protected'
    BY <2>1, <2>2, <2>3, <2>4, <2>5 DEF Protected, StageOK
  <2>7. ASSUME NEW x \in Sessions, Owned(x) PROVE Owned(x)'
    <3>1. CASE x = resumable[t]
      BY <2>4, <3>1
    <3>2. CASE x # resumable[t]
      BY <2>1, <2>2, <2>4, <2>7, <3>2
    <3> QED
      BY <3>1, <3>2
  <2>8. WorkersOwned'
    BY <2>2, <2>7 DEF WorkersOwned
  <2>9. OneTokenPerSession'
    BY <2>1, <2>3 DEF OneTokenPerSession
  <2> QED
    BY <2>6, <2>8, <2>9
<1>16. CASE UNCHANGED vars
  BY <1>16, OwnershipFrame DEF vars, connVars, actorVars
<1> QED
  BY <1>1, <1>2, <1>3, <1>4, <1>5, <1>6, <1>7, <1>8, <1>9, <1>10, <1>11,
     <1>12, <1>13, <1>14, <1>15, <1>16 DEF Next, ConnNext

\* The ownership invariant holds in every reachable state.
LEMMA OwnershipInductive == Spec => []IInv
<1>1. Init => IInv
  <2> USE ConstantsAssumption DEF Init
  <2>1. Init => Typed
    BY DEF Typed, TypeOK, StageOK, Stages, Phases, Causes, Actors
  <2>2. Init => Protected
    BY DEF Protected, Registered, InHand, InQueue, Actors
  <2>3. Init => WorkersOwned /\ OneTokenPerSession
    BY DEF WorkersOwned, OneTokenPerSession
  <2> QED
    BY <2>1, <2>2, <2>3 DEF IInv
<1>2. IInv /\ Typed' /\ [Next]_vars => IInv'
  BY OwnershipStep
<1> QED
  BY <1>1, <1>2, TypedInductive, PTL DEF Spec

\* The last reference to a session whose thread runs is never dropped.
THEOREM WorkersNeverLost == Spec => []WorkersOwned
BY OwnershipInductive, PTL DEF IInv

\* A session never has two valid resume tokens.
THEOREM SingleToken == Spec => []OneTokenPerSession
BY OwnershipInductive, PTL DEF IInv

\* When StopAll returns, every worker ever started has been joined.
THEOREM ShutdownIsClean == Spec => []ShutdownJoinsAll
<1>1. IInv => ShutdownJoinsAll
  <2> SUFFICES ASSUME IInv, phase = "stopped", NEW s \in Sessions
               PROVE  worker[s] \in {"none", "joined"}
    BY DEF ShutdownJoinsAll
  <2> USE ConstantsAssumption DEF IInv, Typed, TypeOK
  <2>1. ~Registered(s) /\ cleaning # s
    BY DEF Protected, Registered
  <2>2. ~InQueue(s)
    BY DEF Protected, InQueue
  <2>3. ~InHand(s)
    BY DEF StageOK, InHand, Actors
  <2> QED
    BY <2>1, <2>2, <2>3 DEF WorkersOwned, Owned
<1> QED
  BY <1>1, OwnershipInductive, PTL

-----------------------------------------------------------------------------
(* Expiry *)

\* A token that leads to a session is the one the session's last holder keeps,
\* a connection keeps only tokens that were drawn, and no two keep the same.
Claimed ==
  /\ \A t \in Tokens, s \in Sessions : resumable[t] = s =>
       /\ lastHolder[s] \in Conns
       /\ held[lastHolder[s]] = t
       /\ bound[lastHolder[s]] = s
  /\ \A c \in Conns : held[c] # NoToken => held[c] \in issued
  /\ \A c, d \in Conns : held[c] = held[d] /\ held[c] # NoToken => c = d

\* Nobody can resume s, and the connection that drew its last token is gone.
Abandoned(s) ==
  lastHolder[s] # NoConn /\ ~Registered(s) /\ cstate[lastHolder[s]] = "closed"

\* A session the main loop is stopping, or was the first to stop, is abandoned.
Expired ==
  \A s \in Sessions : hand[MainLoop] = s \/ reason[s] = "expiry" => Abandoned(s)

\* Steps that draw no token and give none up keep the claims.
LEMMA ClaimedFrame ==
  ASSUME TypeOK, Claimed, UNCHANGED <<bound, held, issued, lastHolder>>,
         \A t \in Tokens : resumable'[t] \in {resumable[t], NoSession}
  PROVE  Claimed'
<1>1. ASSUME NEW t \in Tokens, NEW s \in Sessions, resumable'[t] = s
      PROVE  resumable[t] = s
  BY <1>1, ConstantsAssumption
<1> QED
  BY <1>1 DEF Claimed

\* Every step of the controller keeps the claims.
LEMMA ClaimedStep ==
  ASSUME IInv, IInv', Claimed, [Next]_vars
  PROVE  Claimed'
<1> USE ConstantsAssumption DEF Actors
<1>0. TypeOK /\ StageOK /\ TypeOK'
  BY DEF IInv, Typed
<1>1. ASSUME NEW c \in Conns, ConnectRegister(c) PROVE Claimed'
  <2>1. PICK s \in Sessions, t \in Tokens \ issued :
          /\ lastHolder[s] = NoConn
          /\ resumable' = [resumable EXCEPT ![t] = s]
          /\ issued' = issued \cup {t}
          /\ bound' = [bound EXCEPT ![c] = s]
          /\ held' = [held EXCEPT ![c] = t]
          /\ lastHolder' = [lastHolder EXCEPT ![s] = c]
    BY <1>1 DEF ConnectRegister
  <2>2. bound[c] = NoSession /\ held[c] = NoToken
    BY <1>0, <1>1 DEF ConnectRegister, TypeOK, StageOK
  <2>3. ASSUME NEW u \in Tokens, NEW x \in Sessions, resumable'[u] = x
        PROVE  /\ lastHolder'[x] \in Conns
               /\ held'[lastHolder'[x]] = u
               /\ bound'[lastHolder'[x]] = x
    <3>1. CASE u = t
      BY <1>0, <2>1, <2>3, <3>1 DEF TypeOK
    <3>2. CASE u # t
      <4>1. resumable[u] = x
        BY <1>0, <2>1, <2>3, <3>2 DEF TypeOK
      <4>2. /\ lastHolder[x] \in Conns /\ held[lastHolder[x]] = u
            /\ bound[lastHolder[x]] = x
        BY <4>1 DEF Claimed
      <4>3. x # s /\ lastHolder[x] # c
        BY <2>1, <2>2, <4>2
      <4> QED
        BY <1>0, <2>1, <4>2, <4>3 DEF TypeOK
    <3> QED
      BY <3>1, <3>2
  <2>4. \A d \in Conns : held'[d] # NoToken => held'[d] \in issued'
    BY <1>0, <2>1 DEF TypeOK, Claimed
  <2>5. \A d, e \in Conns : held'[d] = held'[e] /\ held'[d] # NoToken => d = e
    BY <1>0, <2>1 DEF TypeOK, Claimed
  <2> QED
    BY <2>3, <2>4, <2>5 DEF Claimed
<1>2. ASSUME NEW c \in Conns, ResumeRotate(c) PROVE Claimed'
  <2>1. PICK t \in issued, n \in Tokens \ issued :
          /\ resumable[t] # NoSession
          /\ resumable' = [resumable EXCEPT ![t] = NoSession,
                                           ![n] = resumable[t]]
          /\ issued' = issued \cup {n}
          /\ bound' = [bound EXCEPT ![c] = resumable[t]]
          /\ held' = [held EXCEPT ![c] = n]
          /\ lastHolder' = [lastHolder EXCEPT ![resumable[t]] = c]
    BY <1>2 DEF ResumeRotate, Rotated, TokenToKeep
  <2>2. bound[c] = NoSession /\ t \in Tokens /\ resumable[t] \in Sessions
    BY <1>0, <1>2, <2>1 DEF ResumeRotate, TypeOK
  <2>3. ASSUME NEW u \in Tokens, NEW x \in Sessions, resumable'[u] = x
        PROVE  /\ lastHolder'[x] \in Conns
               /\ held'[lastHolder'[x]] = u
               /\ bound'[lastHolder'[x]] = x
    <3>1. CASE u = n
      BY <1>0, <2>1, <2>2, <2>3, <3>1 DEF TypeOK
    <3>2. CASE u # n
      <4>1. u # t /\ resumable[u] = x
        BY <1>0, <2>1, <2>2, <2>3, <3>2 DEF TypeOK
      <4>2. /\ lastHolder[x] \in Conns /\ held[lastHolder[x]] = u
            /\ bound[lastHolder[x]] = x
        BY <4>1 DEF Claimed
      <4>3. x # resumable[t]
        BY <2>2, <4>1 DEF IInv, OneTokenPerSession
      <4>4. lastHolder[x] # c
        BY <2>2, <4>2
      <4> QED
        BY <1>0, <2>1, <4>2, <4>3, <4>4 DEF TypeOK
    <3> QED
      BY <3>1, <3>2
  <2>4. \A d \in Conns : held'[d] # NoToken => held'[d] \in issued'
    BY <1>0, <2>1 DEF TypeOK, Claimed
  <2>5. \A d, e \in Conns : held'[d] = held'[e] /\ held'[d] # NoToken => d = e
    BY <1>0, <2>1 DEF TypeOK, Claimed
  <2> QED
    BY <2>3, <2>4, <2>5 DEF Claimed
<1>3. ASSUME NEW c \in Conns, TerminateErase(c) PROVE Claimed'
  <2>1. /\ bound[c] # NoSession
        /\ bound' = [bound EXCEPT ![c] = NoSession]
        /\ held' = [held EXCEPT ![c] = NoToken]
        /\ resumable' = [t \in Tokens |->
                           IF t = held[c] /\ resumable[t] = bound[c]
                           THEN NoSession ELSE resumable[t]]
        /\ UNCHANGED <<issued, lastHolder>>
    BY <1>3 DEF TerminateErase
  <2>2. ASSUME NEW u \in Tokens, NEW x \in Sessions, resumable'[u] = x
        PROVE  /\ lastHolder'[x] \in Conns
               /\ held'[lastHolder'[x]] = u
               /\ bound'[lastHolder'[x]] = x
    <3>1. resumable[u] = x /\ ~(u = held[c] /\ x = bound[c])
      BY <2>1, <2>2
    <3>2. /\ lastHolder[x] \in Conns /\ held[lastHolder[x]] = u
          /\ bound[lastHolder[x]] = x
      BY <3>1 DEF Claimed
    <3>3. lastHolder[x] # c
      BY <3>1, <3>2
    <3> QED
      BY <1>0, <2>1, <3>2, <3>3 DEF TypeOK
  <2>3. /\ \A d \in Conns : held'[d] # NoToken => held'[d] \in issued'
        /\ \A d, e \in Conns : held'[d] = held'[e] /\ held'[d] # NoToken => d = e
    BY <1>0, <2>1 DEF TypeOK, Claimed
  <2> QED
    BY <2>2, <2>3 DEF Claimed
<1>4. CASE HttpTerminate \/ ExpireErase \/ StopAllNext
  <2>1. UNCHANGED <<bound, held, issued, lastHolder>>
    BY <1>4 DEF HttpTerminate, ExpireErase, StopAllNext, connVars
  <2>2. \A t \in Tokens : resumable'[t] \in {resumable[t], NoSession}
    BY <1>0, <1>4 DEF HttpTerminate, ExpireErase, StopAllNext, TypeOK
  <2> QED
    BY <1>0, <2>1, <2>2, ClaimedFrame
<1>5. CASE UNCHANGED <<bound, held, issued, lastHolder, resumable>>
  BY <1>0, <1>5, ClaimedFrame
<1> QED
  BY <1>1, <1>2, <1>3, <1>4, <1>5 DEF Next, ConnNext, vars, Open, ConnectStart,
     ResumeAttach, TerminateUnbound, TerminateDetach, Close, ExpireSkip,
     ExpireCheck, QueueStopRequest, QueueStopPush, WindowElapses, WorkerExits,
     CleanerTake, CleanerJoin, Quit, StopAllDone, CleanerExit, connVars, tableVars

\* An abandoned session stays abandoned: without a token it cannot be resumed,
\* and a closed connection does not come back.
LEMMA AbandonedStays ==
  ASSUME IInv, NEW s \in Sessions, Abandoned(s), [Next]_vars
  PROVE  Abandoned(s)'
<1> USE ConstantsAssumption DEF Actors
<1>0. TypeOK /\ StageOK
  BY DEF IInv, Typed
<1>1. lastHolder[s] \in Conns /\ cstate[lastHolder[s]] = "closed"
  BY <1>0 DEF Abandoned, TypeOK
<1>2. \A t \in Tokens : resumable[t] # s
  BY DEF Abandoned, Registered
<1>3. \A c \in Conns : cstate[c] = "closed" => cstate'[c] = "closed"
  BY <1>0 DEF TypeOK, Next, ConnNext, vars, Idle, Open, ConnectRegister,
     ConnectStart, ResumeRotate, ResumeAttach, TerminateUnbound, TerminateErase,
     TerminateDetach, Close, ExpireSkip, ExpireCheck, QueueStopRequest,
     QueueStopPush, WindowElapses, WorkerExits, CleanerTake, CleanerJoin, Quit,
     StopAllDone, StopAllNext, CleanerExit, HttpTerminate, ExpireErase, connVars
<1>4. lastHolder'[s] = lastHolder[s]
  <2>1. ASSUME NEW c \in Conns, ConnectRegister(c)
        PROVE  lastHolder'[s] = lastHolder[s]
    BY <1>0, <2>1 DEF ConnectRegister, TypeOK, Abandoned
  <2>2. ASSUME NEW c \in Conns, ResumeRotate(c)
        PROVE  lastHolder'[s] = lastHolder[s]
    BY <1>0, <1>2, <2>2 DEF ResumeRotate, TypeOK
  <2> QED
    BY <2>1, <2>2 DEF Next, ConnNext, vars, Open,
       ConnectStart, ResumeAttach, TerminateUnbound, TerminateErase,
       TerminateDetach, Close, ExpireSkip, ExpireCheck, QueueStopRequest,
       QueueStopPush, WindowElapses, WorkerExits, CleanerTake, CleanerJoin, Quit,
       StopAllDone, StopAllNext, CleanerExit, HttpTerminate, ExpireErase
<1>5. \A t \in Tokens : resumable'[t] # s
  <2>1. ASSUME NEW c \in Conns, ConnectRegister(c)
        PROVE  \A t \in Tokens : resumable'[t] # s
    BY <1>0, <1>2, <2>1 DEF ConnectRegister, TypeOK, Abandoned
  <2>2. ASSUME NEW c \in Conns, ResumeRotate(c)
        PROVE  \A t \in Tokens : resumable'[t] # s
    BY <1>0, <1>2, <2>2 DEF ResumeRotate, Rotated, TypeOK
  <2>3. CASE HttpTerminate \/ ExpireErase \/ StopAllNext
             \/ \E c \in Conns : TerminateErase(c)
    BY <1>0, <1>2, <2>3 DEF HttpTerminate, ExpireErase, StopAllNext,
       TerminateErase, TypeOK
  <2>4. CASE UNCHANGED resumable
    BY <1>2, <2>4
  <2> QED
    BY <2>1, <2>2, <2>3, <2>4 DEF Next, ConnNext, vars, Open, ConnectStart,
       ResumeAttach, TerminateUnbound, TerminateDetach, Close, ExpireSkip,
       ExpireCheck, QueueStopRequest, QueueStopPush, WindowElapses, WorkerExits,
       CleanerTake, CleanerJoin, Quit, StopAllDone, CleanerExit, tableVars
<1> QED
  BY <1>1, <1>3, <1>4, <1>5 DEF Abandoned, Registered

\* Every step of the controller keeps Expired: the timer's token still leads to
\* the session only if the closed connection is the session's last holder.
LEMMA ExpiredStep ==
  ASSUME IInv, IInv', Claimed, Expired, [Next]_vars
  PROVE  Expired'
<1> USE ConstantsAssumption DEF Actors
<1>0. TypeOK /\ StageOK /\ TypeOK'
  BY DEF IInv, Typed
<1> SUFFICES ASSUME NEW s \in Sessions, hand'[MainLoop] = s \/ reason'[s] = "expiry"
             PROVE  Abandoned(s)'
  BY DEF Expired
<1>1. CASE hand[MainLoop] = s \/ reason[s] = "expiry"
  BY <1>1, AbandonedStays DEF Expired
<1>2. CASE ExpireErase
  <2>1. reason' = reason
    BY <1>2 DEF ExpireErase
  <2>2. CASE hand[MainLoop] # s /\ hand'[MainLoop] = s
    <3>1. /\ StillOwns(expiring) /\ s = bound[expiring] /\ expiring \in Conns
          /\ timer[expiring] = "fired"
          /\ resumable' = [resumable EXCEPT ![held[expiring]] = NoSession]
      BY <1>0, <1>2, <2>2 DEF ExpireErase, StageOK, TypeOK
    <3>2. held[expiring] \in Tokens /\ cstate[expiring] = "closed"
      BY <1>0, <3>1 DEF StageOK
    <3>3. lastHolder[s] = expiring
      BY <3>1, <3>2 DEF Claimed, StillOwns
    <3>4. \A t \in Tokens : resumable'[t] # s
      BY <1>0, <3>1, <3>2 DEF StillOwns, IInv, OneTokenPerSession, TypeOK
    <3>5. UNCHANGED <<lastHolder, cstate>>
      BY <1>2 DEF ExpireErase, connVars
    <3> QED
      BY <3>1, <3>2, <3>3, <3>4, <3>5 DEF Abandoned, Registered
  <2> QED
    BY <1>1, <2>1, <2>2
<1>3. ASSUME NEW a \in Actors, QueueStopRequest(a) PROVE Abandoned(s)'
  <2>1. /\ hand' = hand
        /\ reason' = [reason EXCEPT ![hand[a]] =
                        IF @ = "none" THEN Cause(a) ELSE @]
    BY <1>3 DEF QueueStopRequest, RequestStop
  <2>2. CASE a = MainLoop
    BY <1>0, <1>1, <2>1, <2>2 DEF TypeOK
  <2>3. CASE a # MainLoop
    <3>1. Cause(a) # "expiry"
      BY <2>3 DEF Cause
    <3> QED
      BY <1>0, <1>1, <2>1, <3>1 DEF TypeOK
  <2> QED
    BY <2>2, <2>3
<1>5. ASSUME StopAllNext PROVE Abandoned(s)'
  BY <1>0, <1>1, <1>5 DEF StopAllNext, RequestStop, actorVars, TypeOK
<1>6. ASSUME HttpTerminate PROVE Abandoned(s)'
  BY <1>0, <1>1, <1>6 DEF HttpTerminate, TypeOK
<1>7. ASSUME NEW c \in Conns, TerminateErase(c) PROVE Abandoned(s)'
  BY <1>0, <1>1, <1>7 DEF TerminateErase, TypeOK
<1>8. ASSUME NEW a \in Actors, QueueStopPush(a) PROVE Abandoned(s)'
  BY <1>0, <1>1, <1>8 DEF QueueStopPush, TypeOK
<1>9. CASE UNCHANGED <<hand, reason>>
  BY <1>1, <1>9
<1> QED
  BY <1>2, <1>3, <1>5, <1>6, <1>7, <1>8, <1>9 DEF Next, ConnNext, vars, Open,
     ConnectRegister, ConnectStart, ResumeRotate, ResumeAttach, TerminateUnbound,
     TerminateDetach, Close, ExpireSkip, ExpireCheck, WindowElapses, WorkerExits,
     CleanerTake, CleanerJoin, Quit, StopAllDone, CleanerExit, actorVars

\* The invariant of the expiry timers holds in every reachable state.
LEMMA ExpiryInductive == Spec => [](IInv /\ Claimed /\ Expired)
<1>1. Init => Claimed /\ Expired
  BY ConstantsAssumption DEF Init, Claimed, Expired, Actors
<1>2. IInv /\ IInv' /\ Claimed /\ Expired /\ [Next]_vars => Claimed' /\ Expired'
  BY ClaimedStep, ExpiredStep
<1> QED
  BY <1>1, <1>2, OwnershipInductive, PTL DEF Spec

\* An expiry timer stops a session only if the connection that received its
\* last resume token is gone.
THEOREM ExpiryIsRightful == Spec => []ExpiredMeansAbandoned
<1>1. Expired => ExpiredMeansAbandoned
  BY DEF Expired, ExpiredMeansAbandoned, Abandoned
<1> QED
  BY <1>1, ExpiryInductive, PTL

-----------------------------------------------------------------------------
(* Attachment *)

\* An open connection in no handler stays attached to its session, or another
\* connection takes the session over.
StaysAttached ==
  \A s \in Sessions, c \in Conns :
    /\ attached[s] = c
    /\ cstate'[c] = "open"
    /\ stage[c] = "idle"
    => attached'[s] # NoConn

\* Only the connection that is attached detaches a session, and it does so
\* while it terminates or closes.
LEMMA AttachmentStep ==
  ASSUME Typed, [Next]_vars
  PROVE  StaysAttached
<1> USE ConstantsAssumption DEF Typed
<1> SUFFICES ASSUME NEW s \in Sessions, NEW c \in Conns, attached[s] = c,
                    cstate'[c] = "open", stage[c] = "idle"
             PROVE  attached'[s] # NoConn
  BY DEF StaysAttached
<1>1. ASSUME NEW d \in Conns, NEW x \in Sessions, Detach(x, d), d # c
      PROVE  attached'[s] # NoConn
  BY <1>1 DEF Detach, attachVars, TypeOK
<1>2. ASSUME NEW d \in Conns, TerminateDetach(d) PROVE attached'[s] # NoConn
  <2>1. d # c /\ hand[d] \in Sessions /\ Detach(hand[d], d)
    BY <1>2 DEF TerminateDetach, TypeOK, StageOK, Actors
  <2> QED
    BY <1>1, <2>1
<1>3. ASSUME NEW d \in Conns, Close(d) PROVE attached'[s] # NoConn
  <2>1. d # c
    BY <1>3 DEF Close, TypeOK
  <2>2. CASE ~terminating[d] /\ bound[d] # NoSession
    <3>1. bound[d] \in Sessions /\ Detach(bound[d], d)
      BY <1>3, <2>2 DEF Close, TypeOK
    <3> QED
      BY <1>1, <2>1, <3>1
  <2>3. CASE ~(~terminating[d] /\ bound[d] # NoSession)
    BY <1>3, <2>3 DEF Close, attachVars
  <2> QED
    BY <2>2, <2>3
<1>4. ASSUME NEW d \in Conns, ConnectRegister(d) \/ ResumeAttach(d)
      PROVE  attached'[s] # NoConn
  BY <1>4 DEF ConnectRegister, ResumeAttach, TypeOK
<1>5. CASE UNCHANGED attached
  BY <1>5
<1> QED
  BY <1>2, <1>3, <1>4, <1>5 DEF Next, ConnNext, vars, attachVars, Open,
     ConnectStart, ResumeRotate, TerminateUnbound, TerminateErase, ExpireSkip,
     ExpireCheck, QueueStopRequest, QueueStopPush, WindowElapses, WorkerExits,
     CleanerTake, CleanerJoin, Quit, StopAllDone, StopAllNext, CleanerExit,
     HttpTerminate, ExpireErase

\* The late close of a superseded connection does not detach the session from
\* the connection that took it over.
THEOREM AttachmentPromise == Spec => SupersededCloseIsHarmless
<1>1. Typed /\ [Next]_vars => [StaysAttached]_vars
  BY AttachmentStep
<1> QED
  BY <1>1, TypedInductive, PTL DEF Spec, SupersededCloseIsHarmless, StaysAttached

=============================================================================

---------------------------- MODULE ServerProofs ----------------------------
(***************************************************************************)
(* What the engine supervisor guarantees for any number of calls and       *)
(* deaths of the agent, and what only with two starts under way at a time. *)
(***************************************************************************)
EXTENDS VllmServerInv, FiniteSetTheorems, TLAPS

USE CallAssumption, MaxStartsAssumption

(* The queue of the lock: its end, its head, and the head put back. *)
LEMMA JoinLine ==
  ASSUME NEW S, NEW q \in Seq(S), NEW h \in S
  PROVE  /\ Append(q, h) \in Seq(S)
         /\ DOMAIN Append(q, h) = 1..(Len(q) + 1)
         /\ DOMAIN q = 1..Len(q) /\ Len(q) \in Nat
         /\ \A i \in DOMAIN q : Append(q, h)[i] = q[i]
         /\ Append(q, h)[Len(q) + 1] = h
         /\ Append(q, h) # <<>>
OBVIOUS

LEMMA LeaveLine ==
  ASSUME NEW S, NEW q \in Seq(S), q # <<>>
  PROVE  /\ Tail(q) \in Seq(S)
         /\ DOMAIN q = 1..Len(q) /\ Len(q) \in Nat \ {0}
         /\ DOMAIN Tail(q) = 1..(Len(q) - 1)
         /\ \A i \in 1..(Len(q) - 1) : Tail(q)[i] = q[i + 1]
         /\ Head(q) = q[1]
OBVIOUS

LEMMA KeepLine ==
  ASSUME NEW S, NEW q \in Seq(S), q # <<>>
  PROVE  <<Head(q)>> \o Tail(q) = q
OBVIOUS

LEMMA NewLine ==
  ASSUME NEW S, NEW h \in S
  PROVE  <<h>> \o <<>> = <<h>> /\ <<h>> \in Seq(S) /\ DOMAIN <<h>> = {1} /\ <<h>> # <<>>
OBVIOUS
-----------------------------------------------------------------------------
Calls == Starter \cup Stopper

(* stop() leaves the queue in line and its caller at one of its awaits.      *)
LEMMA StopTyped ==
  ASSUME ServerTypeOK, NEW h \in Calls, NEW p \in Starter \cup {NoProc},
         NEW q \in Seq(Calls), NEW s \in ServerState,
         CallStop(h, p, q, s) \/ BeginStop(h, p, q)
  PROVE  state' \in ServerState /\ queue' \in Seq(Calls) /\ pc' \in [Calls -> Label]
<1>1. Append(q, h) \in Seq(Calls) /\ <<h>> \o q \in Seq(Calls) /\ <<h>> \o <<>> \in Seq(Calls)
  OBVIOUS
<1>2. <<>> \in Seq(Calls)
  OBVIOUS
<1> QED
  BY <1>1, <1>2 DEF CallStop, BeginStop, Stopped, Goto, ServerTypeOK, ServerState, Label, Ended, Calls

LEMMA StartTyped ==
  ASSUME ServerTypeOK, NEW h \in Starter, NEW q \in Seq(Calls), BeginStart(h, q)
  PROVE  /\ state' \in ServerState /\ queue' \in Seq(Calls) /\ pc' \in [Calls -> Label]
         /\ config' \in Starter \cup {NoProc} /\ process' = process
<1>1. <<h>> \o q \in Seq(Calls)
  BY DEF Calls
<1> QED
  BY <1>1 DEF BeginStart, Goto, ServerTypeOK, ServerState, Label, Ended, Calls

LEMMA ServerTypesKept ==
  ASSUME ServerTypeOK, LockDiscipline, [Next]_vars
  PROVE  ServerTypeOK'
<1>0. /\ queue \in Seq(Calls) /\ <<>> \in Seq(Calls)
      /\ \A h \in Calls : Append(queue, h) \in Seq(Calls)
      /\ queue # <<>> => Tail(queue) \in Seq(Calls)
      /\ \A h \in Calls : pc[h] \in Working => queue # <<>>
  BY JoinLine, LeaveLine DEF ServerTypeOK, LockDiscipline, Calls
<1> USE DEF fields, host, life
<1>1. ASSUME NEW h \in Stopper, Stop(h)
      PROVE  ServerTypeOK'
  <2>1. state' \in ServerState /\ queue' \in Seq(Calls) /\ pc' \in [Calls -> Label]
    BY <1>0, <1>1, StopTyped DEF Stop, ServerTypeOK, Calls
  <2> QED
    BY <1>1, <2>1 DEF Stop, ServerTypeOK, Calls
<1>2. ASSUME NEW h \in Calls, ResumeStop(h)
      PROVE  ServerTypeOK'
  <2>1. state' \in ServerState /\ queue' \in Seq(Calls) /\ pc' \in [Calls -> Label]
    BY <1>0, <1>2, StopTyped DEF ResumeStop, Holds, ServerTypeOK
  <2> QED
    BY <1>2, <2>1 DEF ResumeStop, ServerTypeOK, Calls
<1>3. ASSUME NEW h \in Calls, Kill(h) \/ FinishStop(h)
      PROVE  ServerTypeOK'
  BY <1>0, <1>3
     DEF Kill, FinishStop, Goto, Release, Stopped, Working, ServerTypeOK, ServerState, Label, Ended, Calls
<1>4. ASSUME NEW h \in Starter, Start(h) \/ ResumeStart(h)
      PROVE  ServerTypeOK'
  <2>1. CASE BeginStart(h, <<>>) \/ (queue # <<>> /\ BeginStart(h, Tail(queue)))
    <3>1. /\ state' \in ServerState /\ queue' \in Seq(Calls) /\ pc' \in [Calls -> Label]
          /\ config' \in Starter \cup {NoProc} /\ process' = process
      BY <1>0, <2>1, StartTyped
    <3> QED
      BY <1>4, <3>1 DEF Start, ResumeStart, ServerTypeOK, Calls
  <2>2. CASE queue' = Append(queue, h) /\ Goto(h, "waiting") /\ UNCHANGED <<fields, host, life>>
    BY <1>0, <2>2 DEF Goto, ServerTypeOK, Label, Calls
  <2> QED
    BY <1>4, <2>1, <2>2 DEF Start, ResumeStart, Holds
<1>5. ASSUME NEW h \in Starter, Fork(h) \/ CannotLaunch(h) \/ CannotRecord(h) \/ Look(h)
      PROVE  ServerTypeOK'
  BY <1>0, <1>5 DEF Fork, CannotLaunch, CannotRecord, Look, Release, Goto, Working,
                    ServerTypeOK, ServerState, Label, Ended, Calls
<1>6. ASSUME NEW h \in Starter, Register(h)
      PROVE  ServerTypeOK'
  <2>1. CASE h \in alive
    BY <1>0, <1>6, <2>1 DEF Register, Release, Goto, Working, ServerTypeOK, Label, Calls
  <2>2. CASE h \notin alive
    <3>1. CallStop(h, h, Tail(queue), "failed") /\ queue # <<>>
      BY <1>0, <1>6, <2>2 DEF Register, Working, Calls
    <3>2. state' \in ServerState /\ queue' \in Seq(Calls) /\ pc' \in [Calls -> Label]
      BY <1>0, <3>1, StopTyped DEF ServerState, Calls
    <3> QED
      BY <1>6, <3>2 DEF Register, ServerTypeOK, Calls
  <2> QED
    BY <2>1, <2>2
<1>7. ASSUME NEW h \in Starter, GiveUp(h) \/ BadAnswer(h)
      PROVE  ServerTypeOK'
  <2>1. \E s \in ServerState : CallStop(h, process, queue, s)
    BY <1>7 DEF GiveUp, BadAnswer, ServerTypeOK, ServerState
  <2>2. state' \in ServerState /\ queue' \in Seq(Calls) /\ pc' \in [Calls -> Label]
    BY <1>0, <2>1, StopTyped DEF ServerTypeOK, Calls
  <2> QED
    BY <1>7, <2>2 DEF GiveUp, BadAnswer, ServerTypeOK, Calls
<1>8. ASSUME NEW h \in Starter, NoAnswer(h) \/ BecomeReady(h) \/ AnswerStarted(h)
      PROVE  ServerTypeOK'
  BY <1>8 DEF NoAnswer, BecomeReady, AnswerStarted, Goto, ServerTypeOK, ServerState, Label, Ended
<1>9. ASSUME NEW h \in Starter, Serve(h) \/ Exit(h)
      PROVE  ServerTypeOK'
  BY <1>9 DEF Serve, Exit, ServerTypeOK
<1>10. CASE Die
  <2>1. deaths' \in 0..MaxDeaths
    BY <1>10, MaxDeathsAssumption, SMT DEF Die, ServerTypeOK
  <2>2. up' \in BOOLEAN
    BY <1>10, Zenon DEF Die
  <2>3. pc' \in [Calls -> Label]
    BY <1>10 DEF Die, ServerTypeOK, Label, Ended, Calls
  <2> QED
    BY <1>0, <1>10, <2>1, <2>2, <2>3 DEF Die, ServerTypeOK, ServerState, Calls
<1>11. CASE Restart
  <2>1. up' \in BOOLEAN
    BY <1>11, Zenon DEF Restart
  <2> QED
    BY <1>11, <2>1 DEF Restart, ServerTypeOK
<1>12. CASE UNCHANGED vars
  BY <1>12 DEF vars, ServerTypeOK
<1> QED
  BY <1>1, <1>2, <1>3, <1>4, <1>5, <1>6, <1>7, <1>8, <1>9, <1>10, <1>11, <1>12
  DEF Next, Handle, Calls
-----------------------------------------------------------------------------
(* Which calls can have an engine, and who is there in which lifetime.       *)
LEMMA CallsKept ==
  ASSUME ServerTypeOK, CallsByLife, [Next]_vars
  PROVE  CallsByLife'
<1> USE DEF CallsByLife, Former, fields, host, life, Goto, ServerTypeOK, Label, Ended
<1>1. ASSUME NEW h \in Calls, Stop(h) \/ ResumeStop(h)
      PROVE  CallsByLife'
  BY <1>1 DEF Stop, ResumeStop, CallStop, BeginStop, Stopped, Calls
<1>2. ASSUME NEW h \in Calls, Kill(h) \/ FinishStop(h)
      PROVE  CallsByLife'
  BY <1>2 DEF Kill, FinishStop, Stopped, Calls
<1>3. ASSUME NEW h \in Starter, Start(h) \/ ResumeStart(h)
      PROVE  CallsByLife'
  BY <1>3 DEF Start, ResumeStart, BeginStart, Calls
<1>4. ASSUME NEW h \in Starter, Fork(h) \/ CannotLaunch(h) \/ CannotRecord(h) \/ Look(h)
      PROVE  CallsByLife'
  BY <1>4 DEF Fork, CannotLaunch, CannotRecord, Look, Calls
<1>5. ASSUME NEW h \in Starter, Register(h)
      PROVE  CallsByLife'
  BY <1>5 DEF Register, CallStop, BeginStop, Stopped, Calls
<1>6. ASSUME NEW h \in Starter, GiveUp(h) \/ BadAnswer(h)
      PROVE  CallsByLife'
  BY <1>6 DEF GiveUp, BadAnswer, CallStop, BeginStop, Stopped, Calls
<1>7. ASSUME NEW h \in Starter, NoAnswer(h) \/ BecomeReady(h) \/ AnswerStarted(h)
      PROVE  CallsByLife'
  BY <1>7 DEF NoAnswer, BecomeReady, AnswerStarted, Calls
<1>8. ASSUME NEW h \in Starter, Serve(h) \/ Exit(h)
      PROVE  CallsByLife'
  BY <1>8 DEF Serve, Exit, Calls
<1>9. CASE Die
  BY <1>9, MaxDeathsAssumption DEF Die, Calls
<1>10. CASE Restart
  BY <1>10 DEF Restart, Calls
<1>11. CASE UNCHANGED vars
  BY <1>11 DEF vars
<1> QED
  BY <1>1, <1>2, <1>3, <1>4, <1>5, <1>6, <1>7, <1>8, <1>9, <1>10, <1>11
  DEF Next, Handle, Calls

-----------------------------------------------------------------------------
(* The lock.  A call that is not in line may join it, a waiting head may go  *)
(* on, and a head may leave.                                                 *)
Elsewhere(label) == label \notin Working \cup {"waiting", "undoing"}

LEMMA MovesInPlace ==
  ASSUME ServerTypeOK, LockDiscipline, NEW h \in Calls, NEW label \in Label,
         Goto(h, label), UNCHANGED <<queue, up>>,
         \/ Elsewhere(pc[h]) /\ Elsewhere(label)
         \/ Holds(h) /\ label \in Working
  PROVE  LockDiscipline'
BY DEF LockDiscipline, Elsewhere, Working, Lines, Goto, Holds, ServerTypeOK, Calls

LEMMA JoinsLine ==
  ASSUME ServerTypeOK, LockDiscipline, NEW h \in Calls, NEW label \in {"waiting", "undoing"},
         Goto(h, label), UNCHANGED up, queue # <<>>, Elsewhere(pc[h]),
         queue' = Append(queue, h)
  PROVE  LockDiscipline'
<1>1. \A i \in Lines : queue[i] \in Calls /\ queue[i] # h
  BY DEF LockDiscipline, Elsewhere, Working, Lines, ServerTypeOK, Calls
<1>2. /\ Lines' = 1..(Len(queue) + 1) /\ Lines = 1..Len(queue) /\ Len(queue) \in Nat \ {0}
      /\ \A i \in Lines : queue'[i] = queue[i]
      /\ queue'[Len(queue) + 1] = h
      /\ queue' # <<>>
  BY JoinLine, LeaveLine DEF Lines, ServerTypeOK, Calls
<1>3. \A g \in Calls : pc'[g] = IF g = h THEN label ELSE pc[g]
  BY DEF Goto, ServerTypeOK, Calls
<1> QED
  BY <1>1, <1>2, <1>3 DEF LockDiscipline, Elsewhere, Working, ServerTypeOK, Calls

LEMMA OpensLine ==
  ASSUME ServerTypeOK, LockDiscipline, NEW h \in Calls, NEW label \in Working,
         Goto(h, label), up', queue = <<>>, queue' = <<h>>
  PROVE  LockDiscipline'
<1>1. Lines' = {1} /\ Lines = {} /\ queue'[1] = h /\ queue' # <<>>
  BY NewLine DEF Lines, Calls
<1>2. \A g \in Calls : pc'[g] = IF g = h THEN label ELSE pc[g]
  BY DEF Goto, ServerTypeOK, Calls
<1> QED
  BY <1>1, <1>2 DEF LockDiscipline, Working, ServerTypeOK, Calls

LEMMA LeavesLine ==
  ASSUME ServerTypeOK, LockDiscipline, NEW h \in Calls, NEW label \in Label,
         Goto(h, label), UNCHANGED up, Elsewhere(label),
         queue # <<>>, queue[1] = h, queue' = Tail(queue)
  PROVE  LockDiscipline'
<1>1. /\ Lines' = 1..(Len(queue) - 1) /\ Lines = 1..Len(queue) /\ Len(queue) \in Nat \ {0}
      /\ \A i \in Lines' : queue'[i] = queue[i + 1] /\ i + 1 \in Lines
  BY LeaveLine DEF Lines, ServerTypeOK, Calls
<1>2. \A g \in Calls : pc'[g] = IF g = h THEN label ELSE pc[g]
  BY DEF Goto, ServerTypeOK, Calls
<1>3. \A i \in Lines' : queue[i + 1] # h /\ queue[i + 1] \in Calls
  BY <1>1 DEF LockDiscipline, Lines, ServerTypeOK, Calls
<1>4. ASSUME NEW g \in Calls, g # h, NEW i \in Lines, queue[i] = g
      PROVE  i - 1 \in Lines' /\ queue'[i - 1] = g
  BY <1>1, <1>4
<1>5. \A i \in Lines' : pc[queue[i + 1]] \in {"waiting", "undoing"}
  BY <1>1 DEF LockDiscipline
<1>6. \A g \in Calls : g # h => pc[g] \notin Working
  BY DEF LockDiscipline, Calls
<1>7. \A g \in Calls : pc'[g] \in {"waiting", "undoing"} => \E i \in Lines' : queue'[i] = g
  <2>0. \A g \in Calls : pc[g] \in {"waiting", "undoing"} => \E i \in Lines : queue[i] = g
    BY Zenon DEF LockDiscipline, Calls
  <2>1. ASSUME NEW g \in Calls, pc'[g] \in {"waiting", "undoing"}
        PROVE  \E i \in Lines' : queue'[i] = g
    <3>1. g # h
      <4>1. pc'[h] = label /\ label \notin {"waiting", "undoing"}
        BY <1>2, Zenon DEF Elsewhere
      <4> QED
        BY <2>1, <4>1, Zenon
    <3>2. pc[g] \in {"waiting", "undoing"}
      BY <1>2, <2>1, <3>1
    <3>3. PICK i \in Lines : queue[i] = g
      BY <2>0, <3>2, Zenon
    <3> QED
      BY <1>4, <3>1, <3>3, Zenon
  <2> QED
    BY <2>1, Zenon
<1>8. ~up' => queue' = <<>>
  BY DEF LockDiscipline
<1>9. \A i, j \in Lines' : queue'[i] = queue'[j] => i = j
  BY <1>1 DEF LockDiscipline
<1> QED
  BY <1>1, <1>2, <1>3, <1>5, <1>6, <1>7, <1>8, <1>9 DEF LockDiscipline, Elsewhere, Calls

(* A head that must wait again goes to the end of the line.                  *)
LEMMA RejoinsLine ==
  ASSUME ServerTypeOK, LockDiscipline, NEW h \in Calls,
         Goto(h, "undoing"), UNCHANGED up,
         queue # <<>>, queue[1] = h, Tail(queue) # <<>>, queue' = Append(Tail(queue), h)
  PROVE  LockDiscipline'
<1>0. Tail(queue) \in Seq(Calls)
  BY LeaveLine DEF ServerTypeOK, Calls
<1>1. /\ Lines' = Lines /\ Lines = 1..Len(queue) /\ Len(queue) \in Nat \ {0}
      /\ \A i \in 1..(Len(queue) - 1) : queue'[i] = queue[i + 1] /\ i + 1 \in Lines
      /\ queue'[Len(queue)] = h
      /\ queue' # <<>>
  <2>1. /\ DOMAIN queue = 1..Len(queue) /\ Len(queue) \in Nat \ {0}
        /\ DOMAIN Tail(queue) = 1..(Len(queue) - 1)
        /\ \A i \in 1..(Len(queue) - 1) : Tail(queue)[i] = queue[i + 1]
    BY LeaveLine DEF ServerTypeOK, Calls
  <2>2. /\ DOMAIN queue' = 1..(Len(Tail(queue)) + 1)
        /\ DOMAIN Tail(queue) = 1..Len(Tail(queue)) /\ Len(Tail(queue)) \in Nat
        /\ \A i \in DOMAIN Tail(queue) : queue'[i] = Tail(queue)[i]
        /\ queue'[Len(Tail(queue)) + 1] = h
        /\ queue' # <<>>
    BY <1>0, JoinLine
  <2>3. Len(Tail(queue)) = Len(queue) - 1
    BY <2>1, <2>2
  <2> QED
    BY <2>1, <2>2, <2>3 DEF Lines
<1>2. \A g \in Calls : pc'[g] = IF g = h THEN "undoing" ELSE pc[g]
  BY DEF Goto, ServerTypeOK, Calls
<1>3. \A i \in 1..(Len(queue) - 1) : queue'[i] # h /\ queue'[i] \in Calls
                                   /\ pc[queue'[i]] \in {"waiting", "undoing"}
  BY <1>1 DEF LockDiscipline, Lines, ServerTypeOK, Calls
<1>4. ASSUME NEW g \in Calls, g # h, NEW i \in Lines, queue[i] = g
      PROVE  i - 1 \in Lines' /\ queue'[i - 1] = g
  BY <1>1, <1>4
<1>5. \A g \in Calls : g # h => pc[g] \notin Working
  BY DEF LockDiscipline, Calls
<1>6. \A g \in Calls : pc'[g] \in {"waiting", "undoing"} => \E i \in Lines' : queue'[i] = g
  <2>1. Len(queue) \in Lines' /\ queue'[Len(queue)] = h
    BY <1>1
  <2>2. ASSUME NEW g \in Calls, g # h, pc'[g] \in {"waiting", "undoing"}
        PROVE  \E i \in Lines' : queue'[i] = g
    <3>1. PICK i \in Lines : queue[i] = g
      BY <1>2, <2>2 DEF LockDiscipline, Calls
    <3> QED
      BY <1>4, <2>2, <3>1
  <2> QED
    BY <2>1, <2>2
<1>7. ~up' => queue' = <<>>
  BY DEF LockDiscipline
<1>8. \A i, j \in Lines' : queue'[i] = queue'[j] => i = j
  BY <1>1, <1>3 DEF LockDiscipline
<1>9. \A i \in Lines' : pc'[queue'[i]] \in {"waiting", "undoing"}
  <2> SUFFICES ASSUME NEW i \in Lines' PROVE pc'[queue'[i]] \in {"waiting", "undoing"}
    OBVIOUS
  <2>1. CASE i = Len(queue)
    BY <1>1, <1>2, <2>1
  <2>2. CASE i \in 1..(Len(queue) - 1)
    BY <1>2, <1>3, <2>2
  <2> QED
    BY <1>1, <2>1, <2>2
<1>10. \A g \in Calls : pc'[g] \notin Working
  BY <1>2, <1>5 DEF Working
<1> QED
  BY <1>6, <1>7, <1>8, <1>9, <1>10 DEF LockDiscipline, Calls
(* stop() and start(), from outside and from the head of the line.           *)
LEMMA StopFromOutside ==
  ASSUME ServerTypeOK, LockDiscipline, NEW h \in Calls, NEW p, NEW s,
         up, UNCHANGED up, Elsewhere(pc[h]), CallStop(h, p, queue, s)
  PROVE  LockDiscipline'
<1>1. Stopped(h) \in Label /\ Elsewhere(Stopped(h)) /\ "undoing" \in {"waiting", "undoing"}
  BY DEF Stopped, Label, Ended, Elsewhere, Working
<1>2. CASE queue = <<>> /\ p = NoProc
  BY <1>1, <1>2, MovesInPlace DEF CallStop, BeginStop
<1>3. CASE queue = <<>> /\ p # NoProc
  BY <1>3, OpensLine, NewLine DEF CallStop, BeginStop, Working
<1>4. CASE queue # <<>>
  BY <1>1, <1>4, JoinsLine DEF CallStop
<1> QED
  BY <1>2, <1>3, <1>4

LEMMA StopFromHead ==
  ASSUME ServerTypeOK, LockDiscipline, NEW h \in Calls, NEW p,
         UNCHANGED up, Holds(h), BeginStop(h, p, Tail(queue))
  PROVE  LockDiscipline'
<1>1. Stopped(h) \in Label /\ Elsewhere(Stopped(h)) /\ "killing" \in Label \cap Working
  BY DEF Stopped, Label, Ended, Elsewhere, Working
<1>2. queue # <<>> /\ queue[1] = h /\ <<h>> \o Tail(queue) = queue
  BY LeaveLine, KeepLine DEF Holds, ServerTypeOK, Calls
<1>3. CASE p = NoProc
  BY <1>1, <1>2, <1>3, LeavesLine DEF BeginStop
<1>4. CASE p # NoProc
  BY <1>1, <1>2, <1>4, MovesInPlace DEF BeginStop
<1> QED
  BY <1>3, <1>4

LEMMA StartFromOutside ==
  ASSUME ServerTypeOK, LockDiscipline, NEW h \in Calls,
         up, UNCHANGED up, Elsewhere(pc[h]), queue = <<>>, BeginStart(h, <<>>)
  PROVE  LockDiscipline'
<1>1. "refused" \in Label /\ Elsewhere("refused") /\ "spawning" \in Working
  BY DEF Label, Ended, Elsewhere, Working
<1>2. CASE queue' = <<>> /\ Goto(h, "refused")
  BY <1>1, <1>2, MovesInPlace
<1>3. CASE queue' = <<h>> \o <<>> /\ Goto(h, "spawning")
  BY <1>1, <1>3, OpensLine, NewLine
<1> QED
  BY <1>2, <1>3 DEF BeginStart

LEMMA StartFromHead ==
  ASSUME ServerTypeOK, LockDiscipline, NEW h \in Calls,
         UNCHANGED up, Holds(h), BeginStart(h, Tail(queue))
  PROVE  LockDiscipline'
<1>1. "refused" \in Label /\ Elsewhere("refused") /\ "spawning" \in Label \cap Working
  BY DEF Label, Ended, Elsewhere, Working
<1>2. queue # <<>> /\ queue[1] = h /\ <<h>> \o Tail(queue) = queue
  BY LeaveLine, KeepLine DEF Holds, ServerTypeOK, Calls
<1>3. CASE queue' = Tail(queue) /\ Goto(h, "refused")
  BY <1>1, <1>2, <1>3, LeavesLine
<1>4. CASE queue' = <<h>> \o Tail(queue) /\ Goto(h, "spawning")
  BY <1>1, <1>2, <1>4, MovesInPlace
<1> QED
  BY <1>3, <1>4 DEF BeginStart

(* A working call holds the lock, and is up. *)
LEMMA WorkerHolds ==
  ASSUME ServerTypeOK, LockDiscipline, NEW h \in Calls, pc[h] \in Working
  PROVE  up /\ queue # <<>> /\ queue[1] = h /\ Holds(h) /\ <<h>> \o Tail(queue) = queue
<1>1. up /\ queue # <<>> /\ queue[1] = h
  BY DEF LockDiscipline, Calls
<1> QED
  BY <1>1, LeaveLine, KeepLine DEF Holds, ServerTypeOK, Calls

LEMMA LockKept ==
  ASSUME ServerTypeOK, LockDiscipline, CallsByLife, [Next]_vars
  PROVE  LockDiscipline'
<1> USE DEF fields, host, life
<1>0. ASSUME NEW h \in Calls, pc[h] \notin Former \cup {"new"}
      PROVE  up
  BY <1>0 DEF CallsByLife, Calls
<1>1. ASSUME NEW h \in Stopper, Stop(h)
      PROVE  LockDiscipline'
  BY <1>1, StopFromOutside DEF Stop, Elsewhere, Working, Calls
<1>2. ASSUME NEW h \in Calls, ResumeStop(h)
      PROVE  LockDiscipline'
  BY <1>2, StopFromHead DEF ResumeStop
<1>3. ASSUME NEW h \in Calls, Kill(h)
      PROVE  LockDiscipline'
  BY <1>3, WorkerHolds, MovesInPlace DEF Kill, Working, Label
<1>4. ASSUME NEW h \in Calls, FinishStop(h)
      PROVE  LockDiscipline'
  BY <1>4, WorkerHolds, LeavesLine
     DEF FinishStop, Release, Stopped, Working, Elsewhere, Label, Ended
<1>5. ASSUME NEW h \in Starter, Start(h)
      PROVE  LockDiscipline'
  BY <1>5, StartFromOutside, JoinsLine DEF Start, Elsewhere, Working, Calls
<1>6. ASSUME NEW h \in Starter, ResumeStart(h)
      PROVE  LockDiscipline'
  BY <1>6, StartFromHead DEF ResumeStart, Calls
<1>7. ASSUME NEW h \in Starter, Fork(h)
      PROVE  LockDiscipline'
  BY <1>7, WorkerHolds, MovesInPlace DEF Fork, Working, Label, Calls
<1>8. ASSUME NEW h \in Starter, CannotLaunch(h) \/ CannotRecord(h)
      PROVE  LockDiscipline'
  BY <1>8, WorkerHolds, LeavesLine
     DEF CannotLaunch, CannotRecord, Release, Working, Elsewhere, Label, Ended, Calls
<1>9. ASSUME NEW h \in Starter, Register(h)
      PROVE  LockDiscipline'
  <2>0. up /\ queue # <<>> /\ queue[1] = h /\ Holds(h) /\ <<h>> \o Tail(queue) = queue
    BY <1>9, WorkerHolds DEF Register, Working, Calls
  <2>1. CASE h \in alive
    BY <1>9, <2>0, <2>1, LeavesLine DEF Register, Release, Working, Elsewhere, Label, Calls
  <2>2. CASE h \notin alive /\ Tail(queue) = <<>>
    BY <1>9, <2>0, <2>2, StopFromHead DEF Register, CallStop, Calls
  <2>3. CASE h \notin alive /\ Tail(queue) # <<>>
    BY <1>9, <2>0, <2>3, RejoinsLine DEF Register, CallStop, Calls
  <2> QED
    BY <2>1, <2>2, <2>3
<1>10. ASSUME NEW h \in Starter, GiveUp(h) \/ BadAnswer(h)
      PROVE  LockDiscipline'
  <2>1. /\ up /\ Elsewhere(pc[h]) /\ UNCHANGED up
        /\ \E s \in ServerState : CallStop(h, process, queue, s)
    BY <1>0, <1>10 DEF GiveUp, BadAnswer, Former, Elsewhere, Working, ServerTypeOK, ServerState, Calls
  <2> QED
    BY <2>1, StopFromOutside DEF Calls
<1>11. ASSUME NEW h \in Starter,
              Look(h) \/ NoAnswer(h) \/ BecomeReady(h) \/ AnswerStarted(h)
      PROVE  LockDiscipline'
  BY <1>11, MovesInPlace
     DEF Look, NoAnswer, BecomeReady, AnswerStarted, Elsewhere, Working, Label, Ended, Calls
<1>12. ASSUME NEW h \in Starter, Serve(h) \/ Exit(h)
      PROVE  LockDiscipline'
  BY <1>12 DEF Serve, Exit, LockDiscipline, Lines
<1>13. CASE Die
  BY <1>13 DEF Die, LockDiscipline, Lines, Working, ServerTypeOK
<1>14. CASE Restart
  BY <1>14 DEF Restart, LockDiscipline, Lines
<1>15. CASE UNCHANGED vars
  BY <1>15 DEF vars, LockDiscipline, Lines
<1> QED
  BY <1>1, <1>2, <1>3, <1>4, <1>5, <1>6, <1>7, <1>8, <1>9, <1>10, <1>11, <1>12, <1>13, <1>14, <1>15
  DEF Next, Handle, Calls
-----------------------------------------------------------------------------
(* Who waits to stop something keeps waiting while others come and go.       *)
LEMMA UndoersStay ==
  ASSUME ServerTypeOK, LockDiscipline, UndoerWaits, NEW h \in Calls, NEW label,
         Goto(h, label), UNCHANGED queue,
         Elsewhere(pc[h]) \/ ~Undoing(h) \/ label \in {"undoing", "killing", "killed"}
  PROVE  UndoerWaits'
<1>1. PICK i \in Lines : Undoing(queue[i])
  BY DEF UndoerWaits
<1>2. queue[i] \in Calls
  BY DEF Lines, ServerTypeOK, Calls
<1>3. pc'[queue[i]] = IF queue[i] = h THEN label ELSE pc[queue[i]]
  BY <1>2 DEF Goto, ServerTypeOK, Calls
<1> QED
  BY <1>1, <1>2, <1>3 DEF UndoerWaits, Undoing, Lines, Elsewhere, Working

LEMMA UndoersStayAhead ==
  ASSUME ServerTypeOK, LockDiscipline, UndoerWaits, NEW h \in Calls, NEW label,
         Goto(h, label), Elsewhere(pc[h]), queue' = Append(queue, h)
  PROVE  UndoerWaits'
<1>1. PICK i \in Lines : Undoing(queue[i])
  BY DEF UndoerWaits
<1>2. queue[i] \in Calls /\ queue[i] # h
  BY <1>1 DEF Lines, Undoing, Elsewhere, Working, ServerTypeOK, Calls
<1>3. pc'[queue[i]] = pc[queue[i]]
  BY <1>2 DEF Goto, ServerTypeOK, Calls
<1>4. i \in Lines' /\ queue'[i] = queue[i]
  BY JoinLine DEF Lines, ServerTypeOK, Calls
<1> QED
  BY <1>1, <1>3, <1>4 DEF UndoerWaits, Undoing

LEMMA UndoersMoveUp ==
  ASSUME ServerTypeOK, LockDiscipline, UndoerWaits, NEW h \in Calls, NEW label,
         Goto(h, label), queue # <<>>, queue[1] = h, ~Undoing(h), queue' = Tail(queue)
  PROVE  UndoerWaits'
<1>1. PICK i \in Lines : Undoing(queue[i])
  BY DEF UndoerWaits
<1>2. queue[i] \in Calls /\ queue[i] # h /\ i # 1
  BY <1>1 DEF Lines, ServerTypeOK, Calls
<1>3. pc'[queue[i]] = pc[queue[i]]
  BY <1>2 DEF Goto, ServerTypeOK, Calls
<1>4. i - 1 \in Lines' /\ queue'[i - 1] = queue[i]
  BY <1>2, LeaveLine DEF Lines, ServerTypeOK, Calls
<1> QED
  BY <1>1, <1>3, <1>4 DEF UndoerWaits, Undoing

(* A call that goes to wait for the lock, or to kill, is one itself. *)
LEMMA NewUndoer ==
  ASSUME ServerTypeOK, NEW h \in Calls, NEW label \in {"undoing", "killing", "killed"},
         Goto(h, label), NEW q \in Seq(Calls),
         queue' \in {Append(q, h), <<h>> \o q}
  PROVE  UndoerWaits'
<1>1. \E i \in Lines' : queue'[i] = h
  <2>1. CASE queue' = Append(q, h)
    <3>1. Len(q) + 1 \in Lines'
      BY <2>1, JoinLine DEF Lines
    <3> QED
      BY <2>1, <3>1, JoinLine
  <2>2. CASE queue' = <<h>> \o q
    <3>1. 1 \in Lines' /\ queue'[1] = h
      BY <2>2 DEF Lines
    <3> QED
      BY <3>1
  <2> QED
    BY <2>1, <2>2
<1>2. pc'[h] = label
  BY DEF Goto, ServerTypeOK, Calls
<1> QED
  BY <1>1, <1>2 DEF UndoerWaits, Undoing

(* Only the head of the line works, hence one call at a time. *)
LEMMA OneWorks ==
  ASSUME LockDiscipline, NEW g \in Calls, NEW h \in Calls, pc[g] \in Working
  PROVE  queue # <<>> /\ queue[1] = g /\ (pc[h] \in Working => g = h)
BY DEF LockDiscipline, Calls
LEMMA FieldsKept ==
  ASSUME ServerTypeOK, LockDiscipline, CallsByLife, FieldsFollowLock, [Next]_vars
  PROVE  FieldsFollowLock'
<1> USE DEF fields, host, life
<1>0. /\ queue \in Seq(Calls) /\ <<>> \in Seq(Calls) /\ NoProc \notin Starter
      /\ queue # <<>> => Tail(queue) \in Seq(Calls)
      /\ Launching # {} => queue # <<>> /\ Launching = {queue[1]}
      /\ queue = <<>> => ~UndoerWaits
  <2>1. queue \in Seq(Calls) /\ (queue # <<>> => Tail(queue) \in Seq(Calls))
    BY LeaveLine DEF ServerTypeOK, Calls
  <2>2. Launching # {} => queue # <<>> /\ Launching = {queue[1]}
    BY OneWorks DEF Launching, Working, Calls
  <2> QED
    BY <2>1, <2>2 DEF UndoerWaits, Lines
<1>1. ASSUME NEW h \in Calls, pc[h] \notin Working, NEW s,
             CallStop(h, process, queue, s), UNCHANGED <<process, config>>,
             s = state \/ s = "failed"
      PROVE  FieldsFollowLock'
  <2>1. CASE queue = <<>> /\ process = NoProc
    BY <1>0, <1>1, <2>1 DEF CallStop, BeginStop, Stopped, Goto, FieldsFollowLock, Launching, ServerTypeOK, Calls
  <2>2. CASE queue = <<>> /\ process # NoProc
    <3>1. UndoerWaits'
      BY <1>0, <1>1, <2>2, NewUndoer DEF CallStop, BeginStop
    <3>2. Launching' = {}
      BY <1>0, <1>1, <2>2 DEF CallStop, BeginStop, Launching, Goto, ServerTypeOK, Calls
    <3> QED
      BY <1>1, <3>1, <3>2 DEF FieldsFollowLock
  <2>3. CASE queue # <<>>
    <3>1. UndoerWaits'
      BY <1>0, <1>1, <2>3, NewUndoer DEF CallStop
    <3>2. Launching' = Launching
      BY <1>1, <2>3 DEF CallStop, Launching, Goto, Working, ServerTypeOK, Calls
    <3> QED
      BY <1>1, <3>1, <3>2 DEF FieldsFollowLock
  <2> QED
    BY <2>1, <2>2, <2>3
<1>2. ASSUME NEW h \in Stopper, Stop(h)
      PROVE  FieldsFollowLock'
  BY <1>1, <1>2 DEF Stop, Working, Calls
<1>3. ASSUME NEW h \in Calls, ResumeStop(h)
      PROVE  FieldsFollowLock'
  <2>1. Launching = {} /\ queue # <<>> /\ Tail(queue) \in Seq(Calls)
    BY <1>0, <1>3, LeaveLine DEF ResumeStop, Holds, Launching, ServerTypeOK, Calls
  <2>2. Launching' = {}
    BY <1>3, <2>1 DEF ResumeStop, BeginStop, Stopped, Goto, Launching, ServerTypeOK, Calls
  <2>3. process # NoProc => UndoerWaits'
    BY <1>3, <2>1, NewUndoer DEF ResumeStop, BeginStop
  <2> QED
    BY <1>3, <2>2, <2>3 DEF ResumeStop, FieldsFollowLock
<1>4. ASSUME NEW h \in Calls, Kill(h)
      PROVE  FieldsFollowLock'
  <2>1. Launching' = Launching
    BY <1>4 DEF Kill, Goto, Launching, ServerTypeOK, Calls
  <2>2. UndoerWaits => UndoerWaits'
    BY <1>4, UndoersStay DEF Kill
  <2> QED
    BY <1>4, <2>1, <2>2 DEF Kill, FieldsFollowLock
<1>5. ASSUME NEW h \in Calls, FinishStop(h)
      PROVE  FieldsFollowLock'
  <2>1. Launching' = {}
    BY <1>5, OneWorks DEF FinishStop, Stopped, Goto, Working, Launching, ServerTypeOK, Calls
  <2> QED
    BY <1>5, <2>1 DEF FinishStop, FieldsFollowLock
<1>6. ASSUME NEW h \in Starter, Start(h)
      PROVE  FieldsFollowLock'
  <2>1. CASE queue = <<>>
    <3>1. Launching = {} /\ Launching' \subseteq {h} /\ BeginStart(h, <<>>)
      BY <1>0, <1>6, <2>1 DEF Start, BeginStart, Goto, Launching, ServerTypeOK, Calls
    <3>2. state \notin {"starting", "ready"} => process = NoProc
      BY <1>0, <2>1 DEF FieldsFollowLock
    <3>3. process # NoProc => config = process
      BY <1>0, <2>1 DEF FieldsFollowLock
    <3>4. Goto(h, "refused") => Launching' = {}
      BY <3>1 DEF Goto, Launching, ServerTypeOK, Calls
    <3> QED
      BY <3>1, <3>2, <3>3, <3>4 DEF BeginStart, FieldsFollowLock
  <2>2. CASE queue # <<>>
    <3>1. UndoerWaits => UndoerWaits'
      BY <1>6, <2>2, UndoersStayAhead DEF Start, Elsewhere, Working, Calls
    <3>2. Launching' = Launching
      BY <1>6, <2>2 DEF Start, Goto, Launching, ServerTypeOK, Calls
    <3> QED
      BY <1>6, <2>2, <3>1, <3>2 DEF Start, FieldsFollowLock
  <2> QED
    BY <2>1, <2>2
<1>7. ASSUME NEW h \in Starter, ResumeStart(h)
      PROVE  FieldsFollowLock'
  <2>1. /\ Launching = {} /\ Launching' \subseteq {h} /\ queue # <<>> /\ queue[1] = h
        /\ BeginStart(h, Tail(queue)) /\ <<h>> \o Tail(queue) = queue /\ UNCHANGED process
    BY <1>0, <1>7, LeaveLine, KeepLine
       DEF ResumeStart, Holds, BeginStart, Goto, Launching, ServerTypeOK, Calls
  <2>2. UndoerWaits => UndoerWaits'
    <3>1. CASE queue' = Tail(queue)
      BY <1>7, <2>1, <3>1, UndoersMoveUp DEF ResumeStart, BeginStart, Undoing, Calls
    <3>2. CASE queue' = queue
      BY <1>7, <2>1, <3>2, UndoersStay DEF ResumeStart, BeginStart, Undoing, Calls
    <3> QED
      BY <2>1, <3>1, <3>2 DEF BeginStart
  <2>3. state \notin {"starting", "ready"} /\ process # NoProc => UndoerWaits
    BY DEF FieldsFollowLock
  <2>4. Goto(h, "refused") => Launching' = {}
    BY <2>1 DEF Goto, Launching, ServerTypeOK, Calls
  <2>5. Launching' # {} => config' = h /\ state' = "starting" /\ state \notin {"starting", "ready"}
    BY <2>1, <2>4 DEF BeginStart
  <2>6. UNCHANGED <<state, config>> \/ (state' = "starting" /\ state \notin {"starting", "ready"})
    BY <2>1 DEF BeginStart
  <2> QED
    BY <2>1, <2>2, <2>3, <2>5, <2>6 DEF FieldsFollowLock
<1>8. ASSUME NEW h \in Starter, Fork(h)
      PROVE  FieldsFollowLock'
  <2>1. Launching' = Launching
    BY <1>8 DEF Fork, Goto, Launching, ServerTypeOK, Calls
  <2>2. UndoerWaits => UndoerWaits'
    BY <1>8, UndoersStay DEF Fork, Undoing, Calls
  <2> QED
    BY <1>8, <2>1, <2>2 DEF Fork, FieldsFollowLock
<1>9. ASSUME NEW h \in Starter, pc[h] \in {"spawning", "forked"}, NEW label \in {"refused", "asking"},
             Goto(h, label), queue' = Tail(queue)
      PROVE  /\ Launching = {h} /\ Launching' = {} /\ config = h
             /\ UndoerWaits => UndoerWaits'
  <2>1. Launching = {h} /\ queue # <<>> /\ queue[1] = h
    BY <1>9, OneWorks DEF Launching, Working, Calls
  <2>2. Launching' = {}
    BY <1>9, <2>1 DEF Launching, Goto, ServerTypeOK, Calls
  <2>3. UndoerWaits => UndoerWaits'
    BY <1>9, <2>1, UndoersMoveUp DEF Undoing, Calls
  <2> QED
    BY <2>1, <2>2, <2>3 DEF FieldsFollowLock
<1>10. ASSUME NEW h \in Starter, CannotLaunch(h)
      PROVE  FieldsFollowLock'
  BY <1>9, <1>10 DEF CannotLaunch, Release, FieldsFollowLock
<1>11. ASSUME NEW h \in Starter, CannotRecord(h)
      PROVE  FieldsFollowLock'
  BY <1>9, <1>11 DEF CannotRecord, Release, FieldsFollowLock
<1>12. ASSUME NEW h \in Starter, Register(h)
      PROVE  FieldsFollowLock'
  <2>1. CASE h \in alive
    BY <1>9, <1>12, <2>1 DEF Register, Release, FieldsFollowLock
  <2>2. CASE h \notin alive
    <3>1. queue # <<>> /\ Launching = {h} /\ CallStop(h, h, Tail(queue), "failed") /\ h # NoProc
      BY <1>0, <1>12, <2>2, OneWorks DEF Register, Launching, Working, Calls
    <3>2. UndoerWaits'
      BY <1>0, <3>1, NewUndoer DEF CallStop, BeginStop, Calls
    <3>3. Launching' = {}
      BY <3>1 DEF CallStop, BeginStop, Launching, Goto, ServerTypeOK, Calls
    <3> QED
      BY <3>2, <3>3 DEF FieldsFollowLock
  <2> QED
    BY <2>1, <2>2
<1>13. ASSUME NEW h \in Starter,
              Look(h) \/ NoAnswer(h) \/ BecomeReady(h) \/ AnswerStarted(h)
      PROVE  FieldsFollowLock'
  <2>1. Launching' = Launching
    BY <1>13 DEF Look, NoAnswer, BecomeReady, AnswerStarted, Goto, Launching, ServerTypeOK, Calls
  <2>2. UndoerWaits => UndoerWaits'
    BY <1>13, UndoersStay DEF Look, NoAnswer, BecomeReady, AnswerStarted, Undoing, Calls
  <2> QED
    BY <1>13, <2>1, <2>2 DEF Look, NoAnswer, BecomeReady, AnswerStarted, FieldsFollowLock
<1>14. ASSUME NEW h \in Starter, GiveUp(h) \/ BadAnswer(h)
      PROVE  FieldsFollowLock'
  BY <1>1, <1>14 DEF GiveUp, BadAnswer, Working, Calls
<1>15. CASE \/ \E h \in Starter : Serve(h) \/ Exit(h)
            \/ Restart
            \/ UNCHANGED vars
  BY <1>15 DEF Serve, Exit, Restart, vars, FieldsFollowLock, Launching, UndoerWaits, Undoing, Lines
<1>16. CASE Die
  BY <1>16 DEF Die, FieldsFollowLock, Launching
<1> QED
  BY <1>2, <1>3, <1>4, <1>5, <1>6, <1>7, <1>8, <1>10, <1>11, <1>12, <1>13, <1>14, <1>15, <1>16
  DEF Next, Handle, Calls
-----------------------------------------------------------------------------
(* Who launches, and who has failed it.                                      *)
LEMMA WatchKept ==
  ASSUME ServerTypeOK, LockDiscipline, LaunchesAreWatched, [Next]_vars
  PROVE  LaunchesAreWatched'
<1> USE DEF LaunchesAreWatched, Launching, fields, host, life, Goto, ServerTypeOK, Label, Ended
<1>0. \A g, h \in Calls : pc[g] \in Working \/ (Holds(g) /\ pc[g] \in {"waiting", "undoing"}) =>
        queue # <<>> /\ (pc[h] \in Working => g = h)
  <2>1. \A g \in Calls : Holds(g) => queue # <<>> /\ queue[1] = g
    BY LeaveLine DEF Holds, Calls
  <2> QED
    BY <2>1 DEF LockDiscipline, Calls
<1>1. ASSUME NEW h \in Calls, Stop(h)
      PROVE  LaunchesAreWatched'
  BY <1>0, <1>1 DEF Stop, CallStop, BeginStop, Stopped, Working, Calls
<1>2. ASSUME NEW h \in Calls, ResumeStop(h)
      PROVE  LaunchesAreWatched'
  BY <1>0, <1>2 DEF ResumeStop, BeginStop, Stopped, Working, Calls
<1>3. ASSUME NEW h \in Calls, Kill(h) \/ FinishStop(h)
      PROVE  LaunchesAreWatched'
  BY <1>0, <1>3 DEF Kill, FinishStop, Stopped, Working, Calls
<1>4. ASSUME NEW h \in Starter, Start(h)
      PROVE  LaunchesAreWatched'
  BY <1>0, <1>4 DEF Start, BeginStart, Working, Calls
<1>5. ASSUME NEW h \in Starter, ResumeStart(h)
      PROVE  LaunchesAreWatched'
  BY <1>0, <1>5 DEF ResumeStart, BeginStart, Working, Calls
<1>6. ASSUME NEW h \in Starter, Fork(h) \/ Look(h) \/ NoAnswer(h) \/ BecomeReady(h) \/ AnswerStarted(h)
      PROVE  LaunchesAreWatched'
  BY <1>6 DEF Fork, Look, NoAnswer, BecomeReady, AnswerStarted, Calls
<1>7. ASSUME NEW h \in Starter, CannotLaunch(h) \/ CannotRecord(h)
      PROVE  LaunchesAreWatched'
  BY <1>0, <1>7 DEF CannotLaunch, CannotRecord, Working, Calls
<1>8. ASSUME NEW h \in Starter, Register(h)
      PROVE  LaunchesAreWatched'
  BY <1>0, <1>8 DEF Register, CallStop, BeginStop, Stopped, Working, Calls
<1>9. ASSUME NEW h \in Starter, GiveUp(h) \/ BadAnswer(h)
      PROVE  LaunchesAreWatched'
  BY <1>0, <1>9 DEF GiveUp, BadAnswer, CallStop, BeginStop, Stopped, Working, Calls
<1>10. CASE (\E h \in Starter : Serve(h) \/ Exit(h)) \/ Restart \/ UNCHANGED vars
  BY <1>10 DEF Serve, Exit, Restart, vars
<1>11. CASE Die
  <2>1. process' = NoProc /\ \A g \in Starter : pc'[g] \notin {"spawning", "forked"}
    BY <1>11 DEF Die
  <2>2. Launching' = {}
    BY <2>1
  <2> QED
    BY <2>1, <2>2
<1> HIDE DEF LaunchesAreWatched, ServerTypeOK, fields, host, life
<1> QED
  BY <1>1, <1>2, <1>3, <1>4, <1>5, <1>6, <1>7, <1>8, <1>9, <1>10, <1>11 DEF Next, Handle, Calls

(* No step but start() itself adds to the starts under way.                  *)
LEMMA FewKept ==
  ASSUME ServerTypeOK, FewUnderWay, [Next]_vars
  PROVE  FewUnderWay'
<1> USE DEF fields, host, life, Goto, ServerTypeOK
<1>1. ASSUME UnderWay' \subseteq UnderWay
      PROVE  FewUnderWay'
  <2>1. /\ Cardinality(UnderWay) \in Nat /\ IsFiniteSet(UnderWay')
        /\ Cardinality(UnderWay') \in Nat /\ Cardinality(UnderWay') <= Cardinality(UnderWay)
    BY <1>1, FS_Subset, FS_CardinalityType DEF FewUnderWay
  <2> QED
    BY <2>1 DEF FewUnderWay
<1>2. ASSUME NEW h \in Starter, Start(h)
      PROVE  FewUnderWay'
  <2>1. \A g \in Starter : g # h => pc'[g] = pc[g]
    BY <1>2 DEF Start, BeginStart
  <2>2. UnderWay' \subseteq UnderWay \cup {h}
    BY <2>1 DEF UnderWay
  <2>3. /\ IsFiniteSet(UnderWay \cup {h})
        /\ Cardinality(UnderWay \cup {h}) <= MaxStarts /\ Cardinality(UnderWay \cup {h}) \in Nat
    <3>1. Cardinality(UnderWay) \in Nat /\ Cardinality(UnderWay) < MaxStarts
      BY <1>2, FS_CardinalityType DEF Start, FewUnderWay
    <3>2. /\ IsFiniteSet(UnderWay \cup {h})
          /\ Cardinality(UnderWay \cup {h}) \in {Cardinality(UnderWay), Cardinality(UnderWay) + 1}
      BY FS_AddElement DEF FewUnderWay
    <3> QED
      BY <3>1, <3>2
  <2>4. /\ IsFiniteSet(UnderWay') /\ Cardinality(UnderWay') \in Nat
        /\ Cardinality(UnderWay') <= Cardinality(UnderWay \cup {h})
    BY <2>2, <2>3, FS_Subset, FS_CardinalityType
  <2> QED
    BY <2>3, <2>4 DEF FewUnderWay
<1>3. ASSUME NEW h \in Calls, pc[h] \notin {"new"} \cup Ended, \E label \in Label : Goto(h, label)
      PROVE  FewUnderWay'
  <2>1. UnderWay' \subseteq UnderWay
    BY <1>3 DEF UnderWay, Calls
  <2> QED
    BY <1>1, <2>1
<1>4. ASSUME NEW h \in Stopper, Stop(h)
      PROVE  FewUnderWay'
  <2>1. \A g \in Starter : pc'[g] = pc[g]
    BY <1>4 DEF Stop, CallStop, BeginStop
  <2> QED
    BY <1>1, <2>1 DEF UnderWay
<1>5. ASSUME NEW h \in Calls, ResumeStop(h) \/ Kill(h) \/ FinishStop(h)
      PROVE  FewUnderWay'
  BY <1>3, <1>5 DEF ResumeStop, BeginStop, Stopped, Kill, FinishStop, Label, Ended
<1>6. ASSUME NEW h \in Starter, ResumeStart(h) \/ Fork(h) \/ CannotLaunch(h) \/ CannotRecord(h)
      PROVE  FewUnderWay'
  BY <1>3, <1>6 DEF ResumeStart, BeginStart, Fork, CannotLaunch, CannotRecord, Label, Ended, Calls
<1>7. ASSUME NEW h \in Starter, Register(h) \/ GiveUp(h) \/ BadAnswer(h)
      PROVE  FewUnderWay'
  BY <1>3, <1>7 DEF Register, GiveUp, BadAnswer, CallStop, BeginStop, Stopped, Label, Ended, Calls
<1>8. ASSUME NEW h \in Starter, Look(h) \/ NoAnswer(h) \/ BecomeReady(h) \/ AnswerStarted(h)
      PROVE  FewUnderWay'
  BY <1>3, <1>8 DEF Look, NoAnswer, BecomeReady, AnswerStarted, Label, Ended, Calls
<1>9. CASE Die
  BY <1>1, <1>9 DEF Die, UnderWay, Ended
<1>10. CASE (\E h \in Starter : Serve(h) \/ Exit(h)) \/ Restart \/ UNCHANGED vars
  BY <1>1, <1>10 DEF Serve, Exit, Restart, vars, UnderWay
<1> QED
  BY <1>2, <1>4, <1>5, <1>6, <1>7, <1>8, <1>9, <1>10 DEF Next, Handle, Calls

(* Initially nobody has called and there is no engine. *)
LEMMA ServerInvInit == ServerInit => ServerTypeOK /\ ServerInv
<1> SUFFICES ASSUME ServerInit PROVE ServerTypeOK /\ ServerInv
  OBVIOUS
<1>1. up \in BOOLEAN /\ up
  BY Zenon DEF ServerInit
<1>2. deaths \in 0..MaxDeaths
  BY MaxDeathsAssumption, SMT DEF ServerInit
<1>3. ServerTypeOK
  BY <1>1, <1>2 DEF ServerInit, ServerTypeOK, ServerState, Label
<1>4. LockDiscipline /\ CallsByLife
  BY <1>1 DEF ServerInit, LockDiscipline, CallsByLife, Lines, Working, Former
<1>5. FieldsFollowLock
  BY DEF ServerInit, FieldsFollowLock, Launching
<1>6. FewUnderWay
  <2>1. UnderWay = {}
    BY DEF ServerInit, UnderWay
  <2> QED
    BY <2>1, FS_EmptySet DEF FewUnderWay
<1>7. LaunchesAreWatched
  BY DEF ServerInit, LaunchesAreWatched, Launching
<1> QED
  BY <1>3, <1>4, <1>5, <1>6, <1>7 DEF ServerInv

(* The lock is held by the head of its queue, and a process that is not the  *)
(* one the config names is about to be stopped, whatever start handlers that *)
(* were given up do meanwhile.                                               *)
THEOREM ServerInvariant == Spec => [](ServerTypeOK /\ ServerInv)
<1>1. ServerTypeOK /\ ServerInv /\ [Next]_vars => (ServerTypeOK /\ ServerInv)'
  BY ServerTypesKept, LockKept, CallsKept, FieldsKept, WatchKept, FewKept DEF ServerInv
<1> QED
  BY <1>1, ServerInvInit, PTL DEF Spec

THEOREM ServerTypes == Spec => []ServerTypeOK
BY ServerInvariant, PTL

(* With nobody holding the lock, the status names the process there is: the  *)
(* config is another one's only while somebody waits to stop it.             *)
THEOREM StatusIsTrue == Spec => []StatusNamesEngine
<1>1. ServerInv => StatusNamesEngine
  BY DEF ServerInv, FieldsFollowLock, UndoerWaits, Lines, StatusNamesEngine
<1> QED
  BY <1>1, ServerInvariant, PTL
-----------------------------------------------------------------------------
(* With two starts under way at a time, of any three two are the same.       *)
TwoUnderWay == \A x, y, z \in UnderWay : x = y \/ y = z \/ x = z

LEMMA OfThree ==
  ASSUME NEW S, IsFiniteSet(S), Cardinality(S) <= 2, NEW x \in S, NEW y \in S, NEW z \in S
  PROVE  x = y \/ y = z \/ x = z
<1> SUFFICES ASSUME x # y, y # z, x # z
             PROVE  FALSE
  OBVIOUS
<1>1. IsFiniteSet({x}) /\ Cardinality({x}) = 1
  BY FS_Singleton
<1>2. IsFiniteSet({x} \cup {y}) /\ Cardinality({x} \cup {y}) = 2
  <2>1. /\ IsFiniteSet({x} \cup {y})
        /\ Cardinality({x} \cup {y}) = IF y \in {x} THEN Cardinality({x}) ELSE Cardinality({x}) + 1
    BY <1>1, FS_AddElement, Zenon
  <2> QED
    BY <1>1, <2>1
<1>3. Cardinality(({x} \cup {y}) \cup {z}) = 3
  <2> DEFINE T == {x} \cup {y}
  <2>1. Cardinality(T \cup {z}) = IF z \in T THEN Cardinality(T) ELSE Cardinality(T) + 1
    BY <1>2, FS_AddElement, Zenon
  <2>2. z \notin T
    OBVIOUS
  <2>3. Cardinality(T) = 2
    BY <1>2
  <2> HIDE DEF T
  <2>4. Cardinality(T \cup {z}) = 3
    BY <2>1, <2>2, <2>3
  <2> QED
    BY <2>4 DEF T
<1>4. /\ Cardinality(({x} \cup {y}) \cup {z}) <= Cardinality(S)
      /\ Cardinality(S) \in Nat
  BY FS_Subset, FS_CardinalityType
<1> QED
  BY <1>3, <1>4

(* Whoever waits behind somebody who will stop the engine stays behind.      *)
LEMMA AheadStays ==
  ASSUME ServerTypeOK, LockDiscipline, NEW g \in Calls, UndoerAhead(g),
         NEW h \in Calls, NEW label, Goto(h, label), queue' \in {queue, Append(queue, h)},
         Elsewhere(pc[h]) \/ ~Undoing(h) \/ label \in {"undoing", "killing", "killed"}
  PROVE  UndoerAhead(g)'
<1>1. PICK i \in Lines, j \in Lines : i < j /\ queue[j] = g /\ Undoing(queue[i])
  BY DEF UndoerAhead
<1>2. queue[i] \in Calls
  BY DEF Lines, ServerTypeOK, Calls
<1>3. pc'[queue[i]] = IF queue[i] = h THEN label ELSE pc[queue[i]]
  BY <1>2 DEF Goto, ServerTypeOK, Calls
<1>4. {i, j} \subseteq Lines' /\ queue'[i] = queue[i] /\ queue'[j] = queue[j]
  BY JoinLine DEF Lines, ServerTypeOK, Calls
<1>5. (Undoing(queue[i]))'
  BY <1>1, <1>3, <1>4 DEF Undoing, Elsewhere, Working
<1> QED
  BY <1>1, <1>4, <1>5 DEF UndoerAhead

LEMMA JoinsBehind ==
  ASSUME ServerTypeOK, LockDiscipline, UndoerWaits, NEW h \in Calls, NEW label,
         Goto(h, label), Elsewhere(pc[h]), queue' = Append(queue, h)
  PROVE  UndoerAhead(h)'
<1>1. PICK i \in Lines : Undoing(queue[i])
  BY DEF UndoerWaits
<1>2. queue[i] \in Calls /\ queue[i] # h
  BY <1>1 DEF Lines, Undoing, Elsewhere, Working, ServerTypeOK, Calls
<1>3. pc'[queue[i]] = pc[queue[i]]
  BY <1>2 DEF Goto, ServerTypeOK, Calls
<1>4. /\ i \in Lines' /\ queue'[i] = queue[i] /\ i < Len(queue) + 1
      /\ Len(queue) + 1 \in Lines' /\ queue'[Len(queue) + 1] = h
  BY JoinLine DEF Lines, ServerTypeOK, Calls
<1> QED
  BY <1>1, <1>3, <1>4 DEF UndoerAhead, Undoing

(* A head that works to stop the engine is ahead of everybody who waits.     *)
LEMMA HeadIsAhead ==
  ASSUME ServerTypeOK, LockDiscipline, NEW h \in Calls, NEW label \in {"killing", "killed"},
         queue # <<>>, queue[1] = h, Goto(h, label), UNCHANGED queue,
         NEW g \in Calls, g # h, pc[g] = "waiting"
  PROVE  UndoerAhead(g)'
<1>1. PICK j \in Lines : queue[j] = g
  BY DEF LockDiscipline, Calls
<1>2. 1 \in Lines /\ 1 < j /\ Lines' = Lines
  BY <1>1, LeaveLine DEF Lines, ServerTypeOK, Calls
<1>3. pc'[h] = label
  BY DEF Goto, ServerTypeOK, Calls
<1> QED
  BY <1>1, <1>2, <1>3 DEF UndoerAhead, Undoing

(* Who waits behind a head that leaves and was to stop nothing moves up.     *)
LEMMA AheadMovesUp ==
  ASSUME ServerTypeOK, LockDiscipline, NEW g \in Calls, UndoerAhead(g),
         NEW h \in Calls, NEW label, Goto(h, label),
         queue # <<>>, queue[1] = h, ~Undoing(h), queue' = Tail(queue)
  PROVE  UndoerAhead(g)'
<1>1. PICK i \in Lines, j \in Lines : i < j /\ queue[j] = g /\ Undoing(queue[i])
  BY DEF UndoerAhead
<1>2. queue[i] \in Calls /\ queue[i] # h /\ i # 1 /\ i \in Nat /\ j \in Nat
  BY <1>1 DEF Lines, ServerTypeOK, Calls
<1>3. pc'[queue[i]] = pc[queue[i]]
  BY <1>2 DEF Goto, ServerTypeOK, Calls
<1>4. /\ i - 1 \in Lines' /\ queue'[i - 1] = queue[i]
      /\ j - 1 \in Lines' /\ queue'[j - 1] = queue[j]
  <2>1. /\ DOMAIN queue = 1..Len(queue) /\ Len(queue) \in Nat \ {0}
        /\ DOMAIN queue' = 1..(Len(queue) - 1)
        /\ \A k \in 1..(Len(queue) - 1) : queue'[k] = queue[k + 1]
    BY LeaveLine DEF ServerTypeOK
  <2>2. i \in 2..Len(queue) /\ j \in 2..Len(queue)
    BY <1>1, <1>2, <2>1 DEF Lines
  <2> QED
    BY <2>1, <2>2 DEF Lines
<1>5. i - 1 < j - 1
  BY <1>1, <1>2
<1> QED
  BY <1>1, <1>3, <1>4, <1>5 DEF UndoerAhead, Undoing

(* Without an owned engine there is little to show. *)
LEMMA NothingOwned ==
  ASSUME Owned' = {}, GivenUpHoldsNothing',
         \/ Launching' = {}
         \/ /\ state' = "starting"
            /\ \A g, k \in Starter : pc'[g] = "polling" => pc'[k] # "waiting",
         deaths' = 0 /\ state' = "ready" => process' # NoProc \/ \E h \in Launching' : pc'[h] = "forked"
  PROVE  OneEngine'
<1>1. EngineNeverLost'
  BY DEF Owned, EngineNeverLost
<1>2. LineIsSafe'
  BY DEF LineIsSafe
<1> QED
  BY <1>1, <1>2 DEF OneEngine
LEMMA OneEngineKept ==
  ASSUME MaxStarts <= 2, ServerTypeOK, ServerInv, OneEngine, [Next]_vars
  PROVE  OneEngine'
<1> USE DEF fields, host, life, ServerInv
<1>two. TwoUnderWay /\ TwoUnderWay'
  <2>1. ASSUME NEW S, IsFiniteSet(S), Cardinality(S) <= MaxStarts
        PROVE  \A x, y, z \in S : x = y \/ y = z \/ x = z
    <3>1. Cardinality(S) \in Nat
      BY <2>1, FS_CardinalityType
    <3>2. Cardinality(S) <= 2
      BY <2>1, <3>1
    <3> QED
      BY <2>1, <3>2, OfThree
  <2>2. /\ IsFiniteSet(UnderWay) /\ Cardinality(UnderWay) <= MaxStarts
        /\ IsFiniteSet(UnderWay') /\ Cardinality(UnderWay') <= MaxStarts
    BY FewKept DEF FewUnderWay
  <2>3. TwoUnderWay
    BY <2>1, <2>2, Zenon DEF TwoUnderWay
  <2>4. TwoUnderWay'
    BY <2>1, <2>2, Zenon DEF TwoUnderWay
  <2> QED
    BY <2>3, <2>4
<1>0. /\ NoProc \notin Starter /\ Owned \subseteq Starter
      /\ \A p \in Owned : pc[p] \notin {"new", "waiting", "spawning"}
      /\ \A p \in Owned : pc[p] # "forked" => process = p /\ (pc[p] = "refused" \/ record = p)
      /\ \A g, h \in Calls : pc[g] \in Working /\ pc[h] \in Working => g = h
      /\ \A g \in Calls : pc[g] \in Working => queue # <<>> /\ queue[1] = g
      /\ \A h \in Launching : pc[h] \in Working
      /\ queue # <<>> => Head(queue) = queue[1]
  BY LeaveLine, OneWorks
     DEF OneEngine, EngineNeverLost, Owned, CallsByLife, Launching, Working, ServerTypeOK, Calls
(* stop() called from outside ... *)
<1>1. ASSUME NEW h \in Calls, NEW s, CallStop(h, process, queue, s),
             UNCHANGED <<process, host, life>>,
             \/ h \in Stopper /\ pc[h] = "new" /\ s = state
             \/ h \in Starter /\ pc[h] = "asking" /\ s = state
             \/ h \in Starter /\ pc[h] = "polling" /\ s \in {state, "failed"}
      PROVE  OneEngine'
  <2>1. CASE queue = <<>> /\ process = NoProc
    <3>1. Launching = {} /\ Owned = {}
      BY <1>0, <2>1 DEF Launching, Calls
    <3>2. Goto(h, Stopped(h)) /\ state' = "stopped"
      BY <1>1, <2>1 DEF CallStop, BeginStop
    <3>3. Launching' = {} /\ Owned' = {}
      BY <1>1, <3>1, <3>2 DEF Stopped, Goto, Launching, Owned, Former, ServerTypeOK, Calls
    <3>4. GivenUpHoldsNothing'
      BY <1>1, <3>1, <3>2
         DEF OneEngine, GivenUpHoldsNothing, Owned, Former, Goto, Stopped, ServerTypeOK, Calls
    <3> QED
      BY <3>2, <3>3, <3>4, NothingOwned
  <2>2. CASE queue = <<>> /\ process # NoProc
    <3>1. Goto(h, "killing") /\ state' = "stopping" /\ UndoerWaits'
      <4>1. Goto(h, "killing") /\ state' = "stopping" /\ queue' = <<h>> \o <<>>
        BY <1>1, <2>2 DEF CallStop, BeginStop
      <4>2. <<>> \in Seq(Calls)
        OBVIOUS
      <4> QED
        BY <4>1, <4>2, NewUndoer
    <3>2. \A g \in Calls : pc'[g] = IF g = h THEN "killing" ELSE pc[g]
      BY <3>1 DEF Goto, ServerTypeOK, Calls
    <3>3. Launching' = {} /\ \A g \in Calls : pc[g] \notin Working \cup {"waiting"}
      BY <1>0, <2>2, <3>2 DEF Launching, LockDiscipline, Lines, Working, Calls
    <3>4. EngineNeverLost'
      BY <1>1, <3>2 DEF OneEngine, EngineNeverLost, Former, ServerTypeOK, Calls
    <3>5. GivenUpHoldsNothing'
      BY <1>1, <3>2 DEF OneEngine, GivenUpHoldsNothing, Calls
    <3>6. LineIsSafe'
      BY <3>2, <3>3 DEF LineIsSafe, Calls
    <3> QED
      BY <3>1, <3>2, <3>3, <3>4, <3>5, <3>6 DEF OneEngine, Working, Calls
  <2>3. CASE queue # <<>>
    <3>1. Goto(h, "undoing") /\ state' = s /\ queue' = Append(queue, h)
      BY <1>1, <2>3 DEF CallStop
    <3>2. \A g \in Calls : pc'[g] = IF g = h THEN "undoing" ELSE pc[g]
      BY <3>1 DEF Goto, ServerTypeOK, Calls
    <3>3. UndoerWaits'
      BY <3>1, NewUndoer DEF ServerTypeOK, Calls
    <3>4. \A g \in Calls : UndoerAhead(g) => UndoerAhead(g)'
      BY <1>1, <3>1, AheadStays
    <3>5. Launching' = Launching /\ Owned' = Owned
      BY <1>1, <3>2 DEF Launching, Owned, Former, ServerTypeOK, Calls
    <3>6. EngineNeverLost'
      BY <1>1, <3>2 DEF OneEngine, EngineNeverLost, Former, ServerTypeOK, Calls
    <3>7. GivenUpHoldsNothing'
      BY <1>1, <3>2 DEF OneEngine, GivenUpHoldsNothing, Calls
    <3>8. LineIsSafe'
      <4> SUFFICES ASSUME (Owned \cup Launching)' # {},
                          state' \notin {"starting", "ready"} \/ \E k \in Starter : pc'[k] = "polling",
                          NEW g \in Starter, pc'[g] = "waiting"
                   PROVE  UndoerAhead(g)'
        BY DEF LineIsSafe
      <4>1. pc[g] = "waiting"
        BY <3>2 DEF Calls
      <4>2. state \notin {"starting", "ready"} \/ \E k \in Starter : pc[k] = "polling"
        BY <1>1, <3>1, <3>2 DEF Calls
      <4>3. UndoerAhead(g)
        BY <3>5, <4>1, <4>2 DEF OneEngine, LineIsSafe
      <4> QED
        BY <3>4, <4>3 DEF Calls
    <3>10. deaths' = 0 /\ state' = "ready" /\ process' = NoProc =>
             \E g \in Launching' : pc'[g] = "forked"
      BY <1>1, <3>1, <3>2, <3>5 DEF OneEngine, Launching, Calls
    <3>11. (\E g \in Starter \cup Stopper : pc'[g] = "killed") => Owned' = {}
      BY <3>2, <3>5 DEF OneEngine, Calls
    <3> QED
      BY <3>5, <3>6, <3>7, <3>8, <3>10, <3>11 DEF OneEngine
  <2> QED
    BY <2>1, <2>2, <2>3
(* ... and by the head of the line. *)
(* A forked engine is taken over, with its record or without.                *)
<1>taken. ASSUME NEW h \in Starter, NEW label \in {"asking", "refused"}, Goto(h, label), pc[h] = "forked",
                 process' = h, record' = h \/ label = "refused", UNCHANGED <<state, alive, deaths>>,
                 queue' = Tail(queue)
          PROVE  OneEngine'
  <2>1. \A g \in Calls : pc'[g] = IF g = h THEN label ELSE pc[g]
    BY <1>taken DEF Goto, ServerTypeOK, Calls
  <2>2. Owned \subseteq {h} /\ h \in Launching /\ Owned' = Owned
    BY <1>taken, <2>1 DEF OneEngine, Launching, Owned, Former, ServerTypeOK, Calls
  <2>3. Launching' = {} /\ \A g \in Calls : pc'[g] # "killed"
    BY <1>0, <1>taken, <2>1 DEF Launching, Working, Calls
  <2>4. EngineNeverLost'
    BY <1>taken, <2>1, <2>2 DEF EngineNeverLost, Owned, Calls
  <2>5. GivenUpHoldsNothing'
    BY <1>taken, <2>1 DEF OneEngine, GivenUpHoldsNothing, Calls
  <2>6. LineIsSafe'
    <3> SUFFICES ASSUME state' \notin {"starting", "ready"} \/ \E k \in Starter : pc'[k] = "polling",
                        NEW g \in Starter, pc'[g] = "waiting"
                 PROVE  UndoerAhead(g)'
      BY DEF LineIsSafe
    <3>1. pc[g] = "waiting" /\ \A k \in Starter : pc'[k] = "polling" => pc[k] = "polling"
      BY <1>taken, <2>1 DEF Calls
    <3>2. UndoerAhead(g)
      BY <1>taken, <2>2, <3>1 DEF OneEngine, LineIsSafe
    <3>3. queue # <<>> /\ queue[1] = h /\ ~Undoing(h) /\ h \in Calls /\ g \in Calls
      BY <1>0, <1>taken DEF Working, Undoing, Calls
    <3> QED
      BY <1>taken, <3>2, <3>3, AheadMovesUp
  <2> QED
    BY <1>0, <1>taken, <2>3, <2>4, <2>5, <2>6, CallAssumption DEF OneEngine, Calls
(* start() with the lock: it launches only where no engine is owned.         *)
<1>start. ASSUME NEW h \in Starter, NEW q, BeginStart(h, q), pc[h] \in {"new", "waiting"}, h \notin alive,
              UNCHANGED <<process, host, life>>, Launching = {},
              state \notin {"starting", "ready"} => Owned = {},
              \/ queue = <<>>
              \/ queue # <<>> /\ queue[1] = h /\ pc[h] = "waiting" /\ q = Tail(queue)
       PROVE  OneEngine'
  <2>1. \A p \in Owned : process = p /\ p # h
    BY <1>0, <1>start DEF Launching
  <2>2. CASE Owned = {}
    <3>1. PICK label \in {"refused", "spawning"} : Goto(h, label) /\ (label = "spawning" => state' = "starting")
      BY <1>start DEF BeginStart
    <3>2. \A g \in Calls : pc'[g] = IF g = h THEN label ELSE pc[g]
      BY <3>1 DEF Goto, ServerTypeOK, Calls
    <3>3. Owned' = {} /\ GivenUpHoldsNothing'
      BY <1>start, <2>2, <3>2 DEF Owned, Former, OneEngine, GivenUpHoldsNothing, ServerTypeOK, Calls
    <3>4. Launching' = {} \/ state' = "starting"
      BY <1>start, <3>1, <3>2 DEF Launching, Calls
    <3>5. state' \in {state, "starting"}
      BY <1>start DEF BeginStart
    <3>6. ASSUME Launching' # {}, NEW g \in Starter, pc'[g] = "polling", NEW k \in Starter, pc'[k] = "waiting"
          PROVE  FALSE
      <4>1. g # h /\ k # h /\ g # k /\ pc'[h] = "spawning"
        BY <1>start, <3>2, <3>6 DEF Launching, Calls
      <4>2. {g, h, k} \subseteq UnderWay'
        BY <3>6, <4>1 DEF UnderWay, Ended
      <4> QED
        BY <1>two, <4>1, <4>2 DEF TwoUnderWay
    <3> QED
      BY <1>start, <3>3, <3>4, <3>5, <3>6, NothingOwned DEF OneEngine
  <2>3. CASE Owned # {}
    <3>1. Goto(h, "refused") /\ state \in {"starting", "ready"} /\ UNCHANGED state
      BY <1>start, <2>3 DEF BeginStart
    <3>2. \A g \in Calls : pc'[g] = IF g = h THEN "refused" ELSE pc[g]
      BY <3>1 DEF Goto, ServerTypeOK, Calls
    <3>3. Owned' = Owned /\ Launching' = {} /\ process # NoProc
      BY <1>0, <1>start, <2>1, <2>3, <3>2 DEF Owned, Launching, Former, ServerTypeOK, Calls
    <3>4. EngineNeverLost' /\ GivenUpHoldsNothing'
      BY <1>start, <3>2 DEF OneEngine, EngineNeverLost, GivenUpHoldsNothing, Former, ServerTypeOK, Calls
    <3>5. LineIsSafe'
      <4> SUFFICES ASSUME state' \notin {"starting", "ready"} \/ \E k \in Starter : pc'[k] = "polling",
                          NEW g \in Starter, pc'[g] = "waiting"
                   PROVE  UndoerAhead(g)'
        BY DEF LineIsSafe
      <4>1. pc[g] = "waiting" /\ \A k \in Starter : pc'[k] = "polling" => pc[k] = "polling"
        BY <3>2 DEF Calls
      <4>2. UndoerAhead(g)
        BY <2>3, <3>1, <4>1 DEF OneEngine, LineIsSafe
      <4>3. queue # <<>>
        BY <4>2 DEF UndoerAhead, Lines
      <4>4. queue[1] = h /\ pc[h] = "waiting" /\ queue' = Tail(queue)
        BY <1>start, <3>1, <4>3 DEF BeginStart, Goto, ServerTypeOK, Calls
      <4>5. ~Undoing(h) /\ h \in Calls /\ g \in Calls
        BY <4>4 DEF Undoing, Calls
      <4> QED
        BY <3>1, <4>2, <4>3, <4>4, <4>5, AheadMovesUp
    <3>6. \A g \in Calls : pc'[g] # "killed"
      BY <1>start, <2>3, <3>2 DEF OneEngine, Calls
    <3> QED
      BY <1>start, <3>1, <3>3, <3>4, <3>5, <3>6 DEF OneEngine, Calls
  <2> QED
    BY <2>2, <2>3
<1>2. ASSUME NEW h \in Calls, ResumeStop(h)
      PROVE  OneEngine'
  <2>0. Launching = {} /\ queue # <<>> /\ queue[1] = h /\ pc[h] = "undoing"
        /\ \A p \in Owned : process = p
    BY <1>0, <1>2 DEF ResumeStop, Holds, Launching, Owned, Working, Calls
  <2>1. CASE process = NoProc
    <3>1. Goto(h, Stopped(h)) /\ state' = "stopped"
      BY <1>2, <2>1 DEF ResumeStop, BeginStop
    <3>2. Owned = {}
      BY <1>0, <2>0, <2>1
    <3>3. Launching' = {} /\ Owned' = {}
      BY <1>2, <2>0, <3>1, <3>2
         DEF ResumeStop, Stopped, Goto, Launching, Owned, Former, ServerTypeOK, Calls
    <3>4. GivenUpHoldsNothing'
      BY <1>2, <2>0, <3>1, <3>2
         DEF ResumeStop, OneEngine, GivenUpHoldsNothing, Owned, Former, Goto, Stopped, ServerTypeOK, Calls
    <3> QED
      BY <3>1, <3>3, <3>4, NothingOwned
  <2>2. CASE process # NoProc
    <3>1. Goto(h, "killing") /\ state' = "stopping" /\ queue' = queue
      BY <1>0, <1>2, <2>0, <2>2, KeepLine DEF ResumeStop, BeginStop, ServerTypeOK, Calls
    <3>2. \A g \in Calls : pc'[g] = IF g = h THEN "killing" ELSE pc[g]
      BY <3>1 DEF Goto, ServerTypeOK, Calls
    <3>3. UndoerWaits'
      BY <2>0, <3>1, <3>2, LeaveLine DEF UndoerWaits, Undoing, Lines, ServerTypeOK, Calls
    <3>4. \A g \in Calls : pc'[g] = "waiting" => UndoerAhead(g)'
      BY <2>0, <3>1, <3>2, HeadIsAhead
    <3>5. Launching' = {} /\ \A g \in Calls : pc'[g] # "killed"
      BY <2>0, <1>0, <3>2 DEF Launching, LockDiscipline, Working, Calls
    <3>6. EngineNeverLost'
      BY <1>2, <2>0, <3>2 DEF ResumeStop, OneEngine, EngineNeverLost, Former, ServerTypeOK, Calls
    <3>7. GivenUpHoldsNothing'
      BY <1>2, <3>2 DEF ResumeStop, OneEngine, GivenUpHoldsNothing, Calls
    <3>8. LineIsSafe'
      BY <3>4 DEF LineIsSafe, Calls
    <3> QED
      BY <3>1, <3>3, <3>5, <3>6, <3>7, <3>8 DEF OneEngine, Calls
  <2> QED
    BY <2>1, <2>2
<1>3. ASSUME NEW h \in Calls, Kill(h)
      PROVE  OneEngine'
  <2>1. Launching' = {} /\ Launching = {} /\ Owned' = {}
    BY <1>0, <1>3 DEF Kill, Goto, Launching, Owned, Working, Former, ServerTypeOK, Calls
  <2>2. GivenUpHoldsNothing'
    BY <1>3 DEF Kill, OneEngine, GivenUpHoldsNothing, Goto, ServerTypeOK, Calls
  <2> QED
    BY <1>3, <2>1, <2>2, NothingOwned DEF Kill, OneEngine
<1>4. ASSUME NEW h \in Calls, FinishStop(h)
      PROVE  OneEngine'
  <2>1. Launching' = {} /\ Launching = {} /\ Owned' = {} /\ Owned = {}
    BY <1>0, <1>4
       DEF FinishStop, Stopped, Goto, Launching, OneEngine, Owned, Working, Former, ServerTypeOK, Calls
  <2>2. GivenUpHoldsNothing'
    BY <1>4, <2>1 DEF FinishStop, OneEngine, GivenUpHoldsNothing, Owned, Former, Goto, ServerTypeOK, Calls
  <2> QED
    BY <1>4, <2>1, <2>2, NothingOwned DEF FinishStop
<1>5. ASSUME NEW h \in Starter, Start(h)
      PROVE  OneEngine'
  <2>0. pc[h] = "new" /\ h \notin alive /\ UNCHANGED <<process, host, life>>
    BY <1>5 DEF Start, BeginStart, CallsByLife
  <2>1. CASE queue # <<>>
    <3>1. Goto(h, "waiting") /\ queue' = Append(queue, h) /\ state' = state
      BY <1>5, <2>1 DEF Start
    <3>2. \A g \in Calls : pc'[g] = IF g = h THEN "waiting" ELSE pc[g]
      BY <3>1 DEF Goto, ServerTypeOK, Calls
    <3>3. Launching' = Launching /\ Owned' = Owned /\ h \notin Owned
      BY <2>0, <3>2 DEF Launching, Owned, Former, ServerTypeOK, Calls
    <3>4. UndoerWaits => UndoerWaits' /\ UndoerAhead(h)'
      BY <2>0, <3>1, UndoersStayAhead, JoinsBehind DEF Elsewhere, Working, Calls
    <3>5. \A g \in Calls : UndoerAhead(g) => UndoerAhead(g)'
      BY <2>0, <3>1, AheadStays DEF Elsewhere, Working, Calls
    <3>6. ASSUME NEW k \in Starter, pc[k] = "polling"
          PROVE  UndoerWaits
      <4>1. PICK i \in Lines : i = 1
        BY <2>1, LeaveLine DEF Lines, ServerTypeOK, Calls
      <4>2. queue[i] \in Calls /\ queue[i] # k /\ queue[i] # h /\ pc[queue[i]] \in Working \cup {"waiting", "undoing"}
        BY <2>0, <3>6, <4>1 DEF LockDiscipline, Lines, Working, ServerTypeOK, Calls
      <4>3. ASSUME queue[i] \in Starter
            PROVE  FALSE
        <5>1. {queue[i], k, h} \subseteq UnderWay' /\ k # h
          BY <2>0, <3>2, <3>6, <4>2, <4>3 DEF UnderWay, Working, Ended, Calls
        <5> QED
          BY <1>two, <4>2, <5>1 DEF TwoUnderWay
      <4>4. Undoing(queue[i])
        BY <4>2, <4>3 DEF CallsByLife, Working, Undoing, Calls
      <4> QED
        BY <4>4 DEF UndoerWaits
    <3>7. LineIsSafe'
      <4> SUFFICES ASSUME (Owned \cup Launching)' # {},
                          state' \notin {"starting", "ready"} \/ \E k \in Starter : pc'[k] = "polling",
                          NEW g \in Starter, pc'[g] = "waiting"
                   PROVE  UndoerAhead(g)'
        BY DEF LineIsSafe
      <4>1. \A k \in Starter : pc'[k] = "polling" => pc[k] = "polling"
        BY <3>2 DEF Calls
      <4>2. CASE g # h
        <5>1. UndoerAhead(g)
          BY <3>1, <3>2, <3>3, <4>1, <4>2 DEF OneEngine, LineIsSafe, Calls
        <5> QED
          BY <3>5, <5>1 DEF Calls
      <4>3. CASE g = h
        <5>1. Launching # {} \/ process # NoProc
          BY <1>0, <3>3 DEF Launching
        <5>2. UndoerWaits
          BY <3>1, <3>6, <4>1, <5>1 DEF FieldsFollowLock
        <5> QED
          BY <3>4, <4>3, <5>2 DEF Calls
      <4> QED
        BY <4>2, <4>3
    <3>8. EngineNeverLost' /\ GivenUpHoldsNothing'
      BY <2>0, <3>2 DEF OneEngine, EngineNeverLost, GivenUpHoldsNothing, Former, ServerTypeOK, Calls
    <3>10. /\ (\E g \in Starter \cup Stopper : pc'[g] = "killed") => Owned' = {}
           /\ deaths' = 0 /\ state' = "ready" /\ process' = NoProc =>
                \E g \in Launching' : pc'[g] = "forked"
      BY <2>0, <3>1, <3>2, <3>3 DEF OneEngine, Launching, Calls
    <3> QED
      BY <3>3, <3>7, <3>8, <3>10 DEF OneEngine
  <2>2. CASE queue = <<>>
    <3>1. BeginStart(h, <<>>) /\ Launching = {} /\ ~UndoerWaits /\ \A g \in Calls : pc[g] # "waiting"
      <4>1. Lines = {}
        BY <2>2 DEF Lines
      <4>2. BeginStart(h, <<>>)
        BY <1>5, <2>2 DEF Start
      <4>3. Launching = {}
        BY <1>0, <2>2 DEF Launching, Calls
      <4>4. ~UndoerWaits /\ \A g \in Calls : pc[g] # "waiting"
        BY <4>1 DEF UndoerWaits, LockDiscipline, Calls
      <4> QED
        BY <4>2, <4>3, <4>4
    <3>2. state \notin {"starting", "ready"} => Owned = {}
      BY <1>0, <2>0, <3>1 DEF FieldsFollowLock, Launching
    <3> QED
      BY <1>start, <2>0, <2>2, <3>1, <3>2
  <2> QED
    BY <2>1, <2>2
<1>6. ASSUME NEW h \in Starter, ResumeStart(h)
      PROVE  OneEngine'
  <2>0. /\ pc[h] = "waiting" /\ h \notin alive /\ UNCHANGED <<process, host, life>>
        /\ queue # <<>> /\ queue[1] = h /\ BeginStart(h, Tail(queue)) /\ Launching = {}
    BY <1>0, <1>6 DEF ResumeStart, Holds, BeginStart, CallsByLife, Launching, Working, Calls
  <2>1. state \notin {"starting", "ready"} => Owned = {}
    <3> SUFFICES ASSUME state \notin {"starting", "ready"}, NEW p \in Owned
                 PROVE  FALSE
      OBVIOUS
    <3>1. UndoerAhead(h)
      BY <2>0 DEF OneEngine, LineIsSafe
    <3>2. PICK i \in Lines, j \in Lines : i < j /\ queue[j] = h
      BY <3>1 DEF UndoerAhead
    <3>3. 1 \in Lines /\ i \in Nat \ {0} /\ j \in Nat
      BY <2>0, LeaveLine DEF Lines, ServerTypeOK, Calls
    <3> QED
      BY <2>0, <3>2, <3>3 DEF LockDiscipline
  <2> QED
    BY <1>start, <2>0, <2>1
<1>7. ASSUME NEW h \in Starter, Fork(h)
      PROVE  OneEngine'
  <2>1. pc[h] = "spawning" /\ h \notin alive /\ Goto(h, "forked") /\ alive' = alive \cup {h}
    BY <1>7 DEF Fork, CallsByLife
  <2>2. \A g \in Calls : pc'[g] = IF g = h THEN "forked" ELSE pc[g]
    BY <2>1 DEF Goto, ServerTypeOK, Calls
  <2>3. Owned \subseteq {h} /\ h \notin Owned
    BY <2>1 DEF OneEngine, Launching, Owned
  <2>4. Owned' = {h} /\ Launching' = Launching /\ h \in Launching
    <3>1. Owned' \subseteq Owned \cup {h} /\ h \in Owned'
      BY <1>7, <2>1, <2>2 DEF Owned, Former, ServerTypeOK, Calls
    <3>2. Launching' = Launching /\ h \in Launching
      BY <2>1, <2>2 DEF Launching, Calls
    <3> QED
      BY <2>3, <3>1, <3>2
  <2>5. EngineNeverLost'
    BY <2>2, <2>4 DEF EngineNeverLost, Owned, Calls
  <2>6. GivenUpHoldsNothing'
    BY <2>1, <2>2 DEF OneEngine, GivenUpHoldsNothing, Calls
  <2>7. \A g \in Calls : pc'[g] # "killed" /\ (g \in Launching => g = h)
    BY <1>0, <2>1, <2>2 DEF Working, Calls
  <2>8. LineIsSafe'
    <3>1. \A g \in Calls : UndoerAhead(g) => UndoerAhead(g)'
      BY <1>7, <2>1, AheadStays DEF Fork, Undoing, Calls
    <3>2. Launching # {}
      BY <2>4
    <3> QED
      BY <1>7, <2>2, <3>1, <3>2 DEF Fork, OneEngine, LineIsSafe, Calls
  <2> QED
    BY <1>7, <2>2, <2>4, <2>5, <2>6, <2>7, <2>8 DEF Fork, OneEngine, Launching, Calls
<1>8. ASSUME NEW h \in Starter, CannotLaunch(h)
      PROVE  OneEngine'
  <2>1. Launching' = {} /\ Owned' = {}
    BY <1>0, <1>8 DEF CannotLaunch, Goto, Launching, OneEngine, Owned, Working, Former, ServerTypeOK, Calls
  <2>2. GivenUpHoldsNothing'
    BY <1>8 DEF CannotLaunch, OneEngine, GivenUpHoldsNothing, Goto, ServerTypeOK, Calls
  <2> QED
    BY <1>8, <2>1, <2>2, NothingOwned DEF CannotLaunch
<1>9. ASSUME NEW h \in Starter, CannotRecord(h)
      PROVE  OneEngine'
  <2>1. /\ Goto(h, "refused") /\ pc[h] = "forked" /\ process' = h /\ UNCHANGED <<state, host, life>>
        /\ queue' = Tail(queue)
    BY <1>9 DEF CannotRecord, Release
  <2> QED
    BY <1>taken, <2>1
<1>10. ASSUME NEW h \in Starter, Register(h)
      PROVE  OneEngine'
  <2>1. CASE h \in alive
    <3>1. Goto(h, "asking") /\ pc[h] = "forked" /\ process' = h /\ record' = h
          /\ UNCHANGED <<state, alive, serving, life>>
      BY <1>10, <2>1 DEF Register
    <3>2. queue' = Tail(queue)
      BY <1>10, <2>1 DEF Register, Release
    <3> QED
      BY <1>taken, <3>1, <3>2
  <2>2. CASE h \notin alive
    <3>1. PICK label \in {"killing", "undoing"} : Goto(h, label)
      BY <1>0, <1>10, <2>2 DEF Register, CallStop, BeginStop
    <3>2. \A g \in Calls : pc'[g] = IF g = h THEN label ELSE pc[g]
      BY <3>1 DEF Goto, ServerTypeOK, Calls
    <3>3. pc[h] = "forked" /\ process' = h /\ UNCHANGED <<alive, deaths>>
      BY <1>10, <2>2 DEF Register
    <3>4. Owned = {}
      BY <2>2, <3>3 DEF OneEngine, Launching, Owned
    <3>5. Owned' = {} /\ GivenUpHoldsNothing'
      BY <2>2, <3>2, <3>3, <3>4 DEF OneEngine, Owned, Former, GivenUpHoldsNothing, ServerTypeOK, Calls
    <3>6. Launching' = {}
      BY <1>0, <3>2, <3>3 DEF Launching, Working, Calls
    <3> QED
      BY <1>0, <3>3, <3>5, <3>6, NothingOwned
  <2> QED
    BY <2>1, <2>2
<1>11. ASSUME NEW h \in Starter, Look(h) \/ AnswerStarted(h)
      PROVE  OneEngine'
  <2>1. PICK label \in {"asking", "ok"} :
          /\ Goto(h, label) /\ pc[h] \in {"polling", "capturing"}
          /\ UNCHANGED <<fields, queue, host, life>>
    BY <1>11 DEF Look, AnswerStarted
  <2>2. \A g \in Calls : pc'[g] = IF g = h THEN label ELSE pc[g]
    BY <2>1 DEF Goto, ServerTypeOK, Calls
  <2>3. Owned' = Owned /\ Launching' = Launching
    BY <2>1, <2>2 DEF Owned, Launching, Former, ServerTypeOK, Calls
  <2>4. EngineNeverLost' /\ GivenUpHoldsNothing'
    BY <2>1, <2>2 DEF OneEngine, EngineNeverLost, GivenUpHoldsNothing, Former, ServerTypeOK, Calls
  <2>5. /\ UndoerWaits => UndoerWaits'
        /\ \A g \in Calls : UndoerAhead(g) => UndoerAhead(g)'
    BY <2>1, UndoersStay, AheadStays DEF Undoing, Calls
  <2>6. LineIsSafe'
    BY <2>1, <2>2, <2>3, <2>5 DEF OneEngine, LineIsSafe, Calls
  <2> QED
    BY <1>0, <2>1, <2>2, <2>3, <2>4, <2>6 DEF OneEngine, Launching, Calls
<1>12. ASSUME NEW h \in Starter, NoAnswer(h)
      PROVE  OneEngine'
  <2>1. Goto(h, "polling") /\ pc[h] = "asking" /\ Awake /\ UNCHANGED <<fields, queue, host, life>>
    BY <1>12 DEF NoAnswer
  <2>2. \A g \in Calls : pc'[g] = IF g = h THEN "polling" ELSE pc[g]
    BY <2>1 DEF Goto, ServerTypeOK, Calls
  <2>3. Owned' = Owned /\ Launching' = Launching
    BY <2>1, <2>2 DEF Owned, Launching, Former, ServerTypeOK, Calls
  <2>4. EngineNeverLost' /\ GivenUpHoldsNothing'
    BY <2>1, <2>2 DEF OneEngine, EngineNeverLost, GivenUpHoldsNothing, Former, ServerTypeOK, Calls
  <2>5. /\ UndoerWaits => UndoerWaits'
        /\ \A g \in Calls : UndoerAhead(g) => UndoerAhead(g)'
    BY <2>1, UndoersStay, AheadStays DEF Undoing, Calls
  <2>6. ASSUME NEW g \in Starter, pc[g] = "waiting"
        PROVE  UndoerAhead(g)
    <3>1. PICK j \in Lines : queue[j] = g
      BY <2>6 DEF LockDiscipline, Calls
    <3>2. queue # <<>> /\ 1 \in Lines /\ queue[1] \in Calls /\ Head(queue) = queue[1]
      BY <3>1, LeaveLine DEF Lines, ServerTypeOK, Calls
    <3>3. pc[queue[1]] \notin {"waiting", "undoing"}
      BY <2>1, <3>2 DEF Awake, Holds, Calls
    <3>4. pc[queue[1]] \in Working /\ queue[1] # g /\ queue[1] # h
      BY <2>1, <2>6, <3>2, <3>3 DEF LockDiscipline, Working
    <3>5. queue[1] \in Stopper
      <4>1. queue[1] \in Starter => {queue[1], g, h} \subseteq UnderWay /\ g # h
        BY <2>1, <2>6, <3>4 DEF UnderWay, Working, Ended
      <4> QED
        BY <1>two, <3>2, <3>4, <4>1 DEF TwoUnderWay, Calls
    <3>6. Undoing(queue[1])
      BY <3>4, <3>5 DEF CallsByLife, Working, Undoing
    <3>7. 1 < j
      BY <3>1, <3>4 DEF Lines, ServerTypeOK
    <3> QED
      BY <3>1, <3>2, <3>6, <3>7 DEF UndoerAhead
  <2>7. \A g \in Starter : pc'[g] = "waiting" => UndoerAhead(g)'
    BY <2>2, <2>5, <2>6 DEF Calls
  <2>8. LineIsSafe'
    BY <2>7 DEF LineIsSafe
  <2> QED
    BY <2>1, <2>2, <2>3, <2>4, <2>8 DEF OneEngine, Launching, Calls
<1>13. ASSUME NEW h \in Starter, BecomeReady(h)
      PROVE  OneEngine'
  <2>1. Goto(h, "capturing") /\ pc[h] = "asking" /\ state' = "ready" /\ serving # {}
        /\ UNCHANGED <<process, config, queue, host, life>>
    BY <1>13 DEF BecomeReady
  <2>2. \A g \in Calls : pc'[g] = IF g = h THEN "capturing" ELSE pc[g]
    BY <2>1 DEF Goto, ServerTypeOK, Calls
  <2>3. Owned' = Owned /\ Launching' = Launching
    BY <2>1, <2>2 DEF Owned, Launching, Former, ServerTypeOK, Calls
  <2>4. EngineNeverLost' /\ GivenUpHoldsNothing'
    BY <2>1, <2>2 DEF OneEngine, EngineNeverLost, GivenUpHoldsNothing, Former, ServerTypeOK, Calls
  <2>5. \A g \in Calls : UndoerAhead(g) => UndoerAhead(g)'
    BY <2>1, AheadStays DEF Undoing, Calls
  <2>6. deaths = 0 /\ process = NoProc => \E g \in Launching' : pc'[g] = "forked"
    <3> SUFFICES ASSUME deaths = 0, process = NoProc
                 PROVE  \E g \in Launching' : pc'[g] = "forked"
      OBVIOUS
    <3>1. PICK p \in serving : p \in Owned
      BY <2>1 DEF Owned, CallsByLife, ServerTypeOK, Calls
    <3>2. pc[p] = "forked" /\ p \in Starter
      BY <1>0, <3>1
    <3> QED
      BY <2>1, <2>2, <2>3, <3>2 DEF Launching, Calls
  <2>7. LineIsSafe'
    BY <2>1, <2>2, <2>3, <2>5 DEF OneEngine, LineIsSafe, Calls
  <2> QED
    BY <1>0, <2>1, <2>2, <2>3, <2>4, <2>6, <2>7 DEF OneEngine, Launching, Calls
<1>14. ASSUME NEW h \in Starter, Serve(h) \/ Exit(h)
      PROVE  OneEngine'
  <2>1. alive' \in {alive, alive \ {h}} /\ UNCHANGED <<fields, queue, pc, record, life>>
    BY <1>14 DEF Serve, Exit
  <2>2. Owned' \subseteq Owned /\ Launching' = Launching
    BY <2>1 DEF Owned, Launching
  <2>3. EngineNeverLost' /\ GivenUpHoldsNothing'
    BY <2>1 DEF OneEngine, EngineNeverLost, GivenUpHoldsNothing
  <2>4. UndoerWaits' = UndoerWaits /\ \A g \in Calls : UndoerAhead(g)' = UndoerAhead(g)
    BY <2>1 DEF UndoerWaits, UndoerAhead, Undoing, Lines
  <2>5. LineIsSafe'
    BY <2>1, <2>2, <2>4 DEF OneEngine, LineIsSafe, Calls
  <2> QED
    BY <2>1, <2>2, <2>3, <2>5 DEF OneEngine, Calls
<1>15. CASE Die
  <2>1. Launching' = {} /\ Owned' = {}
    BY <1>0, <1>15 DEF Die, Launching, Owned, Former, CallsByLife, ServerTypeOK, Calls
  <2>2. GivenUpHoldsNothing'
    BY <1>15 DEF Die, OneEngine, GivenUpHoldsNothing, ServerTypeOK, Calls
  <2> QED
    BY <1>15, <2>1, <2>2, NothingOwned DEF Die
<1>16. CASE Restart
  <2>1. Launching' = {} /\ Owned' = {}
    BY <1>16 DEF Restart, Launching, Owned, Former, CallsByLife, ServerTypeOK, Calls
  <2>2. GivenUpHoldsNothing'
    BY <1>16 DEF Restart, OneEngine, GivenUpHoldsNothing
  <2>3. deaths' # 0
    BY <1>16 DEF Restart, CallsByLife
  <2> QED
    BY <1>16, <2>1, <2>2, <2>3, NothingOwned DEF Restart
<1>17. CASE UNCHANGED vars
  BY <1>17 DEF vars, OneEngine, LineIsSafe, EngineNeverLost, Launching, Owned, UndoerWaits, UndoerAhead, Undoing,
               Lines, GivenUpHoldsNothing
<1>18. ASSUME NEW h \in Stopper, Stop(h)
      PROVE  OneEngine'
  BY <1>1, <1>18 DEF Stop, Calls
<1>19. ASSUME NEW h \in Starter, GiveUp(h) \/ BadAnswer(h)
      PROVE  OneEngine'
  <2>1. /\ \E s \in {state, "failed"} : CallStop(h, process, queue, s) /\ (pc[h] = "asking" => s = state)
        /\ pc[h] \in {"polling", "asking"} /\ UNCHANGED <<process, host, life>>
    BY <1>19 DEF GiveUp, BadAnswer
  <2> QED
    BY <1>1, <2>1 DEF Calls
<1> QED
  BY <1>2, <1>3, <1>4, <1>5, <1>6, <1>7, <1>8, <1>9, <1>10, <1>11, <1>12, <1>13, <1>14,
     <1>15, <1>16, <1>17, <1>18, <1>19
  DEF Next, Handle, Calls
LEMMA OneEngineInit == ServerInit => OneEngine
<1> SUFFICES ASSUME ServerInit PROVE OneEngine
  OBVIOUS
<1>1. Owned = {} /\ Launching = {} /\ state = "stopped"
  BY DEF ServerInit, Owned, Launching
<1>2. EngineNeverLost /\ GivenUpHoldsNothing /\ LineIsSafe
  BY <1>1 DEF ServerInit, EngineNeverLost, GivenUpHoldsNothing, LineIsSafe
<1> QED
  BY <1>1, <1>2 DEF OneEngine

(* With two starts under way at a time, however many there are in all, an    *)
(* engine the supervisor launched is on hand and on record from its          *)
(* registration to its end; with three under way it can be lost.             *)
THEOREM OneEngineInvariant ==
  ASSUME MaxStarts <= 2
  PROVE  Spec => []OneEngine
<1>1. OneEngine /\ (ServerTypeOK /\ ServerInv) /\ [Next]_vars => OneEngine'
  BY OneEngineKept
<1> QED
  BY <1>1, OneEngineInit, ServerInvariant, PTL DEF Spec
(* No overwritten field and no cleared record loses an engine.               *)
THEOREM NoEngineLost ==
  ASSUME MaxStarts <= 2
  PROVE  Spec => []EngineNeverLost
BY OneEngineInvariant, PTL DEF OneEngine

(* A start that was given up left no engine behind, whoever stopped it.      *)
THEOREM GivenUpIsGone ==
  ASSUME MaxStarts <= 2
  PROVE  Spec => []GivenUpHoldsNothing
BY OneEngineInvariant, PTL DEF OneEngine

(* The supervisor owns at most one engine: a start launches only under the   *)
(* lock, where no other engine is on hand.                                   *)
THEOREM OwnsOne ==
  ASSUME MaxStarts <= 2
  PROVE  Spec => []OwnsAtMostOne
<1>1. ASSUME ServerTypeOK, OneEngine
      PROVE  OwnsAtMostOne
  <2>1. ASSUME NEW p \in Owned, NEW q \in Owned
        PROVE  p = q
    <3>1. p \in Starter /\ q \in Starter
      BY <1>1 DEF Owned, ServerTypeOK
    <3>2. CASE pc[p] = "forked" \/ pc[q] = "forked"
      BY <1>1, <3>1, <3>2 DEF OneEngine, Launching
    <3>3. CASE pc[p] # "forked" /\ pc[q] # "forked"
      BY <1>1, <3>3 DEF OneEngine, EngineNeverLost, Owned
    <3> QED
      BY <3>2, <3>3
  <2>2. CASE Owned = {}
    BY <2>2, FS_EmptySet DEF OwnsAtMostOne, Owned
  <2>3. CASE Owned # {}
    <3>1. PICK p \in Owned : TRUE
      BY <2>3
    <3>2. Owned = {p}
      BY <2>1, <3>1
    <3> QED
      BY <3>2, FS_Singleton DEF OwnsAtMostOne, Owned
  <2> QED
    BY <2>2, <2>3
<1> QED
  BY <1>1, OneEngineInvariant, ServerTypes, PTL

(* Until an agent has died, a server reported ready has a process a stop     *)
(* would find.                                                               *)
THEOREM ReadyIsStoppable ==
  ASSUME MaxStarts <= 2
  PROVE  Spec => []ReadyCanBeStopped
<1>1. ServerTypeOK /\ ServerInv /\ OneEngine => ReadyCanBeStopped
  <2> SUFFICES ASSUME ServerTypeOK, ServerInv, OneEngine, queue = <<>>
               PROVE  ReadyCanBeStopped
    BY DEF ReadyCanBeStopped
  <2>1. Launching = {}
    BY DEF ServerInv, LockDiscipline, Launching, Working, Calls
  <2> QED
    BY <2>1 DEF OneEngine, ReadyCanBeStopped
<1> QED
  BY <1>1, OneEngineInvariant, ServerInvariant, PTL
=============================================================================

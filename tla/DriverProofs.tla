---------------------------- MODULE DriverProofs ----------------------------
(***************************************************************************)
(* Proofs about Driver, for any PVs, IOCs, capacities and bounds.          *)
(*                                                                         *)
(* TypeOK, Routable and TokenIsNewest hold together: that a command can be *)
(* appended to a session's queue needs a routed channel to belong to a     *)
(* task, and that a reconnect notification keeps the routes right needs    *)
(* the notifications still in the queue to name a task of their IOC.       *)
(* SubscribedHasHome follows from a second invariant, HomeInv, on top.     *)
(***************************************************************************)
EXTENDS Driver, TLAPS

(* Every queued reconnect notification carries a channel of a task of the  *)
(* IOC it names.                                                           *)
NotificationsRoute ==
    \A n \in DOMAIN reconnect_rx :
        /\ reconnect_rx[n].tx[1] \in DOMAIN loops
        /\ loops[reconnect_rx[n].tx[1]].ioc = reconnect_rx[n].addr

(* The IOCs a batch in progress still has to ask, or is asking, have a     *)
(* command channel.                                                        *)
CallRoutes ==
    /\ \A i \in main.existing : session_commands[i] # None
    /\ main.pc \in {"wait", "reply"} =>
            main.at # None /\ session_commands[main.at] # None

DriverInv ==
    TypeOK /\ Routable /\ NotificationsRoute /\ CallRoutes /\ TokenIsNewest

-----------------------------------------------------------------------------
(* A function on 1 .. n with values in S is a sequence over S.             *)
LEMMA FunIsSeq ==
    ASSUME NEW S, NEW n \in Nat, NEW f \in [1 .. n -> S]
    PROVE  f \in Seq(S) /\ Len(f) = n /\ DOMAIN f = 1 .. n
  OBVIOUS

(* Replacing an element of a sequence keeps its length and its type.       *)
LEMMA ReplaceType ==
    ASSUME NEW S, NEW s \in Seq(S), NEW k \in DOMAIN s, NEW e \in S
    PROVE  /\ [s EXCEPT ![k] = e] \in Seq(S)
           /\ Len([s EXCEPT ![k] = e]) = Len(s)
           /\ DOMAIN [s EXCEPT ![k] = e] = DOMAIN s
           /\ [s EXCEPT ![k] = e][k] = e
           /\ \A j \in DOMAIN s : j # k => [s EXCEPT ![k] = e][j] = s[j]
  OBVIOUS

(* The head and the tail of a non-empty queue of commands.                 *)
LEMMA QueueType ==
    ASSUME NEW S, NEW q \in Seq(S), q # << >>
    PROVE  /\ Head(q) \in S /\ Tail(q) \in Seq(S) /\ Len(Tail(q)) = Len(q) - 1
           /\ Len(q) \in Nat /\ Len(q) > 0
  OBVIOUS

(* The head of a queue is its first element.                               *)
LEMMA QueueHead ==
    ASSUME NEW S, NEW q \in Seq(S), q # << >>
    PROVE  Head(q) \in S /\ Head(q) = q[1] /\ 1 \in DOMAIN q
  OBVIOUS

(* A session that adopts the outcome of add_monitors_bulk.                 *)
LEMMA AdoptType ==
    ASSUME NEW l \in EventLoop, NEW pvs \in SUBSET PVs, NEW i \in IOCs,
           NEW b \in Bulk(i, pvs)
    PROVE  /\ Adopt(l, pvs, b) \in EventLoop
           /\ Adopt(l, pvs, b).ioc = l.ioc
           /\ Adopt(l, pvs, b).token = l.token
           /\ Adopt(l, pvs, b).pc = l.pc
           /\ Adopt(l, pvs, b).sess = l.sess
           /\ Adopt(l, pvs, b).cmds = l.cmds
           /\ b.ok \subseteq pvs
  <1>1. b.ok \subseteq pvs /\ b.live \subseteq pvs
    BY DEF Bulk, CreateChannels, InitMonitors, RetryInit
  <1>2. [p \in PVs |-> l.mons[p] + (IF p \in b.ok THEN 1 ELSE 0)]
            \in [PVs -> Nat]
    BY DEF EventLoop
  <1>3. l.live \cup b.live \subseteq PVs /\ l.dead \cup (pvs \ b.live) \subseteq PVs
    BY <1>1 DEF EventLoop
  <1> QED BY <1>1, <1>2, <1>3 DEF Adopt, EventLoop

(* A task that has lost its session.                                       *)
LEMMA NoSessionType ==
    ASSUME NEW l \in EventLoop
    PROVE  /\ NoSession(l) \in EventLoop
           /\ NoSession(l).ioc = l.ioc /\ NoSession(l).token = l.token
           /\ NoSession(l).cmds = << >>
  <1> DEFINE m == [p \in PVs |-> 0]
             q == << >>
  <1>1. m \in [PVs -> Nat] /\ q \in Seq(SessionCommand)
    OBVIOUS
  <1>2. [l EXCEPT !.cmds = q, !.mons = m, !.live = {}, !.dead = {},
                  !.restored = {}] \in EventLoop
    <2> HIDE DEF m, q
    <2> QED BY <1>1 DEF EventLoop
  <1>3. NoSession(l) \in EventLoop
    BY <1>2 DEF NoSession
  <1> QED BY <1>3 DEF NoSession, EventLoop

(* Moving a task to another pc.                                            *)
LEMMA PcType ==
    ASSUME NEW l \in EventLoop, NEW pc \in LoopPc
    PROVE  /\ [l EXCEPT !.pc = pc] \in EventLoop
           /\ [l EXCEPT !.pc = pc].ioc = l.ioc
           /\ [l EXCEPT !.pc = pc].token = l.token
           /\ [l EXCEPT !.pc = pc].cmds = l.cmds
           /\ [l EXCEPT !.pc = pc].pc = pc
  BY DEF EventLoop

(* try_send never exceeds the capacity.                                    *)
LEMMA TrySendType ==
    ASSUME NEW q \in Seq(LifecycleEvent), Len(q) <= LifecycleCap,
           NEW e \in LifecycleEvent
    PROVE  /\ TrySend(q, e) \in Seq(LifecycleEvent)
           /\ Len(TrySend(q, e)) <= LifecycleCap
  BY DriverAssumption DEF TrySend

(* What a step of the task k may do to its own record: the IOC and the     *)
(* token stay, the queue does not grow, and a cancelled task never goes    *)
(* back to waiting.                                                        *)
Successor(l, e) ==
    /\ e.ioc = l.ioc /\ e.token = l.token
    /\ Len(e.cmds) <= Len(l.cmds)
    /\ IsCancelled(l) => Rank(e.pc) <= Rank(l.pc)

(* The record of a task has its type.                                      *)
LEMMA LoopType ==
    ASSUME TypeOK, NEW k \in DOMAIN loops
    PROVE  /\ loops[k] \in EventLoop /\ loops[k].cmds \in Seq(SessionCommand)
           /\ loops[k].pc \in LoopPc /\ loops[k].ioc \in IOCs
           /\ loops[k].reconnect_pvs \in SUBSET PVs
           /\ loops[k].sess \in 1 .. MaxSessions
           /\ Len(loops[k].cmds) \in Nat /\ Len(loops[k].cmds) <= CmdCap
           /\ k \in LoopId
  <1>1. loops \in Seq(EventLoop) /\ Len(loops) <= MaxLoops
    BY DEF TypeOK
  <1>2. loops[k] \in EventLoop
    BY <1>1
  <1>3. k \in LoopId
    BY <1>1, DriverAssumption DEF LoopId
  <1>4. /\ loops[k].cmds \in Seq(SessionCommand)
        /\ loops[k].pc \in LoopPc /\ loops[k].ioc \in IOCs
        /\ loops[k].reconnect_pvs \in SUBSET PVs
        /\ loops[k].sess \in 1 .. MaxSessions
    BY <1>2 DEF EventLoop
  <1>5. Len(loops[k].cmds) \in Nat /\ Len(loops[k].cmds) <= CmdCap
    BY <1>4 DEF TypeOK
  <1> QED BY <1>2, <1>3, <1>4, <1>5

(* Moving the task k to the position pc.                                   *)
LEMMA SetPcChange ==
    ASSUME TypeOK, NEW k \in DOMAIN loops, NEW pc \in LoopPc, SetPc(k, pc),
           IsCancelled(loops[k]) => Rank(pc) <= Rank(loops[k].pc)
    PROVE  \E e \in EventLoop : /\ loops' = [loops EXCEPT ![k] = e]
                                /\ Successor(loops[k], e)
  <1> DEFINE e == [loops[k] EXCEPT !.pc = pc]
  <1>1. loops' = [loops EXCEPT ![k] = e]
    BY DEF SetPc
  <1>2. loops[k] \in EventLoop /\ Len(loops[k].cmds) \in Nat
    BY LoopType
  <1>3. e \in EventLoop /\ e.ioc = loops[k].ioc /\ e.token = loops[k].token
        /\ e.cmds = loops[k].cmds /\ e.pc = pc
    BY <1>2, PcType
  <1> HIDE DEF e
  <1>4. Successor(loops[k], e)
    BY <1>2, <1>3 DEF Successor
  <1> QED BY <1>1, <1>3, <1>4

LEMMA LoopChange ==
    ASSUME TypeOK, NEW k \in DOMAIN loops, LoopStep(k)
    PROVE  \E e \in EventLoop : /\ loops' = [loops EXCEPT ![k] = e]
                                /\ Successor(loops[k], e)
  <1> DEFINE l == loops[k]
  <1>l. /\ l \in EventLoop /\ l.cmds \in Seq(SessionCommand) /\ l.pc \in LoopPc
        /\ l.ioc \in IOCs /\ l.reconnect_pvs \in SUBSET PVs
        /\ l.sess \in 1 .. MaxSessions /\ Len(l.cmds) \in Nat
    BY LoopType
  <1>1. CASE LoopAdd(k)
    <2>1. l.pc = "run" /\ l.cmds # << >> /\ Head(l.cmds).op = "add"
      BY <1>1 DEF LoopAdd
    <2>2. Head(l.cmds) \in SessionCommand /\ Tail(l.cmds) \in Seq(SessionCommand)
          /\ Len(Tail(l.cmds)) <= Len(l.cmds)
      BY <1>l, <2>1, QueueType
    <2>3. Head(l.cmds).pvs \in SUBSET PVs
      BY <2>1, <2>2 DEF SessionCommand
    <2>4. PICK b \in Bulk(l.ioc, Head(l.cmds).pvs) :
             loops' = [loops EXCEPT ![k] =
                          [Adopt(l, Head(l.cmds).pvs, b) EXCEPT !.cmds = Tail(@)]]
      BY <1>1 DEF LoopAdd
    <2> DEFINE a == Adopt(l, Head(l.cmds).pvs, b)
    <2>5. a \in EventLoop /\ a.ioc = l.ioc /\ a.token = l.token /\ a.pc = l.pc
          /\ a.cmds = l.cmds
      BY <1>l, <2>3, AdoptType
    <2> HIDE DEF a
    <2> DEFINE e == [a EXCEPT !.cmds = Tail(@)]
    <2>6. e \in EventLoop /\ e.ioc = l.ioc /\ e.token = l.token /\ e.pc = l.pc
          /\ e.cmds = Tail(l.cmds)
      BY <2>2, <2>5 DEF EventLoop
    <2>7. loops' = [loops EXCEPT ![k] = e]
      BY <2>4 DEF a
    <2> HIDE DEF e
    <2>8. Successor(l, e)
      BY <2>1, <2>2, <2>6 DEF Successor, Rank
    <2> QED BY <2>6, <2>7, <2>8
  <1>2. CASE LoopRemove(k)
    <2> DEFINE p == Head(l.cmds).pv
               next == [l EXCEPT !.cmds = Tail(@)]
    <2>1. l.pc = "run" /\ l.cmds # << >> /\ Head(l.cmds).op = "remove"
      BY <1>2 DEF LoopRemove
    <2>2. Head(l.cmds) \in SessionCommand /\ Tail(l.cmds) \in Seq(SessionCommand)
          /\ Len(Tail(l.cmds)) <= Len(l.cmds)
      BY <1>l, <2>1, QueueType
    <2>3. p \in PVs
      BY <2>1, <2>2 DEF SessionCommand
    <2>4. next \in EventLoop /\ next.ioc = l.ioc /\ next.token = l.token
          /\ next.pc = l.pc /\ next.cmds = Tail(l.cmds)
      BY <1>l, <2>2 DEF EventLoop
    <2> DEFINE gone == [next EXCEPT !.mons[p] = IF @ > 0 THEN @ - 1 ELSE 0,
                                    !.live = @ \ {p}, !.dead = @ \ {p}]
    <2>5. PICK e \in {next, gone} : loops' = [loops EXCEPT ![k] = e]
      BY <1>2 DEF LoopRemove
    <2> HIDE DEF next, p
    <2>6. gone \in EventLoop /\ gone.ioc = l.ioc /\ gone.token = l.token
          /\ gone.pc = l.pc /\ gone.cmds = Tail(l.cmds)
      <3> DEFINE m == [next.mons EXCEPT ![p] = IF @ > 0 THEN @ - 1 ELSE 0]
                 v == next.live \ {p}
                 d == next.dead \ {p}
      <3>1. m \in [PVs -> Nat] /\ v \subseteq PVs /\ d \subseteq PVs
        BY <2>3, <2>4 DEF EventLoop
      <3>2. gone = [next EXCEPT !.mons = m, !.live = v, !.dead = d]
        BY <2>4 DEF EventLoop
      <3> HIDE DEF m, v, d
      <3> QED BY <2>4, <3>1, <3>2 DEF EventLoop
    <2> HIDE DEF gone
    <2>7. e \in EventLoop /\ e.ioc = l.ioc /\ e.token = l.token
          /\ e.pc = l.pc /\ e.cmds = Tail(l.cmds)
      BY <2>4, <2>5, <2>6
    <2>8. Successor(l, e)
      BY <2>1, <2>2, <2>7 DEF Successor, Rank
    <2> QED BY <2>5, <2>7, <2>8
  <1>3. CASE LoopShutdown(k) \/ LoopDisconnect(k)
    <2>1. l.pc = "run" /\ EndSession(k)
      BY <1>3 DEF LoopShutdown, LoopDisconnect
    <2> DEFINE pc == IF l.reconnect_pvs = {} \/ IsCancelled(l) THEN "done"
                     ELSE "backoff"
               n == NoSession(l)
               e == [n EXCEPT !.pc = pc]
    <2>2. loops' = [loops EXCEPT ![k] = e]
      BY <2>1 DEF EndSession
    <2>3. n \in EventLoop /\ n.ioc = l.ioc /\ n.token = l.token /\ n.cmds = << >>
      BY <1>l, NoSessionType
    <2>4. pc \in LoopPc /\ (IsCancelled(l) => pc = "done")
      BY DEF LoopPc
    <2> HIDE DEF pc, n
    <2>5. e \in EventLoop /\ e.ioc = l.ioc /\ e.token = l.token /\ e.pc = pc
          /\ e.cmds = << >>
      BY <2>3, <2>4, PcType
    <2> HIDE DEF e
    <2>6. Successor(l, e)
      BY <1>l, <2>1, <2>4, <2>5 DEF Successor, Rank
    <2> QED BY <2>2, <2>5, <2>6
  <1>4. CASE LoopCancelled(k)
    <2>1. l.pc = "backoff" /\ SetPc(k, "done")
      BY <1>4 DEF LoopCancelled
    <2>2. "done" \in LoopPc /\ Rank("done") <= Rank(l.pc)
      BY <2>1 DEF LoopPc, Rank
    <2> QED BY <2>1, <2>2, SetPcChange
  <1>5. CASE LoopWake(k)
    <2>1. l.pc = "backoff" /\ SetPc(k, "connect")
      BY <1>5 DEF LoopWake
    <2>2. "connect" \in LoopPc /\ Rank("connect") <= Rank(l.pc)
      BY <2>1 DEF LoopPc, Rank
    <2> QED BY <2>1, <2>2, SetPcChange
  <1>6. CASE LoopRetry(k)
    <2> DEFINE pc == IF IsCancelled(l) THEN "done" ELSE "backoff"
    <2>1. l.pc = "connect" /\ SetPc(k, pc)
      BY <1>6 DEF LoopRetry
    <2>2. pc \in LoopPc /\ (IsCancelled(l) => Rank(pc) <= Rank(l.pc))
      BY <2>1 DEF LoopPc, Rank
    <2> HIDE DEF pc
    <2> QED BY <2>1, <2>2, SetPcChange
  <1>7. CASE LoopReconnect(k)
    <2>1. l.pc = "connect" /\ l.sess < MaxSessions
      BY <1>7 DEF LoopReconnect
    <2>2. PICK b \in Bulk(l.ioc, l.reconnect_pvs) :
             loops' = [loops EXCEPT ![k] =
                          [Adopt(l, l.reconnect_pvs, b) EXCEPT
                              !.pc = "announce", !.sess = @ + 1,
                              !.restored = b.ok]]
      BY <1>7 DEF LoopReconnect
    <2> DEFINE a == Adopt(l, l.reconnect_pvs, b)
               e == [a EXCEPT !.pc = "announce", !.sess = @ + 1,
                              !.restored = b.ok]
    <2>3. a \in EventLoop /\ a.ioc = l.ioc /\ a.token = l.token
          /\ a.sess = l.sess /\ a.cmds = l.cmds /\ b.ok \subseteq PVs
      BY <1>l, AdoptType
    <2>4. loops' = [loops EXCEPT ![k] = e]
      BY <2>2
    <2> HIDE DEF a
    <2>5. e \in EventLoop /\ e.ioc = l.ioc /\ e.token = l.token
          /\ e.pc = "announce" /\ e.cmds = l.cmds
      <3>1. l.sess + 1 \in 1 .. MaxSessions
        BY <1>l, <2>1, DriverAssumption
      <3> QED BY <2>3, <3>1 DEF EventLoop, LoopPc
    <2> HIDE DEF e
    <2>6. Successor(l, e)
      BY <1>l, <2>1, <2>5 DEF Successor, Rank
    <2> QED BY <2>4, <2>5, <2>6
  <1>8. CASE LoopAnnounce(k)
    <2>1. l.pc = "announce" /\ SetPc(k, "run")
      BY <1>8 DEF LoopAnnounce
    <2>2. "run" \in LoopPc /\ Rank("run") <= Rank(l.pc)
      BY <2>1 DEF LoopPc, Rank
    <2> QED BY <2>1, <2>2, SetPcChange
  <1> QED BY <1>1, <1>2, <1>3, <1>4, <1>5, <1>6, <1>7, <1>8 DEF LoopStep

-----------------------------------------------------------------------------
(* The part of TypeOK that is about the tasks.                             *)
LoopsOK ==
    /\ loops \in Seq(EventLoop) /\ Len(loops) <= MaxLoops
    /\ \A k \in DOMAIN loops : Len(loops[k].cmds) <= CmdCap

(* What a step may do to the tasks that exist: none disappears or changes  *)
(* its IOC.                                                                *)
KeepsTasks ==
    /\ DOMAIN loops \subseteq DOMAIN loops'
    /\ \A k \in DOMAIN loops : loops'[k].ioc = loops[k].ioc

KeepsTokens == \A k \in DOMAIN loops : loops'[k].token = loops[k].token

KeepsPcs == \A k \in DOMAIN loops : loops'[k].pc = loops[k].pc

(* A step of a task.                                                       *)
LEMMA LoopEffect ==
    ASSUME TypeOK, NEW k \in DOMAIN loops, LoopStep(k)
    PROVE  /\ LoopsOK' /\ DOMAIN loops' = DOMAIN loops
           /\ KeepsTasks /\ KeepsTokens
           /\ \A j \in DOMAIN loops : j # k => loops'[j] = loops[j]
           /\ Successor(loops[k], loops'[k])
  <1>1. PICK e \in EventLoop : /\ loops' = [loops EXCEPT ![k] = e]
                               /\ Successor(loops[k], e)
    BY LoopChange
  <1>2. loops \in Seq(EventLoop) /\ Len(loops) <= MaxLoops
    BY DEF TypeOK
  <1>3. /\ loops' \in Seq(EventLoop) /\ Len(loops') = Len(loops)
        /\ DOMAIN loops' = DOMAIN loops /\ loops'[k] = e
        /\ \A j \in DOMAIN loops : j # k => loops'[j] = loops[j]
    BY <1>1, <1>2, ReplaceType
  <1>4. e.ioc = loops[k].ioc /\ e.token = loops[k].token
        /\ Len(e.cmds) <= Len(loops[k].cmds)
    BY <1>1 DEF Successor
  <1>5. Len(e.cmds) \in Nat /\ CmdCap \in Nat /\ Len(loops[k].cmds) \in Nat
        /\ Len(loops[k].cmds) <= CmdCap
    <2>1. e.cmds \in Seq(SessionCommand)
      BY <1>1 DEF EventLoop
    <2> QED BY <2>1, LoopType, DriverAssumption
  <1>6. \A j \in DOMAIN loops' : Len(loops'[j].cmds) <= CmdCap
    BY <1>3, <1>4, <1>5 DEF TypeOK
  <1>7. LoopsOK'
    BY <1>2, <1>3, <1>6 DEF LoopsOK
  <1>8. KeepsTasks /\ KeepsTokens
    BY <1>3, <1>4 DEF KeepsTasks, KeepsTokens
  <1> QED BY <1>1, <1>3, <1>7, <1>8

(* Sending a command to a task that exists.                                *)
LEMMA DeliverEffect ==
    ASSUME TypeOK, NEW tx \in Sender, tx[1] \in DOMAIN loops, CanSend(tx),
           NEW cmd \in SessionCommand, loops' = Deliver(loops, tx, cmd)
    PROVE  /\ LoopsOK' /\ DOMAIN loops' = DOMAIN loops
           /\ KeepsTasks /\ KeepsTokens /\ KeepsPcs
  <1>1. CASE Open(tx)
    <2> DEFINE k == tx[1]
               l == loops[k]
               q == Append(l.cmds, cmd)
               e == [l EXCEPT !.cmds = q]
    <2>1. loops' = [loops EXCEPT ![k] = e]
      BY <1>1 DEF Deliver
    <2>2. l \in EventLoop /\ l.cmds \in Seq(SessionCommand) /\ Len(l.cmds) \in Nat
      BY LoopType
    <2>3. q \in Seq(SessionCommand) /\ Len(q) = Len(l.cmds) + 1
      BY <2>2
    <2>4. Len(l.cmds) < CmdCap
      BY <1>1 DEF CanSend, HasRoom
    <2>5. Len(q) <= CmdCap
      BY <2>2, <2>3, <2>4, DriverAssumption
    <2> HIDE DEF q
    <2>6. e \in EventLoop /\ e.ioc = l.ioc /\ e.token = l.token /\ e.pc = l.pc
          /\ e.cmds = q
      BY <2>2, <2>3 DEF EventLoop
    <2>7. loops \in Seq(EventLoop) /\ Len(loops) <= MaxLoops
      BY DEF TypeOK
    <2> HIDE DEF e
    <2>8. /\ loops' \in Seq(EventLoop) /\ Len(loops') = Len(loops)
          /\ DOMAIN loops' = DOMAIN loops /\ loops'[k] = e
          /\ \A j \in DOMAIN loops : j # k => loops'[j] = loops[j]
      BY <2>1, <2>6, <2>7, ReplaceType
    <2>9. \A j \in DOMAIN loops' : Len(loops'[j].cmds) <= CmdCap
      BY <2>5, <2>6, <2>8 DEF TypeOK
    <2>10. LoopsOK'
      BY <2>7, <2>8, <2>9 DEF LoopsOK
    <2>11. KeepsTasks /\ KeepsTokens /\ KeepsPcs
      BY <2>6, <2>8 DEF KeepsTasks, KeepsTokens, KeepsPcs
    <2> QED BY <2>8, <2>10, <2>11
  <1>2. CASE ~Open(tx)
    <2>1. loops' = loops
      BY <1>2 DEF Deliver
    <2> QED BY <2>1 DEF TypeOK, LoopsOK, KeepsTasks, KeepsTokens, KeepsPcs
  <1> QED BY <1>1, <1>2

(* Rewriting every task's record in place.                                 *)
LEMMA RewriteEffect ==
    ASSUME TypeOK, loops' \in [DOMAIN loops -> EventLoop],
           \A k \in DOMAIN loops :
               /\ loops'[k].ioc = loops[k].ioc
               /\ loops'[k].pc = loops[k].pc /\ Len(loops'[k].cmds) <= CmdCap
    PROVE  /\ LoopsOK' /\ DOMAIN loops' = DOMAIN loops
           /\ KeepsTasks /\ KeepsPcs
  <1>1. loops \in Seq(EventLoop) /\ Len(loops) <= MaxLoops
        /\ DOMAIN loops = 1 .. Len(loops) /\ Len(loops) \in Nat
    BY DEF TypeOK
  <1>2. loops' \in [1 .. Len(loops) -> EventLoop]
    BY <1>1
  <1>3. loops' \in Seq(EventLoop) /\ Len(loops') = Len(loops)
        /\ DOMAIN loops' = DOMAIN loops
    BY <1>1, <1>2, FunIsSeq
  <1> QED BY <1>1, <1>3 DEF LoopsOK, KeepsTasks, KeepsPcs

LEMMA CancelEffect ==
    ASSUME TypeOK, NEW ids, loops' = Cancelled(loops, ids)
    PROVE  /\ LoopsOK' /\ DOMAIN loops' = DOMAIN loops
           /\ KeepsTasks /\ KeepsPcs
           /\ \A k \in DOMAIN loops : k \in ids => loops'[k].token = "cancelled"
           /\ \A k \in DOMAIN loops :
                    k \notin ids => loops'[k].token = loops[k].token
  <1> DEFINE F(k) == IF k \in ids THEN [loops[k] EXCEPT !.token = "cancelled"]
                     ELSE loops[k]
  <1>1. loops' = [k \in DOMAIN loops |-> F(k)]
    BY DEF Cancelled
  <1>2. ASSUME NEW k \in DOMAIN loops
        PROVE  /\ F(k) \in EventLoop /\ F(k).ioc = loops[k].ioc
               /\ F(k).pc = loops[k].pc /\ Len(F(k).cmds) <= CmdCap
               /\ k \in ids => F(k).token = "cancelled"
               /\ k \notin ids => F(k).token = loops[k].token
    <2>1. loops[k] \in EventLoop /\ Len(loops[k].cmds) <= CmdCap
      BY LoopType
    <2> QED BY <2>1 DEF EventLoop
  <1> HIDE DEF F
  <1>3. loops' \in [DOMAIN loops -> EventLoop]
        /\ \A k \in DOMAIN loops : loops'[k] = F(k)
    BY <1>1, <1>2
  <1>4. /\ LoopsOK' /\ DOMAIN loops' = DOMAIN loops /\ KeepsTasks /\ KeepsPcs
    BY <1>2, <1>3, RewriteEffect
  <1> QED BY <1>2, <1>3, <1>4

(* Appending a task.                                                       *)
LEMMA SpawnEffect ==
    ASSUME TypeOK, NEW i \in IOCs, NEW tracked \in SUBSET PVs,
           NEW pvs \in SUBSET PVs, NEW b \in Bulk(i, pvs),
           Spawn(i, tracked, pvs, b)
    PROVE  /\ LoopsOK' /\ KeepsTasks /\ KeepsTokens /\ KeepsPcs
           /\ Len(loops) \in Nat /\ Len(loops) + 1 \in LoopId
           /\ DOMAIN loops = 1 .. Len(loops)
           /\ DOMAIN loops' = 1 .. (Len(loops) + 1)
           /\ loops'[Len(loops) + 1].ioc = i
           /\ loops'[Len(loops) + 1].token = "live"
           /\ << Len(loops) + 1, 1 >> \in Sender
  <1> DEFINE new == [ioc |-> i, reconnect_pvs |-> tracked, token |-> "live",
                     pc |-> "run", sess |-> 1, cmds |-> << >>,
                     mons |-> [p \in PVs |-> 0], live |-> {}, dead |-> {},
                     restored |-> {}]
             e == Adopt(new, pvs, b)
             id == Len(loops) + 1
  <1>1. id <= MaxLoops /\ loops' = Append(loops, e)
    BY DEF Spawn
  <1>2. new \in EventLoop /\ new.ioc = i /\ new.token = "live" /\ new.cmds = << >>
    <2> DEFINE m == [p \in PVs |-> 0]
               q == << >>
    <2>1. m \in [PVs -> Nat] /\ q \in Seq(SessionCommand)
          /\ 1 \in 1 .. MaxSessions
      BY DriverAssumption
    <2> HIDE DEF m
    <2> QED BY <2>1 DEF EventLoop, LoopPc, m
  <1> HIDE DEF new
  <1>3. e \in EventLoop /\ e.ioc = i /\ e.token = "live" /\ e.cmds = << >>
    BY <1>2, AdoptType
  <1> HIDE DEF e
  <1>4. loops \in Seq(EventLoop) /\ Len(loops) \in Nat
        /\ DOMAIN loops = 1 .. Len(loops)
    BY DEF TypeOK
  <1>5. /\ loops' \in Seq(EventLoop) /\ Len(loops') = Len(loops) + 1
        /\ DOMAIN loops' = 1 .. (Len(loops) + 1) /\ loops'[id] = e
        /\ \A k \in DOMAIN loops : loops'[k] = loops[k]
    BY <1>1, <1>3, <1>4
  <1>6. id \in LoopId /\ << id, 1 >> \in Sender
    BY <1>1, <1>4, DriverAssumption DEF LoopId, Sender
  <1>7. \A k \in DOMAIN loops' : Len(loops'[k].cmds) <= CmdCap
    BY <1>3, <1>4, <1>5, DriverAssumption DEF TypeOK
  <1> QED BY <1>1, <1>3, <1>4, <1>5, <1>6, <1>7
             DEF LoopsOK, KeepsTasks, KeepsTokens, KeepsPcs

(* shutdown_sessions appends one command to the tasks it can reach.        *)
LEMMA ShutdownEffect ==
    ASSUME TypeOK, Routable, SendShutdown
    PROVE  /\ LoopsOK' /\ DOMAIN loops' = DOMAIN loops
           /\ KeepsTasks /\ KeepsTokens /\ KeepsPcs
  <1> DEFINE txs == { session_commands[i] : i \in IOCs } \ {None}
             Told(k) == \E tx \in txs : tx[1] = k /\ Open(tx)
             cmd == [op |-> "shutdown"]
             F(k) == IF Told(k)
                     THEN [loops[k] EXCEPT !.cmds = Append(@, cmd)]
                     ELSE loops[k]
  <1>1. loops' = [k \in DOMAIN loops |-> F(k)] /\ \A tx \in txs : CanSend(tx)
    BY DEF SendShutdown
  <1>2. cmd \in SessionCommand
    BY DEF SessionCommand
  <1> HIDE DEF txs
  <1>3. ASSUME NEW k \in DOMAIN loops
        PROVE  /\ F(k) \in EventLoop /\ F(k).ioc = loops[k].ioc
               /\ F(k).pc = loops[k].pc /\ Len(F(k).cmds) <= CmdCap
               /\ F(k).token = loops[k].token
    <2> DEFINE l == loops[k]
               q == Append(l.cmds, cmd)
    <2>1. l \in EventLoop /\ l.cmds \in Seq(SessionCommand)
          /\ Len(l.cmds) \in Nat /\ Len(l.cmds) <= CmdCap
      BY LoopType
    <2>2. CASE Told(k)
      <3>1. Len(l.cmds) < CmdCap
        BY <1>1, <2>2 DEF CanSend, HasRoom
      <3>2. q \in Seq(SessionCommand) /\ Len(q) = Len(l.cmds) + 1
        BY <1>2, <2>1
      <3>3. Len(q) <= CmdCap
        BY <2>1, <3>1, <3>2, DriverAssumption
      <3>4. F(k) = [l EXCEPT !.cmds = q]
        BY <2>2
      <3> HIDE DEF F, q, Told
      <3> QED BY <2>1, <3>2, <3>3, <3>4 DEF EventLoop
    <2>3. CASE ~Told(k)
      <3>1. F(k) = l
        BY <2>3
      <3> QED BY <2>1, <3>1
    <2> QED BY <2>2, <2>3
  <1> HIDE DEF F
  <1>4. loops' \in [DOMAIN loops -> EventLoop]
        /\ \A k \in DOMAIN loops : loops'[k] = F(k)
    BY <1>1, <1>3
  <1>5. /\ LoopsOK' /\ DOMAIN loops' = DOMAIN loops /\ KeepsTasks /\ KeepsPcs
    BY <1>3, <1>4, RewriteEffect
  <1>6. KeepsTokens
    BY <1>3, <1>4 DEF KeepsTokens
  <1> QED BY <1>5, <1>6

-----------------------------------------------------------------------------
(* The routing invariants survive every step that leaves the tables alone  *)
(* and keeps the tasks.                                                    *)
LEMMA RoutesFrame ==
    ASSUME TypeOK, Routable, KeepsTasks,
           UNCHANGED << pv_server_cache, session_commands >>
    PROVE  Routable'
  <1>1. ASSUME NEW i \in IOCs, session_commands[i] # None
        PROVE  /\ session_commands[i][1] \in DOMAIN loops'
               /\ loops'[session_commands[i][1]].ioc = i
    BY <1>1 DEF Routable, KeepsTasks
  <1>2. \A p \in PVs : pv_server_cache[p] # None =>
            session_commands[pv_server_cache[p]] # None
    BY DEF Routable
  <1> QED BY <1>1, <1>2 DEF Routable

LEMMA NotificationsFrame ==
    ASSUME TypeOK, NotificationsRoute, KeepsTasks, UNCHANGED reconnect_rx
    PROVE  NotificationsRoute'
  BY DEF NotificationsRoute, KeepsTasks

LEMMA TokensFrame ==
    ASSUME TypeOK, TokenIsNewest, KeepsTasks, KeepsTokens,
           DOMAIN loops' = DOMAIN loops,
           UNCHANGED << ioc_pvs, cancel_tokens >>,
           main.pc = "exit" => main'.pc = "exit"
    PROVE  TokenIsNewest'
  <1> SUFFICES ASSUME NEW i \in IOCs
      PROVE  /\ cancel_tokens[i] = None <=> ioc_pvs[i] = None
             /\ cancel_tokens[i] # None =>
                /\ cancel_tokens[i] \in DOMAIN loops
                /\ loops'[cancel_tokens[i]].ioc = i
                /\ main'.pc # "exit" =>
                        loops'[cancel_tokens[i]].token # "cancelled"
                /\ \A k \in DOMAIN loops :
                        loops'[k].ioc = i => k <= cancel_tokens[i]
    BY DEF TokenIsNewest, IsCancelled
  <1>1. /\ cancel_tokens[i] = None <=> ioc_pvs[i] = None
        /\ cancel_tokens[i] # None =>
             /\ cancel_tokens[i] \in DOMAIN loops
             /\ loops[cancel_tokens[i]].ioc = i
             /\ main.pc # "exit" => loops[cancel_tokens[i]].token # "cancelled"
             /\ \A k \in DOMAIN loops :
                        loops[k].ioc = i => k <= cancel_tokens[i]
    BY DEF TokenIsNewest, IsCancelled
  <1> QED BY <1>1 DEF KeepsTasks, KeepsTokens

(* TypeOK is the type of the tables, of the tasks, of the queues and of    *)
(* the call in progress.                                                   *)
TablesOK ==
    /\ name_servers \subseteq IOCs
    /\ pv_server_cache \in [PVs -> IOCs \cup {None}]
    /\ failed_pvs \subseteq PVs
    /\ session_commands \in [IOCs -> Sender \cup {None}]
    /\ ioc_pvs \in [IOCs -> (SUBSET PVs) \cup {None}]
    /\ cancel_tokens \in [IOCs -> LoopId \cup {None}]
    /\ home \in [PVs -> Sender \cup {None}]

QueuesOK ==
    /\ reconnect_rx \in Seq([addr : IOCs, tx : Sender])
    /\ Len(reconnect_rx) <= ReconnectCap
    /\ lifecycle_rx \in Seq(LifecycleEvent)
    /\ Len(lifecycle_rx) <= LifecycleCap

LEMMA TypeParts ==
    TypeOK <=> /\ TablesOK /\ LoopsOK /\ QueuesOK
               /\ main \in Call /\ ops \in 0 .. MaxOps
  BY DEF TypeOK, TablesOK, LoopsOK, QueuesOK

LEMMA TypePartsNext ==
    TypeOK' <=> /\ TablesOK' /\ LoopsOK' /\ QueuesOK'
                /\ main' \in Call /\ ops' \in 0 .. MaxOps
  BY DEF TypeOK, TablesOK, LoopsOK, QueuesOK, Call, EventLoop, SessionCommand,
         LifecycleEvent, Sender, LoopId, MainPc, LoopPc

(* The fields of the call in progress.                                     *)
LEMMA CallFields ==
    ASSUME main \in Call
    PROVE  /\ main.pc \in MainPc /\ main.found \in [PVs -> IOCs \cup {None}]
           /\ main.existing \in SUBSET IOCs /\ main.fresh \in SUBSET IOCs
           /\ main.at \in IOCs \cup {None}
           /\ main.ok \in SUBSET PVs /\ main.all_ok \in SUBSET PVs
           /\ main.from \in Sender \cup {None}
  BY DEF Call

LEMMA IdleType ==
    /\ Idle \in Call /\ Idle.pc = "idle" /\ Idle.existing = {}
  <1>1. NoFind \in [PVs -> IOCs \cup {None}]
    BY DEF NoFind
  <1> QED BY <1>1 DEF Idle, Call, MainPc

(* The initial state.                                                      *)
LEMMA DriverInit ==
    ASSUME Init PROVE DriverInv
  <1>1. TablesOK
    BY DEF Init, TablesOK
  <1>2. LoopsOK /\ QueuesOK
    BY DriverAssumption DEF Init, LoopsOK, QueuesOK
  <1>3. main \in Call /\ ops \in 0 .. MaxOps
    BY IdleType, DriverAssumption DEF Init
  <1>4. TypeOK
    BY <1>1, <1>2, <1>3, TypeParts
  <1>5. Routable /\ NotificationsRoute /\ TokenIsNewest
    BY DEF Init, Routable, NotificationsRoute, TokenIsNewest
  <1>6. CallRoutes
    BY IdleType DEF Init, CallRoutes
  <1> QED BY <1>4, <1>5, <1>6 DEF DriverInv

-----------------------------------------------------------------------------
(* The parts of the invariant, for the steps below.                        *)
LEMMA InvParts ==
    ASSUME DriverInv
    PROVE  /\ TypeOK /\ Routable /\ NotificationsRoute /\ CallRoutes
           /\ TokenIsNewest /\ TablesOK /\ LoopsOK /\ QueuesOK
           /\ main \in Call /\ ops \in 0 .. MaxOps
  BY TypeParts DEF DriverInv

LEMMA InvNext ==
    ASSUME TablesOK', LoopsOK', QueuesOK', main' \in Call, ops' \in 0 .. MaxOps,
           Routable', NotificationsRoute', CallRoutes', TokenIsNewest'
    PROVE  DriverInv'
  BY TypePartsNext DEF DriverInv

(* A step that changes neither the tasks nor the routing tables.           *)
LEMMA QuietStep ==
    ASSUME DriverInv, UNCHANGED loops,
           UNCHANGED << pv_server_cache, session_commands, ioc_pvs,
                        cancel_tokens, home, name_servers, reconnect_rx >>,
           failed_pvs' \subseteq PVs,
           QueuesOK', main' \in Call, ops' \in 0 .. MaxOps, CallRoutes',
           main.pc = "exit" => main'.pc = "exit"
    PROVE  DriverInv'
  <1>1. /\ TypeOK /\ Routable /\ NotificationsRoute /\ TokenIsNewest
        /\ TablesOK /\ LoopsOK
    BY InvParts
  <1>2. KeepsTasks /\ KeepsTokens /\ DOMAIN loops' = DOMAIN loops
    BY DEF KeepsTasks, KeepsTokens
  <1>3. TablesOK'
    BY <1>1 DEF TablesOK
  <1>4. LoopsOK'
    BY <1>1 DEF LoopsOK
  <1>5. Routable' /\ NotificationsRoute' /\ TokenIsNewest'
    BY <1>1, <1>2, RoutesFrame, NotificationsFrame, TokensFrame
  <1> QED BY <1>3, <1>4, <1>5, InvNext

LEMMA MonitorBatchInv ==
    ASSUME DriverInv, NEW names \in SUBSET PVs, MonitorBatch(names)
    PROVE  DriverInv'
  <1>1. PICK found \in SearchResults(names) :
          LET hosts == { i \in IOCs : \E p \in PVs : found[p] = i }
              known == { i \in hosts : session_commands[i] # None }
          IN  /\ failed_pvs' = { p \in names : found[p] = None }
              /\ main' = [Idle EXCEPT !.pc = "add", !.found = found,
                                      !.existing = known,
                                      !.fresh = hosts \ known]
    BY DEF MonitorBatch
  <1> DEFINE hosts == { i \in IOCs : \E p \in PVs : found[p] = i }
             known == { i \in hosts : session_commands[i] # None }
             other == hosts \ known
  <1>2. known \in SUBSET IOCs /\ other \in SUBSET IOCs
        /\ found \in [PVs -> IOCs \cup {None}]
        /\ \A i \in known : session_commands[i] # None
    BY DEF SearchResults
  <1>3. main' = [Idle EXCEPT !.pc = "add", !.found = found,
                             !.existing = known, !.fresh = other]
    BY <1>1
  <1> HIDE DEF known, other
  <1>4. main' \in Call /\ main'.pc = "add" /\ main'.existing = known
    BY <1>2, <1>3, IdleType DEF Call, MainPc
  <1>5. UNCHANGED << name_servers, pv_server_cache, session_commands, ioc_pvs,
                     cancel_tokens, home, loops, reconnect_rx, lifecycle_rx >>
        /\ main.pc = "idle" /\ ops' = ops + 1 /\ ops < MaxOps
    BY DEF MonitorBatch
  <1>6. CallRoutes'
    BY <1>2, <1>4, <1>5 DEF CallRoutes
  <1>7. QueuesOK' /\ ops' \in 0 .. MaxOps
    BY <1>5, InvParts, DriverAssumption DEF QueuesOK
  <1> QED BY <1>1, <1>4, <1>5, <1>6, <1>7, QuietStep

LEMMA SendAddBatchInv ==
    ASSUME DriverInv, NEW i \in IOCs, SendAddBatch(i)
    PROVE  DriverInv'
  <1> DEFINE tx == session_commands[i]
             cmd == [op |-> "add", pvs |-> FoundAt(i), req |-> ops]
  <1>1. /\ main.pc = "add" /\ i \in main.existing /\ CanSend(tx)
        /\ loops' = Deliver(loops, tx, cmd)
        /\ main' = [main EXCEPT
                        !.existing = @ \ {i},
                        !.fresh = IF Open(tx) THEN @ ELSE @ \cup {i},
                        !.pc = IF Open(tx) THEN "wait" ELSE @,
                        !.at = IF Open(tx) THEN i ELSE @]
        /\ UNCHANGED << tables, reconnect_rx, lifecycle_rx, ops >>
    BY DEF SendAddBatch
  <1>2. tx # None /\ tx \in Sender /\ tx[1] \in DOMAIN loops
    BY <1>1, InvParts DEF CallRoutes, Routable, TablesOK
  <1>3. cmd \in SessionCommand
    <2>1. FoundAt(i) \in SUBSET PVs /\ ops \in Nat
      BY InvParts, DriverAssumption DEF FoundAt
    <2> HIDE DEF FoundAt
    <2> QED BY <2>1 DEF SessionCommand
  <1>4. /\ LoopsOK' /\ DOMAIN loops' = DOMAIN loops /\ KeepsTasks /\ KeepsTokens
    <2> HIDE DEF tx, cmd
    <2> QED BY <1>1, <1>2, <1>3, InvParts, DeliverEffect
  <1>5. /\ main' \in Call /\ main'.pc # "exit" /\ main'.existing \subseteq main.existing
        /\ main'.pc \in {"wait", "reply"} => main'.at = i
    <2> HIDE DEF tx
    <2>1. CASE Open(tx)
      <3>1. main' = [main EXCEPT !.existing = @ \ {i}, !.fresh = @,
                                 !.pc = "wait", !.at = i]
        BY <1>1, <2>1
      <3> QED BY <3>1, InvParts DEF Call, MainPc
    <2>2. CASE ~Open(tx)
      <3>1. main' = [main EXCEPT !.existing = @ \ {i}, !.fresh = @ \cup {i},
                                 !.pc = "add", !.at = @]
        BY <1>1, <2>2
      <3> QED BY <3>1, InvParts DEF Call, MainPc
    <2> QED BY <2>1, <2>2
  <1>6. /\ UNCHANGED << name_servers, pv_server_cache, failed_pvs,
                        session_commands, ioc_pvs, cancel_tokens, home >>
        /\ UNCHANGED << reconnect_rx, lifecycle_rx, ops >>
    BY <1>1 DEF tables
  <1>7. TablesOK' /\ QueuesOK' /\ ops' \in 0 .. MaxOps
    BY <1>6, InvParts DEF TablesOK, QueuesOK
  <1>8. Routable' /\ NotificationsRoute' /\ TokenIsNewest'
    BY <1>4, <1>5, <1>6, <1>1, InvParts, RoutesFrame, NotificationsFrame,
       TokensFrame
  <1>9. CallRoutes'
    <2>1. i \in IOCs /\ i # None
      BY DriverAssumption
    <2> QED BY <1>2, <1>5, <1>6, <2>1, InvParts DEF CallRoutes
  <1> QED BY <1>4, <1>5, <1>7, <1>8, <1>9, InvNext

LEMMA BatchReplyInv ==
    ASSUME DriverInv, BatchReply
    PROVE  DriverInv'
  <1> DEFINE i == main.at
             cache == Cached(pv_server_cache, main.ok, i)
             more == { p \in FoundAt(i) : cache[p] # None }
  <1>1. /\ main.pc = "reply"
        /\ pv_server_cache' = cache
        /\ ioc_pvs' = [ioc_pvs EXCEPT ![i] = IF @ = None THEN None
                                             ELSE @ \cup more]
        /\ main' = [main EXCEPT !.pc = "add", !.at = None, !.ok = {},
                                !.all_ok = @ \cup main.ok, !.from = None]
        /\ home' = Cached(home, main.ok, main.from)
        /\ UNCHANGED << name_servers, failed_pvs, session_commands,
                        cancel_tokens, loops, reconnect_rx, lifecycle_rx, ops >>
    BY DEF BatchReply
  <1>2. i # None /\ i \in IOCs /\ session_commands[i] # None
    BY <1>1, InvParts DEF CallRoutes, Call
  <1>3. main' \in Call /\ main'.pc = "add" /\ main'.existing = main.existing
    BY <1>1, InvParts DEF Call, MainPc
  <1>4. /\ cache \in [PVs -> IOCs \cup {None}]
        /\ \A p \in PVs : cache[p] = i \/ cache[p] = pv_server_cache[p]
    BY <1>2, InvParts DEF Cached, TablesOK
  <1>5. more \in SUBSET PVs
    BY DEF FoundAt
  <1> HIDE DEF cache, more, i
  <1>6. /\ ioc_pvs' \in [IOCs -> (SUBSET PVs) \cup {None}]
        /\ \A j \in IOCs : ioc_pvs'[j] = None <=> ioc_pvs[j] = None
    <2>1. ioc_pvs \in [IOCs -> (SUBSET PVs) \cup {None}]
      BY InvParts DEF TablesOK
    <2>2. CASE ioc_pvs[i] = None
      <3>1. ioc_pvs' = [ioc_pvs EXCEPT ![i] = None]
        BY <1>1, <2>2
      <3> QED BY <1>2, <2>1, <2>2, <3>1
    <2>3. CASE ioc_pvs[i] # None
      <3> DEFINE new == ioc_pvs[i] \cup more
      <3>1. ioc_pvs' = [ioc_pvs EXCEPT ![i] = new]
        BY <1>1, <2>3
      <3>2. new \in SUBSET PVs
        BY <1>2, <1>5, <2>1, <2>3
      <3>3. new # None
        BY <3>2, DriverAssumption
      <3> HIDE DEF new
      <3> QED BY <1>2, <2>1, <2>3, <3>1, <3>2, <3>3
    <2> QED BY <2>2, <2>3
  <1>h. home' \in [PVs -> Sender \cup {None}]
    BY <1>1, InvParts, CallFields DEF Cached, TablesOK
  <1>7. TablesOK' /\ QueuesOK' /\ LoopsOK' /\ ops' \in 0 .. MaxOps
    BY <1>1, <1>4, <1>6, <1>h, InvParts DEF TablesOK, QueuesOK, LoopsOK
  <1>8. Routable'
    <2>1. ASSUME NEW p \in PVs, cache[p] # None
          PROVE  session_commands[cache[p]] # None
      BY <1>2, <1>4, <2>1, InvParts DEF Routable
    <2> QED BY <1>1, <2>1, InvParts DEF Routable
  <1>9. NotificationsRoute' /\ CallRoutes'
    BY <1>1, <1>3, InvParts DEF NotificationsRoute, CallRoutes
  <1>10. TokenIsNewest'
    <2>1. TokenIsNewest /\ main.pc # "exit"
      BY <1>1, InvParts
    <2> QED BY <1>1, <1>6, <2>1 DEF TokenIsNewest, IsCancelled
  <1> QED BY <1>3, <1>7, <1>8, <1>9, <1>10, InvNext

LEMMA BatchGiveUpInv ==
    ASSUME DriverInv, BatchGiveUp
    PROVE  DriverInv'
  <1>1. /\ main.pc = "wait"
        /\ main' = [main EXCEPT !.pc = "add", !.at = None,
                                !.fresh = @ \cup {main.at}]
        /\ UNCHANGED << tables, loops, reconnect_rx, lifecycle_rx, ops >>
    BY DEF BatchGiveUp
  <1>2. main.at \in IOCs
    BY <1>1, InvParts DEF CallRoutes, Call
  <1>3. main' \in Call /\ main'.pc = "add" /\ main'.existing = main.existing
    BY <1>1, <1>2, InvParts DEF Call, MainPc
  <1>4. QueuesOK' /\ CallRoutes' /\ failed_pvs' \subseteq PVs /\ ops' \in 0 .. MaxOps
    BY <1>1, <1>3, InvParts DEF QueuesOK, CallRoutes, TablesOK, tables
  <1> QED BY <1>1, <1>3, <1>4, QuietStep DEF tables

LEMMA AnnounceConnectedInv ==
    ASSUME DriverInv, NEW i \in IOCs, AnnounceConnected(i)
    PROVE  DriverInv'
  <1> DEFINE pvs == { p \in main.all_ok : pv_server_cache[p] = i }
             e == [kind |-> "Connected", addr |-> i]
  <1>1. /\ main.pc = "add" /\ lifecycle_rx' = TrySend(lifecycle_rx, e)
        /\ main' = [main EXCEPT !.all_ok = @ \ pvs]
        /\ UNCHANGED << tables, loops, reconnect_rx, ops >>
    BY DEF AnnounceConnected
  <1>2. main' \in Call /\ main'.pc = "add" /\ main'.existing = main.existing
    <2> HIDE DEF pvs
    <2> QED BY <1>1, InvParts DEF Call, MainPc
  <1>3. e \in LifecycleEvent
    BY DEF LifecycleEvent
  <1> HIDE DEF e
  <1>4. QueuesOK'
    BY <1>1, <1>3, InvParts, TrySendType DEF QueuesOK
  <1>5. CallRoutes' /\ failed_pvs' \subseteq PVs /\ ops' \in 0 .. MaxOps
    BY <1>1, <1>2, InvParts DEF CallRoutes, TablesOK, tables
  <1> QED BY <1>1, <1>2, <1>4, <1>5, QuietStep DEF tables

LEMMA BatchReturnInv ==
    ASSUME DriverInv, BatchReturn
    PROVE  DriverInv'
  <1>1. /\ main.pc = "add" /\ main' = Idle
        /\ UNCHANGED << tables, loops, reconnect_rx, lifecycle_rx, ops >>
    BY DEF BatchReturn
  <1>2. QueuesOK' /\ CallRoutes' /\ failed_pvs' \subseteq PVs /\ ops' \in 0 .. MaxOps
    BY <1>1, IdleType, InvParts DEF QueuesOK, CallRoutes, TablesOK, tables
  <1> QED BY <1>1, <1>2, IdleType, QuietStep DEF tables

LEMMA LifecycleRecvInv ==
    ASSUME DriverInv, LifecycleRecv
    PROVE  DriverInv'
  <1>1. /\ lifecycle_rx # << >> /\ lifecycle_rx' = Tail(lifecycle_rx)
        /\ UNCHANGED << tables, loops, reconnect_rx, main, ops >>
    BY DEF LifecycleRecv
  <1>2. QueuesOK'
    <2>1. lifecycle_rx \in Seq(LifecycleEvent) /\ Len(lifecycle_rx) <= LifecycleCap
      BY InvParts DEF QueuesOK
    <2>2. lifecycle_rx' \in Seq(LifecycleEvent)
          /\ Len(lifecycle_rx') = Len(lifecycle_rx) - 1 /\ Len(lifecycle_rx) \in Nat
      BY <1>1, <2>1, QueueType
    <2> QED BY <1>1, <2>1, <2>2, InvParts, DriverAssumption DEF QueuesOK
  <1>3. CallRoutes' /\ failed_pvs' \subseteq PVs /\ ops' \in 0 .. MaxOps
        /\ main' \in Call
    BY <1>1, InvParts DEF CallRoutes, TablesOK, tables
  <1> QED BY <1>1, <1>2, <1>3, QuietStep DEF tables

(* A step that only changes the tasks, keeping their IOC and token, and    *)
(* the call in progress.                                                   *)
LEMMA TaskStep ==
    ASSUME DriverInv, LoopsOK', DOMAIN loops' = DOMAIN loops, KeepsTasks,
           KeepsTokens, UNCHANGED << tables, reconnect_rx, ops >>,
           QueuesOK', main' \in Call, CallRoutes',
           main.pc = "exit" => main'.pc = "exit"
    PROVE  DriverInv'
  <1>1. UNCHANGED << name_servers, pv_server_cache, failed_pvs,
                     session_commands, ioc_pvs, cancel_tokens, home >>
        /\ UNCHANGED << reconnect_rx, ops >>
    BY DEF tables
  <1>2. TablesOK' /\ ops' \in 0 .. MaxOps
    BY <1>1, InvParts DEF TablesOK
  <1>3. Routable' /\ NotificationsRoute' /\ TokenIsNewest'
    BY <1>1, InvParts, RoutesFrame, NotificationsFrame, TokensFrame
  <1> QED BY <1>2, <1>3, InvNext

LEMMA SendShutdownInv ==
    ASSUME DriverInv, SendShutdown
    PROVE  DriverInv'
  <1>1. /\ LoopsOK' /\ DOMAIN loops' = DOMAIN loops
        /\ KeepsTasks /\ KeepsTokens
    BY InvParts, ShutdownEffect
  <1>2. /\ main.pc = "idle" /\ main' = [main EXCEPT !.pc = "closing"]
        /\ UNCHANGED << tables, reconnect_rx, lifecycle_rx, ops >>
    BY DEF SendShutdown
  <1>3. main' \in Call /\ main'.pc = "closing" /\ main'.existing = main.existing
    BY <1>2, InvParts DEF Call, MainPc
  <1>4. QueuesOK' /\ CallRoutes'
    BY <1>2, <1>3, InvParts DEF QueuesOK, CallRoutes, tables
  <1> QED BY <1>1, <1>2, <1>3, <1>4, TaskStep

LEMMA CancelAllInv ==
    ASSUME DriverInv, CancelAll
    PROVE  DriverInv'
  <1> DEFINE ids == { cancel_tokens[i] : i \in IOCs } \ {None}
  <1>1. /\ main.pc = "closing" /\ main' = [main EXCEPT !.pc = "exit"]
        /\ loops' = Cancelled(loops, ids)
        /\ UNCHANGED << tables, reconnect_rx, lifecycle_rx, ops >>
    BY DEF CancelAll
  <1> HIDE DEF ids
  <1>2. LoopsOK' /\ DOMAIN loops' = DOMAIN loops /\ KeepsTasks
    BY <1>1, InvParts, CancelEffect
  <1>3. main' \in Call /\ main'.pc = "exit" /\ main'.existing = main.existing
    BY <1>1, InvParts DEF Call, MainPc
  <1>4. UNCHANGED << name_servers, pv_server_cache, failed_pvs,
                     session_commands, ioc_pvs, cancel_tokens, home >>
        /\ UNCHANGED << reconnect_rx, lifecycle_rx, ops >>
    BY <1>1 DEF tables
  <1>5. QueuesOK' /\ CallRoutes' /\ TablesOK' /\ ops' \in 0 .. MaxOps
    BY <1>3, <1>4, InvParts DEF QueuesOK, CallRoutes, TablesOK
  <1>6. Routable' /\ NotificationsRoute'
    BY <1>2, <1>4, InvParts, RoutesFrame, NotificationsFrame
  <1>7. TokenIsNewest'
    <2>1. TokenIsNewest
      BY InvParts
    <2> QED BY <1>2, <1>3, <1>4, <2>1 DEF TokenIsNewest, KeepsTasks
  <1> QED BY <1>2, <1>3, <1>5, <1>6, <1>7, InvNext

LEMMA UnsubscribeInv ==
    ASSUME DriverInv, NEW p \in PVs, Unsubscribe(p)
    PROVE  DriverInv'
  <1> DEFINE i == pv_server_cache[p]
             tx == session_commands[i]
             cmd == [op |-> "remove", pv |-> p]
  <1>1. /\ main.pc = "idle" /\ ops < MaxOps /\ i # None
        /\ pv_server_cache' = [pv_server_cache EXCEPT ![p] = None]
        /\ ioc_pvs' = [ioc_pvs EXCEPT ![i] = IF @ = None THEN None ELSE @ \ {p}]
        /\ ops' = ops + 1 /\ home' = [home EXCEPT ![p] = None]
        /\ UNCHANGED << name_servers, failed_pvs, session_commands,
                        cancel_tokens, reconnect_rx, lifecycle_rx, main >>
    BY DEF Unsubscribe
  <1>2. i \in IOCs
    BY <1>1, InvParts DEF TablesOK
  <1>3. tx # None /\ tx \in Sender /\ tx[1] \in DOMAIN loops
    BY <1>1, <1>2, InvParts DEF Routable, TablesOK
  <1>4. CanSend(tx) /\ loops' = Deliver(loops, tx, cmd)
    BY <1>3 DEF Unsubscribe
  <1>5. cmd \in SessionCommand
    BY DEF SessionCommand
  <1>6. LoopsOK' /\ DOMAIN loops' = DOMAIN loops /\ KeepsTasks /\ KeepsTokens
    <2> HIDE DEF tx, cmd
    <2> QED BY <1>3, <1>4, <1>5, InvParts, DeliverEffect
  <1> HIDE DEF tx, cmd
  <1>7. /\ ioc_pvs' \in [IOCs -> (SUBSET PVs) \cup {None}]
        /\ \A j \in IOCs : ioc_pvs'[j] = None <=> ioc_pvs[j] = None
    <2> HIDE DEF i
    <2>1. ioc_pvs \in [IOCs -> (SUBSET PVs) \cup {None}]
      BY InvParts DEF TablesOK
    <2>2. CASE ioc_pvs[i] = None
      <3>1. ioc_pvs' = [ioc_pvs EXCEPT ![i] = None]
        BY <1>1, <2>2
      <3> QED BY <1>2, <2>1, <2>2, <3>1
    <2>3. CASE ioc_pvs[i] # None
      <3> DEFINE new == ioc_pvs[i] \ {p}
      <3>1. ioc_pvs' = [ioc_pvs EXCEPT ![i] = new]
        BY <1>1, <2>3
      <3>2. new \in SUBSET PVs
        BY <1>2, <2>1, <2>3
      <3>3. new # None
        BY <3>2, DriverAssumption
      <3> HIDE DEF new
      <3> QED BY <1>2, <2>1, <2>3, <3>1, <3>2, <3>3
    <2> QED BY <2>2, <2>3
  <1>8. TablesOK' /\ QueuesOK' /\ ops' \in 0 .. MaxOps /\ main' \in Call
    <2>1. pv_server_cache' \in [PVs -> IOCs \cup {None}]
      BY <1>1, InvParts DEF TablesOK
    <2>2. home' \in [PVs -> Sender \cup {None}]
      BY <1>1, InvParts DEF TablesOK
    <2> QED BY <1>1, <1>7, <2>1, <2>2, InvParts, DriverAssumption
            DEF TablesOK, QueuesOK
  <1>9. Routable'
    <2>1. \A q \in PVs : pv_server_cache'[q] # None =>
                pv_server_cache'[q] = pv_server_cache[q]
      BY <1>1, InvParts DEF TablesOK
    <2>2. \A q \in PVs : pv_server_cache'[q] # None =>
                session_commands[pv_server_cache'[q]] # None
      BY <2>1, InvParts DEF Routable
    <2>3. \A j \in IOCs : session_commands[j] # None =>
                /\ session_commands[j][1] \in DOMAIN loops'
                /\ loops'[session_commands[j][1]].ioc = j
      BY <1>6, InvParts DEF Routable, KeepsTasks
    <2> QED BY <1>1, <2>2, <2>3 DEF Routable
  <1>10. NotificationsRoute' /\ CallRoutes'
    BY <1>1, <1>6, InvParts, NotificationsFrame DEF CallRoutes
  <1>11. TokenIsNewest'
    <2>1. TokenIsNewest
      BY InvParts
    <2> QED BY <1>1, <1>6, <1>7, <2>1
            DEF TokenIsNewest, IsCancelled, KeepsTasks, KeepsTokens
  <1> QED BY <1>6, <1>8, <1>9, <1>10, <1>11, InvNext

(* A new session for the IOC i that accepted something, whichever call     *)
(* opened it.                                                              *)
LEMMA SpawnInv ==
    ASSUME DriverInv, NEW i \in IOCs, NEW pvs \in SUBSET PVs,
           NEW b \in Bulk(i, pvs), Spawn(i, pvs, pvs, b),
           pv_server_cache' = Cached(pv_server_cache, b.ok, i),
           ioc_pvs' = [ioc_pvs EXCEPT ![i] = pvs],
           UNCHANGED << name_servers, reconnect_rx, lifecycle_rx, ops >>,
           failed_pvs' \subseteq PVs, main.pc # "exit",
           main' \in Call, main'.existing \subseteq main.existing,
           main'.pc \notin {"wait", "reply"}
    PROVE  DriverInv'
  <1> DEFINE id == Len(loops) + 1
  <1>1. /\ LoopsOK' /\ KeepsTasks /\ KeepsTokens
        /\ Len(loops) \in Nat /\ id \in LoopId
        /\ DOMAIN loops = 1 .. Len(loops) /\ DOMAIN loops' = 1 .. id
        /\ loops'[id].ioc = i /\ loops'[id].token = "live"
        /\ << id, 1 >> \in Sender
    BY InvParts, SpawnEffect
  <1>2. /\ session_commands' = [session_commands EXCEPT ![i] = << id, 1 >>]
        /\ cancel_tokens' = [cancel_tokens EXCEPT ![i] = id]
        /\ home' = Cached(home, b.ok, << id, 1 >>)
    BY DEF Spawn
  <1>3. id # None /\ << id, 1 >> # None /\ pvs # None /\ i # None
    BY <1>1, DriverAssumption
  <1>4. /\ session_commands \in [IOCs -> Sender \cup {None}]
        /\ cancel_tokens \in [IOCs -> LoopId \cup {None}]
        /\ ioc_pvs \in [IOCs -> (SUBSET PVs) \cup {None}]
        /\ pv_server_cache \in [PVs -> IOCs \cup {None}]
    BY InvParts DEF TablesOK
  <1>5. /\ pv_server_cache' \in [PVs -> IOCs \cup {None}]
        /\ \A p \in PVs : \/ pv_server_cache'[p] = i
                          \/ pv_server_cache'[p] = pv_server_cache[p]
    BY <1>4 DEF Cached
  <1>6. /\ session_commands' \in [IOCs -> Sender \cup {None}]
        /\ session_commands'[i] = << id, 1 >>
        /\ \A j \in IOCs : j # i => session_commands'[j] = session_commands[j]
    <2> HIDE DEF id
    <2> QED BY <1>1, <1>2, <1>4
  <1>7. /\ cancel_tokens' \in [IOCs -> LoopId \cup {None}]
        /\ cancel_tokens'[i] = id
        /\ \A j \in IOCs : j # i => cancel_tokens'[j] = cancel_tokens[j]
    <2> HIDE DEF id
    <2> QED BY <1>1, <1>2, <1>4
  <1>8. /\ ioc_pvs' \in [IOCs -> (SUBSET PVs) \cup {None}]
        /\ ioc_pvs'[i] = pvs
        /\ \A j \in IOCs : j # i => ioc_pvs'[j] = ioc_pvs[j]
    BY <1>4
  <1>h. home' \in [PVs -> Sender \cup {None}]
    <2> HIDE DEF id
    <2> QED BY <1>1, <1>2, InvParts DEF Cached, TablesOK
  <1>9. TablesOK' /\ QueuesOK' /\ ops' \in 0 .. MaxOps
    BY <1>h, <1>5, <1>6, <1>7, <1>8, InvParts DEF TablesOK, QueuesOK
  <1>10. \A j \in IOCs : session_commands[j] # None => session_commands'[j] # None
    BY <1>3, <1>6
  <1>11. Routable'
    <2>1. ASSUME NEW p \in PVs, pv_server_cache'[p] # None
          PROVE  session_commands'[pv_server_cache'[p]] # None
      <3>1. CASE pv_server_cache'[p] = i
        BY <1>3, <1>6, <3>1
      <3>2. CASE pv_server_cache'[p] = pv_server_cache[p]
        BY <1>4, <1>10, <2>1, <3>2, InvParts DEF Routable
      <3> QED BY <1>5, <3>1, <3>2
    <2>2. ASSUME NEW j \in IOCs, session_commands'[j] # None
          PROVE  /\ session_commands'[j][1] \in DOMAIN loops'
                 /\ loops'[session_commands'[j][1]].ioc = j
      <3>1. CASE j = i
        <4>1. session_commands'[j][1] = id /\ id \in DOMAIN loops'
          BY <1>1, <1>6, <3>1
        <4> QED BY <1>1, <3>1, <4>1
      <3>2. CASE j # i
        <4>1. session_commands[j] # None /\ session_commands'[j] = session_commands[j]
          BY <1>6, <2>2, <3>2
        <4> QED BY <4>1, <1>1, InvParts DEF Routable, KeepsTasks
      <3> QED BY <3>1, <3>2
    <2> QED BY <2>1, <2>2 DEF Routable
  <1>12. NotificationsRoute'
    BY <1>1, InvParts, NotificationsFrame
  <1>13. CallRoutes'
    BY <1>10, InvParts DEF CallRoutes, Call
  <1>14. TokenIsNewest'
    <2> SUFFICES ASSUME NEW j \in IOCs
        PROVE  /\ cancel_tokens'[j] = None <=> ioc_pvs'[j] = None
               /\ cancel_tokens'[j] # None =>
                    /\ cancel_tokens'[j] \in DOMAIN loops'
                    /\ loops'[cancel_tokens'[j]].ioc = j
                    /\ loops'[cancel_tokens'[j]].token # "cancelled"
                    /\ \A k \in DOMAIN loops' :
                            loops'[k].ioc = j => k <= cancel_tokens'[j]
      BY DEF TokenIsNewest, IsCancelled
    <2>1. CASE j = i
      <3>1. cancel_tokens'[j] = id /\ ioc_pvs'[j] = pvs /\ id \in DOMAIN loops'
            /\ \A k \in DOMAIN loops' : k <= id
        BY <1>1, <1>7, <1>8, <2>1
      <3> QED BY <1>1, <1>3, <2>1, <3>1
    <2>2. CASE j # i
      <3>1. cancel_tokens'[j] = cancel_tokens[j] /\ ioc_pvs'[j] = ioc_pvs[j]
        BY <1>7, <1>8, <2>2
      <3>2. /\ cancel_tokens[j] = None <=> ioc_pvs[j] = None
            /\ cancel_tokens[j] # None =>
                /\ cancel_tokens[j] \in DOMAIN loops
                /\ loops[cancel_tokens[j]].ioc = j
                /\ loops[cancel_tokens[j]].token # "cancelled"
                /\ \A k \in DOMAIN loops :
                        loops[k].ioc = j => k <= cancel_tokens[j]
        BY InvParts DEF TokenIsNewest, IsCancelled
      <3>3. \A k \in DOMAIN loops' : loops'[k].ioc = j => k \in DOMAIN loops
        BY <1>1, <2>2
      <3> HIDE DEF id
      <3> QED BY <1>1, <3>1, <3>2, <3>3 DEF KeepsTasks, KeepsTokens
    <2> QED BY <2>1, <2>2
  <1> QED BY <1>1, <1>9, <1>11, <1>12, <1>13, <1>14, InvNext

LEMMA FreshSessionInv ==
    ASSUME DriverInv, NEW i \in IOCs, FreshSession(i)
    PROVE  DriverInv'
  <1> DEFINE pvs == FoundAt(i)
  <1>1. PICK b \in Bulk(i, pvs) :
        IF b.ok = {}
        THEN /\ main' = [main EXCEPT !.fresh = @ \ {i}]
             /\ UNCHANGED << pv_server_cache, ioc_pvs, session_commands,
                             cancel_tokens, home, loops >>
        ELSE /\ pv_server_cache' = Cached(pv_server_cache, b.ok, i)
             /\ ioc_pvs' = [ioc_pvs EXCEPT ![i] = pvs]
             /\ Spawn(i, pvs, pvs, b)
             /\ main' = [main EXCEPT !.fresh = @ \ {i},
                                     !.all_ok = @ \cup b.ok]
    BY DEF FreshSession
  <1>2. main.pc = "add"
        /\ UNCHANGED << name_servers, failed_pvs, reconnect_rx, lifecycle_rx, ops >>
    BY DEF FreshSession
  <1>3. pvs \in SUBSET PVs /\ failed_pvs' \subseteq PVs
    BY <1>2, InvParts DEF FoundAt, TablesOK
  <1>4. b.ok \subseteq pvs
    BY DEF Bulk, CreateChannels, InitMonitors, RetryInit
  <1> HIDE DEF pvs
  <1>5. CASE b.ok = {}
    <2>1. main' \in Call /\ main'.pc = "add" /\ main'.existing = main.existing
      BY <1>1, <1>2, <1>5, InvParts DEF Call
    <2>2. UNCHANGED << pv_server_cache, ioc_pvs, session_commands,
                       cancel_tokens, home, loops >>
      BY <1>1, <1>5
    <2>3. QueuesOK' /\ CallRoutes' /\ ops' \in 0 .. MaxOps
      BY <1>2, <2>1, <2>2, InvParts DEF QueuesOK, CallRoutes
    <2> QED BY <1>2, <1>3, <2>1, <2>2, <2>3, QuietStep
  <1>6. CASE b.ok # {}
    <2>1. main' \in Call /\ main'.pc = "add" /\ main'.existing = main.existing
      <3> DEFINE fresh == main.fresh \ {i}
                 all_ok == main.all_ok \cup b.ok
      <3>1. main' = [main EXCEPT !.fresh = fresh, !.all_ok = all_ok]
        BY <1>1, <1>6
      <3>2. fresh \in SUBSET IOCs /\ all_ok \in SUBSET PVs
        BY <1>3, <1>4, InvParts, CallFields
      <3> HIDE DEF fresh, all_ok
      <3> QED BY <1>2, <3>1, <3>2, InvParts DEF Call
    <2>2. /\ pv_server_cache' = Cached(pv_server_cache, b.ok, i)
          /\ ioc_pvs' = [ioc_pvs EXCEPT ![i] = pvs]
          /\ Spawn(i, pvs, pvs, b)
      BY <1>1, <1>6
    <2> QED BY <1>2, <1>3, <2>1, <2>2, SpawnInv
  <1> QED BY <1>5, <1>6

LEMMA HotAddIocInv ==
    ASSUME DriverInv, NEW i \in IOCs, NEW configured \in SUBSET PVs,
           HotAddIoc(i, configured)
    PROVE  DriverInv'
  <1> DEFINE search == failed_pvs \cup
                          { p \in configured : pv_server_cache[p] = None }
  <1>1. PICK found \in SUBSET (search \cap Serves[i]) :
        \E b \in Bulk(i, found) :
            IF b.ok = {}
            THEN UNCHANGED << pv_server_cache, failed_pvs, ioc_pvs,
                              session_commands, cancel_tokens, home, loops >>
            ELSE /\ pv_server_cache' = Cached(pv_server_cache, b.ok, i)
                 /\ failed_pvs' = failed_pvs \ b.ok
                 /\ ioc_pvs' = [ioc_pvs EXCEPT ![i] = found]
                 /\ Spawn(i, found, found, b)
    BY DEF HotAddIoc
  <1>2. PICK b \in Bulk(i, found) :
            IF b.ok = {}
            THEN UNCHANGED << pv_server_cache, failed_pvs, ioc_pvs,
                              session_commands, cancel_tokens, home, loops >>
            ELSE /\ pv_server_cache' = Cached(pv_server_cache, b.ok, i)
                 /\ failed_pvs' = failed_pvs \ b.ok
                 /\ ioc_pvs' = [ioc_pvs EXCEPT ![i] = found]
                 /\ Spawn(i, found, found, b)
    BY <1>1
  <1>3. /\ main.pc = "hotadd"
        /\ main' = IF main.fresh = {i} THEN Idle
                   ELSE [main EXCEPT !.fresh = @ \ {i}]
        /\ UNCHANGED << name_servers, reconnect_rx, lifecycle_rx, ops >>
    BY DEF HotAddIoc
  <1>4. found \in SUBSET PVs /\ failed_pvs \subseteq PVs
    BY InvParts DEF TablesOK
  <1>5. main' \in Call /\ main'.pc \in {"idle", "hotadd"}
        /\ main'.existing \subseteq main.existing
    <2>1. CASE main.fresh = {i}
      BY <1>3, <2>1, IdleType
    <2>2. CASE main.fresh # {i}
      <3>1. main' = [main EXCEPT !.fresh = @ \ {i}]
        BY <1>3, <2>2
      <3> QED BY <1>3, <3>1, InvParts DEF Call
    <2> QED BY <2>1, <2>2
  <1>6. CASE b.ok = {}
    <2>1. UNCHANGED << pv_server_cache, failed_pvs, ioc_pvs, session_commands,
                       cancel_tokens, home, loops >>
      BY <1>2, <1>6
    <2>2. QueuesOK' /\ CallRoutes' /\ ops' \in 0 .. MaxOps /\ failed_pvs' \subseteq PVs
      BY <1>3, <1>4, <1>5, <2>1, InvParts DEF QueuesOK, CallRoutes
    <2> QED BY <1>3, <1>5, <2>1, <2>2, QuietStep
  <1>7. CASE b.ok # {}
    <2>1. /\ pv_server_cache' = Cached(pv_server_cache, b.ok, i)
          /\ ioc_pvs' = [ioc_pvs EXCEPT ![i] = found]
          /\ Spawn(i, found, found, b) /\ failed_pvs' \subseteq PVs
      BY <1>2, <1>4, <1>7
    <2> QED BY <1>3, <1>4, <1>5, <2>1, SpawnInv
  <1> QED BY <1>6, <1>7

LEMMA IocChangeInv ==
    ASSUME DriverInv, NEW addrs \in SUBSET IOCs, IocChange(addrs)
    PROVE  DriverInv'
  <1> DEFINE gone == name_servers \ addrs
             new == addrs \ name_servers
             ids == { cancel_tokens[i] : i \in gone } \ {None}
  <1>1. /\ main.pc = "idle" /\ ops < MaxOps /\ name_servers' = addrs
        /\ RemoveSessions(gone) /\ ops' = ops + 1
        /\ main' = IF new = {} THEN Idle
                   ELSE [Idle EXCEPT !.pc = "hotadd", !.fresh = new]
        /\ UNCHANGED << reconnect_rx, lifecycle_rx >>
    BY DEF IocChange
  <1>2. gone \subseteq IOCs /\ new \in SUBSET IOCs
    BY InvParts DEF TablesOK
  <1>3. main' \in Call /\ main'.pc \in {"idle", "hotadd"} /\ main'.existing = {}
    <2> HIDE DEF new
    <2>1. CASE new = {}
      BY <1>1, <2>1, IdleType
    <2>2. CASE new # {}
      <3>1. main' = [Idle EXCEPT !.pc = "hotadd", !.fresh = new]
        BY <1>1, <2>2
      <3> QED BY <1>2, <3>1, IdleType DEF Call, MainPc
    <2> QED BY <2>1, <2>2
  <1> HIDE DEF gone, new
  <1>4. /\ loops' = Cancelled(loops, ids)
        /\ cancel_tokens' = [i \in IOCs |-> IF i \in gone THEN None
                                            ELSE cancel_tokens[i]]
        /\ failed_pvs' = failed_pvs \cup
                UNION { ioc_pvs[i] : i \in { j \in gone : ioc_pvs[j] # None } }
        /\ ioc_pvs' = [i \in IOCs |-> IF i \in gone THEN None ELSE ioc_pvs[i]]
        /\ session_commands' = [i \in IOCs |-> IF i \in gone THEN None
                                               ELSE session_commands[i]]
        /\ pv_server_cache' = [p \in PVs |-> IF pv_server_cache[p] \in gone
                                             THEN None ELSE pv_server_cache[p]]
        /\ home' = [p \in PVs |-> IF pv_server_cache[p] \in gone
                                  THEN None ELSE home[p]]
    BY <1>1 DEF RemoveSessions
  <1>5. /\ session_commands \in [IOCs -> Sender \cup {None}]
        /\ cancel_tokens \in [IOCs -> LoopId \cup {None}]
        /\ ioc_pvs \in [IOCs -> (SUBSET PVs) \cup {None}]
        /\ pv_server_cache \in [PVs -> IOCs \cup {None}]
        /\ failed_pvs \subseteq PVs
    BY InvParts DEF TablesOK
  <1>6. TablesOK'
    <2>1. failed_pvs' \subseteq PVs
      BY <1>2, <1>4, <1>5
    <2>2. cancel_tokens' \in [IOCs -> LoopId \cup {None}]
      BY <1>4, <1>5
    <2>3. ioc_pvs' \in [IOCs -> (SUBSET PVs) \cup {None}]
      BY <1>4, <1>5
    <2>4. session_commands' \in [IOCs -> Sender \cup {None}]
      BY <1>4, <1>5
    <2>5. pv_server_cache' \in [PVs -> IOCs \cup {None}]
      BY <1>4, <1>5
    <2>6. home' \in [PVs -> Sender \cup {None}]
      BY <1>4, InvParts DEF TablesOK
    <2> QED BY <1>1, <2>1, <2>2, <2>3, <2>4, <2>5, <2>6 DEF TablesOK
  <1>7. QueuesOK' /\ ops' \in 0 .. MaxOps
    BY <1>1, InvParts, DriverAssumption DEF QueuesOK
  <1>8. /\ LoopsOK' /\ DOMAIN loops' = DOMAIN loops /\ KeepsTasks
        /\ \A k \in DOMAIN loops :
                k \notin ids => loops'[k].token = loops[k].token
    <2> HIDE DEF ids
    <2> QED BY <1>4, InvParts, CancelEffect
  <1>9. Routable'
    <2>1. ASSUME NEW p \in PVs, pv_server_cache'[p] # None
          PROVE  session_commands'[pv_server_cache'[p]] # None
      <3>1. pv_server_cache'[p] = pv_server_cache[p]
            /\ pv_server_cache[p] \in IOCs /\ pv_server_cache[p] \notin gone
        BY <1>4, <1>5, <2>1
      <3>2. session_commands[pv_server_cache[p]] # None
        BY <2>1, <3>1, InvParts DEF Routable
      <3> QED BY <1>4, <3>1, <3>2
    <2>2. ASSUME NEW j \in IOCs, session_commands'[j] # None
          PROVE  /\ session_commands'[j][1] \in DOMAIN loops'
                 /\ loops'[session_commands'[j][1]].ioc = j
      <3>1. session_commands'[j] = session_commands[j]
        BY <1>4, <2>2
      <3> QED BY <1>8, <2>2, <3>1, InvParts DEF Routable, KeepsTasks
    <2> QED BY <2>1, <2>2 DEF Routable
  <1>10. NotificationsRoute' /\ CallRoutes'
    BY <1>1, <1>3, <1>8, InvParts, NotificationsFrame DEF CallRoutes
  <1>11. TokenIsNewest'
    <2> SUFFICES ASSUME NEW j \in IOCs
        PROVE  /\ cancel_tokens'[j] = None <=> ioc_pvs'[j] = None
               /\ cancel_tokens'[j] # None =>
                    /\ cancel_tokens'[j] \in DOMAIN loops'
                    /\ loops'[cancel_tokens'[j]].ioc = j
                    /\ loops'[cancel_tokens'[j]].token # "cancelled"
                    /\ \A k \in DOMAIN loops' :
                            loops'[k].ioc = j => k <= cancel_tokens'[j]
      BY DEF TokenIsNewest, IsCancelled
    <2>1. CASE j \in gone
      <3>1. cancel_tokens'[j] = None /\ ioc_pvs'[j] = None
        BY <1>4, <2>1
      <3> QED BY <3>1
    <2>2. CASE j \notin gone
      <3>1. cancel_tokens'[j] = cancel_tokens[j] /\ ioc_pvs'[j] = ioc_pvs[j]
        BY <1>4, <2>2
      <3>2. /\ cancel_tokens[j] = None <=> ioc_pvs[j] = None
            /\ cancel_tokens[j] # None =>
                /\ cancel_tokens[j] \in DOMAIN loops
                /\ loops[cancel_tokens[j]].ioc = j
                /\ loops[cancel_tokens[j]].token # "cancelled"
                /\ \A k \in DOMAIN loops :
                        loops[k].ioc = j => k <= cancel_tokens[j]
        BY <1>1, InvParts DEF TokenIsNewest, IsCancelled
      <3>3. cancel_tokens[j] # None => cancel_tokens[j] \notin ids
        <4>1. SUFFICES ASSUME cancel_tokens[j] # None, cancel_tokens[j] \in ids
                       PROVE  FALSE
          OBVIOUS
        <4>2. PICK i \in gone : cancel_tokens[i] = cancel_tokens[j]
          BY <4>1
        <4>3. i \in IOCs /\ cancel_tokens[i] # None
          BY <1>2, <4>1, <4>2
        <4>4. loops[cancel_tokens[i]].ioc = i
          BY <4>3, InvParts DEF TokenIsNewest
        <4> QED BY <2>2, <3>2, <4>1, <4>2, <4>4
      <3> HIDE DEF ids
      <3> QED BY <1>8, <3>1, <3>2, <3>3 DEF KeepsTasks
    <2> QED BY <2>1, <2>2
  <1> QED BY <1>3, <1>6, <1>7, <1>8, <1>9, <1>10, <1>11, InvNext

LEMMA ReconnectRecvInv ==
    ASSUME DriverInv, ReconnectRecv
    PROVE  DriverInv'
  <1> DEFINE n == Head(reconnect_rx)
  <1>1. /\ main.pc = "idle" /\ reconnect_rx # << >>
        /\ session_commands' = [session_commands EXCEPT ![n.addr] = n.tx]
        /\ reconnect_rx' = Tail(reconnect_rx)
        /\ UNCHANGED << name_servers, pv_server_cache, failed_pvs, ioc_pvs,
                        cancel_tokens, home, loops, lifecycle_rx, main, ops >>
    BY DEF ReconnectRecv
  <1>2. reconnect_rx \in Seq([addr : IOCs, tx : Sender])
        /\ Len(reconnect_rx) <= ReconnectCap
    BY InvParts DEF QueuesOK
  <1>3. /\ n \in [addr : IOCs, tx : Sender] /\ Len(reconnect_rx) \in Nat
        /\ Tail(reconnect_rx) \in Seq([addr : IOCs, tx : Sender])
        /\ Len(Tail(reconnect_rx)) = Len(reconnect_rx) - 1
        /\ Len(reconnect_rx) > 0
    BY <1>1, <1>2, QueueType
  <1>4. n.addr \in IOCs /\ n.tx \in Sender
    BY <1>3
  <1>5. 1 \in DOMAIN reconnect_rx /\ n = reconnect_rx[1]
    BY <1>1, <1>2, <1>3
  <1>6. n.tx[1] \in DOMAIN loops /\ loops[n.tx[1]].ioc = n.addr
    BY <1>5, InvParts DEF NotificationsRoute
  <1>7. \A m \in DOMAIN Tail(reconnect_rx) :
            /\ m + 1 \in DOMAIN reconnect_rx
            /\ Tail(reconnect_rx)[m] = reconnect_rx[m + 1]
    BY <1>1, <1>2
  <1> HIDE DEF n
  <1>8. /\ session_commands' \in [IOCs -> Sender \cup {None}]
        /\ session_commands'[n.addr] = n.tx
        /\ \A j \in IOCs : j # n.addr => session_commands'[j] = session_commands[j]
    BY <1>1, <1>4, InvParts DEF TablesOK
  <1>9. n.tx # None
    BY <1>4, DriverAssumption
  <1>10. TablesOK' /\ LoopsOK' /\ main' \in Call /\ ops' \in 0 .. MaxOps
    BY <1>1, <1>8, InvParts DEF TablesOK, LoopsOK
  <1>11. QueuesOK'
    BY <1>1, <1>2, <1>3, InvParts, DriverAssumption DEF QueuesOK
  <1>12. \A j \in IOCs : session_commands[j] # None => session_commands'[j] # None
    BY <1>8, <1>9
  <1>13. Routable'
    <2>1. ASSUME NEW p \in PVs, pv_server_cache[p] # None
          PROVE  session_commands'[pv_server_cache[p]] # None
      <3>1. pv_server_cache[p] \in IOCs
        BY <2>1, InvParts DEF TablesOK
      <3> QED BY <1>12, <2>1, <3>1, InvParts DEF Routable
    <2>2. ASSUME NEW j \in IOCs, session_commands'[j] # None
          PROVE  /\ session_commands'[j][1] \in DOMAIN loops
                 /\ loops[session_commands'[j][1]].ioc = j
      BY <1>6, <1>8, <2>2, InvParts DEF Routable
    <2> QED BY <1>1, <2>1, <2>2 DEF Routable
  <1>14. NotificationsRoute'
    <2>1. ASSUME NEW m \in DOMAIN Tail(reconnect_rx)
          PROVE  /\ Tail(reconnect_rx)[m].tx[1] \in DOMAIN loops
                 /\ loops[Tail(reconnect_rx)[m].tx[1]].ioc
                        = Tail(reconnect_rx)[m].addr
      BY <1>7, InvParts DEF NotificationsRoute
    <2> QED BY <1>1, <2>1 DEF NotificationsRoute
  <1>15. CallRoutes'
    BY <1>1, <1>12, InvParts DEF CallRoutes, Call
  <1>16. TokenIsNewest'
    BY <1>1, InvParts DEF TokenIsNewest
  <1> QED BY <1>10, <1>11, <1>13, <1>14, <1>15, <1>16, InvNext

(* What a step of a task may do outside its own record, other than queue a *)
(* reconnect notification.                                                 *)
LEMMA LoopOutside ==
    ASSUME DriverInv, NEW k \in DOMAIN loops, LoopStep(k), ~LoopAnnounce(k)
    PROVE  /\ UNCHANGED << tables, reconnect_rx, ops >>
           /\ QueuesOK' /\ main' \in Call /\ CallRoutes'
           /\ main.pc = "exit" => main'.pc = "exit"
  <1>t. loops[k].ioc \in IOCs
    BY InvParts, LoopType
  <1>q. ASSUME UNCHANGED << tables, reconnect_rx, main, ops >>, QueuesOK'
        PROVE  /\ UNCHANGED << tables, reconnect_rx, ops >>
               /\ QueuesOK' /\ main' \in Call /\ CallRoutes'
               /\ main.pc = "exit" => main'.pc = "exit"
    BY <1>q, InvParts DEF CallRoutes, tables
  <1>e. ASSUME NEW e \in LifecycleEvent,
               lifecycle_rx' \in {lifecycle_rx, TrySend(lifecycle_rx, e)},
               UNCHANGED reconnect_rx
        PROVE  QueuesOK'
    BY <1>e, InvParts, TrySendType DEF QueuesOK
  <1>1. CASE LoopAdd(k)
    <2>1. PICK b \in Bulk(loops[k].ioc, Head(loops[k].cmds).pvs) :
            main' = IF main.pc = "wait" /\ main.at = loops[k].ioc
                                        /\ Head(loops[k].cmds).req = ops
                    THEN [main EXCEPT !.pc = "reply", !.ok = b.ok,
                                      !.from = << k, loops[k].sess >>]
                    ELSE main
      BY <1>1 DEF LoopAdd
    <2>2. UNCHANGED << tables, reconnect_rx, lifecycle_rx, ops >>
      BY <1>1 DEF LoopAdd
    <2>3. QueuesOK' /\ session_commands' = session_commands
      BY <2>2, InvParts DEF QueuesOK, tables
    <2>4. CASE main' = main
      BY <2>2, <2>3, <2>4, <1>q
    <2>5. CASE main.pc = "wait"
               /\ main' = [main EXCEPT !.pc = "reply", !.ok = b.ok,
                                       !.from = << k, loops[k].sess >>]
      <3>1. b.ok \in SUBSET PVs
        <4>1. loops[k].cmds # << >> /\ Head(loops[k].cmds).op = "add"
          BY <1>1 DEF LoopAdd
        <4>2. Head(loops[k].cmds) \in SessionCommand
          BY <4>1, InvParts, LoopType, QueueType
        <4>3. Head(loops[k].cmds).pvs \in SUBSET PVs
          BY <4>1, <4>2 DEF SessionCommand
        <4>4. loops[k] \in EventLoop
          BY InvParts, LoopType
        <4> QED BY <1>t, <4>3, <4>4, AdoptType
      <3>2. main' \in Call /\ main'.pc = "reply" /\ main'.at = main.at
            /\ main'.existing = main.existing
        <4>1. << k, loops[k].sess >> \in Sender
          BY InvParts, LoopType DEF Sender
        <4> QED BY <2>5, <3>1, <4>1, InvParts DEF Call, MainPc
      <3>3. CallRoutes'
        BY <2>3, <2>5, <3>2, InvParts DEF CallRoutes
      <3> QED BY <2>2, <2>3, <2>5, <3>2, <3>3
    <2> QED BY <2>1, <2>4, <2>5
  <1>2. CASE LoopRemove(k) \/ LoopCancelled(k) \/ LoopWake(k) \/ LoopRetry(k)
    <2>1. UNCHANGED << tables, reconnect_rx, lifecycle_rx, main, ops >>
      BY <1>2 DEF LoopRemove, LoopCancelled, LoopWake, LoopRetry
    <2>2. QueuesOK'
      BY <2>1, InvParts DEF QueuesOK
    <2> QED BY <2>1, <2>2, <1>q
  <1>3. CASE LoopShutdown(k) \/ LoopDisconnect(k)
    <2> DEFINE e == [kind |-> "Disconnected", addr |-> loops[k].ioc]
    <2>1. /\ UNCHANGED << tables, reconnect_rx, main, ops >>
          /\ lifecycle_rx' \in {lifecycle_rx, TrySend(lifecycle_rx, e)}
      BY <1>3 DEF LoopShutdown, LoopDisconnect, EndSession
    <2>2. e \in LifecycleEvent
      BY <1>t DEF LifecycleEvent
    <2> QED BY <2>1, <2>2, <1>e, <1>q
  <1>4. CASE LoopReconnect(k)
    <2> DEFINE e == [kind |-> "Reconnected", addr |-> loops[k].ioc]
    <2>1. /\ UNCHANGED << tables, reconnect_rx, main, ops >>
          /\ lifecycle_rx' \in {lifecycle_rx, TrySend(lifecycle_rx, e)}
      BY <1>4 DEF LoopReconnect
    <2>2. e \in LifecycleEvent
      BY <1>t DEF LifecycleEvent
    <2> QED BY <2>1, <2>2, <1>e, <1>q
  <1> QED BY <1>1, <1>2, <1>3, <1>4 DEF LoopStep

LEMMA LoopAnnounceInv ==
    ASSUME DriverInv, NEW k \in DOMAIN loops, LoopAnnounce(k)
    PROVE  DriverInv'
  <1> DEFINE n == [addr |-> loops[k].ioc, tx |-> << k, loops[k].sess >>]
  <1>1. /\ Len(reconnect_rx) < ReconnectCap
        /\ reconnect_rx' = Append(reconnect_rx, n)
        /\ UNCHANGED << tables, lifecycle_rx, main, ops >>
    BY DEF LoopAnnounce
  <1>2. /\ LoopsOK' /\ DOMAIN loops' = DOMAIN loops /\ KeepsTasks /\ KeepsTokens
    BY InvParts, LoopEffect DEF LoopStep
  <1>3. n \in [addr : IOCs, tx : Sender] /\ n.addr = loops[k].ioc /\ n.tx[1] = k
    BY InvParts, LoopType DEF Sender
  <1> HIDE DEF n
  <1>4. /\ reconnect_rx \in Seq([addr : IOCs, tx : Sender])
        /\ Len(reconnect_rx) \in Nat
    BY InvParts DEF QueuesOK
  <1>5. /\ reconnect_rx' \in Seq([addr : IOCs, tx : Sender])
        /\ Len(reconnect_rx') = Len(reconnect_rx) + 1
        /\ \A m \in DOMAIN reconnect_rx' :
              \/ m \in DOMAIN reconnect_rx /\ reconnect_rx'[m] = reconnect_rx[m]
              \/ reconnect_rx'[m] = n
    BY <1>1, <1>3, <1>4
  <1>6. QueuesOK'
    BY <1>1, <1>4, <1>5, InvParts, DriverAssumption DEF QueuesOK
  <1>7. UNCHANGED << name_servers, pv_server_cache, failed_pvs,
                     session_commands, ioc_pvs, cancel_tokens, home >>
        /\ UNCHANGED << main, ops >>
    BY <1>1 DEF tables
  <1>8. TablesOK' /\ main' \in Call /\ ops' \in 0 .. MaxOps /\ CallRoutes'
    BY <1>7, InvParts DEF TablesOK, CallRoutes
  <1>9. Routable' /\ TokenIsNewest'
    BY <1>2, <1>7, InvParts, RoutesFrame, TokensFrame
  <1>10. NotificationsRoute'
    <2>1. ASSUME NEW m \in DOMAIN reconnect_rx'
          PROVE  /\ reconnect_rx'[m].tx[1] \in DOMAIN loops
                 /\ loops[reconnect_rx'[m].tx[1]].ioc = reconnect_rx'[m].addr
      BY <1>3, <1>5, InvParts DEF NotificationsRoute
    <2> QED BY <1>2, <2>1 DEF NotificationsRoute, KeepsTasks
  <1> QED BY <1>2, <1>6, <1>8, <1>9, <1>10, InvNext

LEMMA LoopStepInv ==
    ASSUME DriverInv, NEW k \in DOMAIN loops, LoopStep(k)
    PROVE  DriverInv'
  <1>1. CASE LoopAnnounce(k)
    BY <1>1, LoopAnnounceInv
  <1>2. CASE ~LoopAnnounce(k)
    <2>1. LoopsOK' /\ DOMAIN loops' = DOMAIN loops /\ KeepsTasks /\ KeepsTokens
      BY InvParts, LoopEffect
    <2> QED BY <1>2, <2>1, LoopOutside, TaskStep
  <1> QED BY <1>1, <1>2

-----------------------------------------------------------------------------
(* Every step of the system keeps the invariant.                           *)
LEMMA DriverStep ==
    ASSUME DriverInv, [Next]_vars
    PROVE  DriverInv'
  <1>1. CASE Next
    <2>1. ASSUME NEW k \in DOMAIN loops, LoopStep(k) PROVE DriverInv'
      BY <2>1, LoopStepInv
    <2>2. ASSUME NEW names \in SUBSET PVs, MonitorBatch(names) PROVE DriverInv'
      BY <2>2, MonitorBatchInv
    <2>3. ASSUME NEW i \in IOCs,
                 SendAddBatch(i) \/ FreshSession(i) \/ AnnounceConnected(i)
          PROVE  DriverInv'
      BY <2>3, SendAddBatchInv, FreshSessionInv, AnnounceConnectedInv
    <2>4. CASE BatchReply \/ BatchGiveUp \/ BatchReturn
      BY <2>4, BatchReplyInv, BatchGiveUpInv, BatchReturnInv
    <2>5. ASSUME NEW p \in PVs, Unsubscribe(p) PROVE DriverInv'
      BY <2>5, UnsubscribeInv
    <2>6. ASSUME NEW addrs \in SUBSET IOCs, IocChange(addrs) PROVE DriverInv'
      BY <2>6, IocChangeInv
    <2>7. ASSUME NEW i \in IOCs, NEW configured \in SUBSET PVs,
                 HotAddIoc(i, configured)
          PROVE  DriverInv'
      BY <2>7, HotAddIocInv
    <2>8. CASE ReconnectRecv \/ LifecycleRecv \/ SendShutdown \/ CancelAll
      BY <2>8, ReconnectRecvInv, LifecycleRecvInv, SendShutdownInv, CancelAllInv
    <2> QED BY <1>1, <2>1, <2>2, <2>3, <2>4, <2>5, <2>6, <2>7, <2>8
            DEF Next, MainStep
  <1>2. CASE UNCHANGED vars
    <2>1. UNCHANGED << name_servers, pv_server_cache, failed_pvs,
                       session_commands, ioc_pvs, cancel_tokens, home >>
          /\ UNCHANGED << loops, reconnect_rx, lifecycle_rx, main, ops >>
      BY <1>2 DEF vars, tables
    <2>2. QueuesOK' /\ main' \in Call /\ CallRoutes' /\ ops' \in 0 .. MaxOps
          /\ failed_pvs' \subseteq PVs
      BY <2>1, InvParts DEF QueuesOK, CallRoutes, TablesOK
    <2> QED BY <2>1, <2>2, QuietStep
  <1> QED BY <1>1, <1>2

(* The tables, tasks, queues and calls of the driver are consistent in     *)
(* every reachable state (driver.rs, session.rs, main.rs).                 *)
THEOREM DriverInvariant == Spec => []DriverInv
  BY DriverInit, DriverStep, PTL DEF Spec

(* Every table and queue keeps its type and capacity.                      *)
THEOREM DriverTypeCorrect == Spec => []TypeOK
  <1>1. DriverInv => TypeOK
    BY DEF DriverInv
  <1> QED BY <1>1, DriverInvariant, PTL

(* Whatever IOC the cache names, unsubscribe finds a command channel, and  *)
(* it belongs to a task of that IOC.                                       *)
THEOREM DriverRoutable == Spec => []Routable
  <1>1. DriverInv => Routable
    BY DEF DriverInv
  <1> QED BY <1>1, DriverInvariant, PTL

(* The token the driver holds for an IOC cancels its newest task, and one  *)
(* is held exactly while the IOC's PVs are tracked.                        *)
THEOREM DriverTokenIsNewest == Spec => []TokenIsNewest
  <1>1. DriverInv => TokenIsNewest
    BY DEF DriverInv
  <1> QED BY <1>1, DriverInvariant, PTL

-----------------------------------------------------------------------------
(* A cancelled task stays cancelled and makes no way back.                 *)
NoWayBack ==
    \A k \in DOMAIN loops : IsCancelled(loops[k]) =>
        /\ IsCancelled(loops'[k])
        /\ Rank(loops'[k].pc) <= Rank(loops[k].pc)

(* A step that moves no task and resets no token.                          *)
LEMMA StillTasks ==
    ASSUME TypeOK, KeepsPcs,
           \A k \in DOMAIN loops : loops'[k].token \in {loops[k].token, "cancelled"}
    PROVE  NoWayBack
  <1> SUFFICES ASSUME NEW k \in DOMAIN loops, IsCancelled(loops[k])
               PROVE  /\ IsCancelled(loops'[k])
                      /\ Rank(loops'[k].pc) <= Rank(loops[k].pc)
    BY DEF NoWayBack
  <1>1. loops'[k].pc = loops[k].pc /\ loops[k].pc \in LoopPc
    BY LoopType DEF KeepsPcs
  <1>2. Rank(loops[k].pc) \in Nat
    BY <1>1 DEF LoopPc, Rank
  <1>3. IsCancelled(loops'[k])
    BY DEF IsCancelled
  <1> QED BY <1>1, <1>2, <1>3

LEMMA NoWayBackStep ==
    ASSUME DriverInv, [Next]_vars
    PROVE  NoWayBack
  <1>u. ASSUME UNCHANGED loops PROVE NoWayBack
    BY <1>u, InvParts, StillTasks DEF KeepsPcs
  <1>d. ASSUME KeepsPcs, KeepsTokens PROVE NoWayBack
    BY <1>d, InvParts, StillTasks DEF KeepsTokens
  <1>s. ASSUME NEW i \in IOCs, NEW pvs \in SUBSET PVs, NEW b \in Bulk(i, pvs),
               Spawn(i, pvs, pvs, b)
        PROVE  NoWayBack
    BY <1>s, <1>d, InvParts, SpawnEffect
  <1>c. ASSUME NEW ids, loops' = Cancelled(loops, ids) PROVE NoWayBack
    BY <1>c, InvParts, CancelEffect, StillTasks
  <1>1. ASSUME NEW k \in DOMAIN loops, LoopStep(k) PROVE NoWayBack
    <2> SUFFICES ASSUME NEW j \in DOMAIN loops, IsCancelled(loops[j])
                 PROVE  /\ IsCancelled(loops'[j])
                        /\ Rank(loops'[j].pc) <= Rank(loops[j].pc)
      BY DEF NoWayBack
    <2>1. /\ \A m \in DOMAIN loops : m # k => loops'[m] = loops[m]
          /\ Successor(loops[k], loops'[k])
      BY <1>1, InvParts, LoopEffect
    <2>2. CASE j = k
      BY <2>1, <2>2 DEF Successor, IsCancelled
    <2>3. CASE j # k
      <3>1. loops'[j] = loops[j] /\ loops[j].pc \in LoopPc
        BY <2>1, <2>3, InvParts, LoopType
      <3>2. Rank(loops[j].pc) \in Nat
        BY <3>1 DEF LoopPc, Rank
      <3> QED BY <3>1, <3>2
    <2> QED BY <2>2, <2>3
  <1>2. ASSUME NEW i \in IOCs, SendAddBatch(i) PROVE NoWayBack
    <2> DEFINE tx == session_commands[i]
               cmd == [op |-> "add", pvs |-> FoundAt(i), req |-> ops]
    <2>1. i \in main.existing /\ CanSend(tx) /\ loops' = Deliver(loops, tx, cmd)
      BY <1>2 DEF SendAddBatch
    <2>2. tx \in Sender /\ tx[1] \in DOMAIN loops
      BY <2>1, InvParts DEF CallRoutes, Routable, TablesOK
    <2>3. FoundAt(i) \in SUBSET PVs /\ ops \in Nat
      BY InvParts, DriverAssumption DEF FoundAt
    <2>4. cmd \in SessionCommand
      BY <2>3 DEF SessionCommand
    <2> HIDE DEF tx, cmd
    <2> QED BY <2>1, <2>2, <2>4, <1>d, InvParts, DeliverEffect
  <1>3. ASSUME NEW p \in PVs, Unsubscribe(p) PROVE NoWayBack
    <2> DEFINE i == pv_server_cache[p]
               tx == session_commands[i]
               cmd == [op |-> "remove", pv |-> p]
    <2>1. i # None
      BY <1>3 DEF Unsubscribe
    <2>2. i \in IOCs
      BY <2>1, InvParts DEF TablesOK
    <2>3. tx # None /\ tx \in Sender /\ tx[1] \in DOMAIN loops
      BY <2>1, <2>2, InvParts DEF Routable, TablesOK
    <2>4. CanSend(tx) /\ loops' = Deliver(loops, tx, cmd)
      BY <1>3, <2>3 DEF Unsubscribe
    <2>5. cmd \in SessionCommand
      BY DEF SessionCommand
    <2> HIDE DEF tx, cmd
    <2> QED BY <2>3, <2>4, <2>5, <1>d, InvParts, DeliverEffect
  <1>4. ASSUME NEW i \in IOCs, FreshSession(i) PROVE NoWayBack
    <2>1. FoundAt(i) \in SUBSET PVs
      BY DEF FoundAt
    <2>2. PICK b \in Bulk(i, FoundAt(i)) :
            UNCHANGED loops \/ Spawn(i, FoundAt(i), FoundAt(i), b)
      BY <1>4 DEF FreshSession
    <2> QED BY <2>1, <2>2, <1>u, <1>s
  <1>5. ASSUME NEW i \in IOCs, NEW configured \in SUBSET PVs,
               HotAddIoc(i, configured)
        PROVE  NoWayBack
    <2>1. PICK found \in SUBSET PVs : \E b \in Bulk(i, found) :
            UNCHANGED loops \/ Spawn(i, found, found, b)
      <3> DEFINE search == failed_pvs \cup
                             { p \in configured : pv_server_cache[p] = None }
      <3>1. PICK found \in SUBSET (search \cap Serves[i]) :
              \E b \in Bulk(i, found) :
                UNCHANGED loops \/ Spawn(i, found, found, b)
        BY <1>5 DEF HotAddIoc
      <3>2. found \in SUBSET PVs
        BY InvParts DEF TablesOK
      <3> QED BY <3>1, <3>2
    <2> QED BY <2>1, <1>u, <1>s
  <1>6. ASSUME NEW addrs \in SUBSET IOCs, IocChange(addrs) PROVE NoWayBack
    BY <1>6, <1>c DEF IocChange, RemoveSessions
  <1>7. CASE SendShutdown
    BY <1>7, <1>d, InvParts, ShutdownEffect
  <1>8. CASE CancelAll
    BY <1>8, <1>c DEF CancelAll
  <1>9. ASSUME \/ \E names \in SUBSET PVs : MonitorBatch(names)
               \/ \E i \in IOCs : AnnounceConnected(i)
               \/ BatchReply \/ BatchGiveUp \/ BatchReturn
               \/ ReconnectRecv \/ LifecycleRecv \/ UNCHANGED vars
        PROVE  NoWayBack
    BY <1>9, <1>u DEF MonitorBatch, AnnounceConnected, BatchReply, BatchGiveUp,
                      BatchReturn, ReconnectRecv, LifecycleRecv, vars
  <1> QED BY <1>1, <1>2, <1>3, <1>4, <1>5, <1>6, <1>7, <1>8, <1>9
          DEF Next, MainStep

(* A cancelled event loop never goes back to waiting for a reconnect: it   *)
(* opens at most the connection it was already attempting (driver.rs).     *)
THEOREM DriverCancelledNeverRetries == Spec => CancelledNeverRetries
  <1>1. DriverInv /\ [Next]_vars => NoWayBack
    BY NoWayBackStep
  <1>2. [][NoWayBack]_vars => CancelledNeverRetries
    BY DEF CancelledNeverRetries, NoWayBack
  <1> QED BY <1>1, <1>2, DriverInvariant, PTL DEF Spec
-----------------------------------------------------------------------------
(***************************************************************************)
(* SubscribedHasHome.  The session s that accepted a PV p keeps it while   *)
(* the task l runs that session, or one whose reconnect got p back: there  *)
(* is a monitor of p and no command to remove it.                          *)
(***************************************************************************)
NoRemove(l, p) ==
    \A n \in DOMAIN l.cmds : l.cmds[n].op = "remove" => l.cmds[n].pv # p

Keeps(l, p, s) ==
    /\ s <= l.sess
    /\ l.pc \in {"run", "announce"} /\ (l.sess = s \/ p \in l.restored)
            => l.mons[p] > 0 /\ NoRemove(l, p)

(* Only a task that runs a session has commands queued.                    *)
QueueShut(l) == l.pc # "run" => l.cmds = << >>

(* No queued batch is newer than the call r, and behind the batch of call  *)
(* r no remove is queued.                                                  *)
Asked(l, r) ==
    \A n \in DOMAIN l.cmds : l.cmds[n].op = "add" =>
        /\ l.cmds[n].req <= r
        /\ l.cmds[n].req = r => \A m \in DOMAIN l.cmds :
                                    m > n => l.cmds[m].op # "remove"

(* h is a session of a task of the IOC i, and that task keeps p.           *)
Home(i, p, h) ==
    /\ h \in Sender /\ h[1] \in DOMAIN loops
    /\ loops[h[1]].ioc = i /\ Keeps(loops[h[1]], p, h[2])

QueuesShut     == \A k \in DOMAIN loops : QueueShut(loops[k])
BatchesInOrder == \A k \in DOMAIN loops : Asked(loops[k], ops)

ReplyHasHome ==
    main.pc = "reply" => \A p \in main.ok : Home(main.at, p, main.from)

CachedHasHome ==
    \A p \in PVs : pv_server_cache[p] # None =>
        Home(pv_server_cache[p], p, home[p])

HomeInv == QueuesShut /\ BatchesInOrder /\ ReplyHasHome /\ CachedHasHome

(* The queue of e is the end of the queue of l.                            *)
Suffix(l, e) ==
    \E d \in Nat : \A n \in DOMAIN e.cmds :
        n + d \in DOMAIN l.cmds /\ e.cmds[n] = l.cmds[n + d]

LEMMA SuffixKeeps ==
    ASSUME NEW l \in EventLoop, NEW e \in EventLoop, Suffix(l, e)
    PROVE  /\ \A p \in PVs : NoRemove(l, p) => NoRemove(e, p)
           /\ \A r \in Nat : Asked(l, r) => Asked(e, r)
  <1>1. PICK d \in Nat : \A n \in DOMAIN e.cmds :
            n + d \in DOMAIN l.cmds /\ e.cmds[n] = l.cmds[n + d]
    BY DEF Suffix
  <1>2. e.cmds \in Seq(SessionCommand) /\ l.cmds \in Seq(SessionCommand)
    BY DEF EventLoop
  <1>3. ASSUME NEW p \in PVs, NoRemove(l, p) PROVE NoRemove(e, p)
    BY <1>1, <1>3 DEF NoRemove
  <1>4. ASSUME NEW r \in Nat, Asked(l, r) PROVE Asked(e, r)
    <2> SUFFICES ASSUME NEW n \in DOMAIN e.cmds, e.cmds[n].op = "add"
                 PROVE  /\ e.cmds[n].req <= r
                        /\ e.cmds[n].req = r => \A m \in DOMAIN e.cmds :
                                    m > n => e.cmds[m].op # "remove"
      BY DEF Asked
    <2>1. n + d \in DOMAIN l.cmds /\ e.cmds[n] = l.cmds[n + d]
      BY <1>1
    <2>2. /\ l.cmds[n + d].req <= r
          /\ l.cmds[n + d].req = r => \A m \in DOMAIN l.cmds :
                                    m > n + d => l.cmds[m].op # "remove"
      BY <1>4, <2>1 DEF Asked
    <2>3. ASSUME NEW m \in DOMAIN e.cmds, m > n, e.cmds[n].req = r
          PROVE  e.cmds[m].op # "remove"
      <3>1. m + d \in DOMAIN l.cmds /\ e.cmds[m] = l.cmds[m + d]
        BY <1>1
      <3>2. m + d > n + d
        BY <1>2, <2>3
      <3> QED BY <2>1, <2>2, <2>3, <3>1, <3>2
    <2> QED BY <2>1, <2>2, <2>3
  <1> QED BY <1>3, <1>4

(* Taking the head of a queue, emptying it or leaving it alone.            *)
LEMMA QueueSuffix ==
    ASSUME NEW l \in EventLoop, NEW e \in EventLoop,
           \/ e.cmds = l.cmds
           \/ e.cmds = << >>
           \/ l.cmds # << >> /\ e.cmds = Tail(l.cmds)
    PROVE  Suffix(l, e)
  <1>1. l.cmds \in Seq(SessionCommand)
    BY DEF EventLoop
  <1>2. CASE e.cmds = l.cmds
    <2>1. \A n \in DOMAIN e.cmds :
              n + 0 \in DOMAIN l.cmds /\ e.cmds[n] = l.cmds[n + 0]
      BY <1>1, <1>2
    <2> QED BY <2>1 DEF Suffix
  <1>3. CASE e.cmds = << >>
    BY <1>3 DEF Suffix
  <1>4. CASE l.cmds # << >> /\ e.cmds = Tail(l.cmds)
    <2>1. \A n \in DOMAIN e.cmds :
              n + 1 \in DOMAIN l.cmds /\ e.cmds[n] = l.cmds[n + 1]
      BY <1>1, <1>4
    <2> QED BY <2>1 DEF Suffix
  <1> QED BY <1>2, <1>3, <1>4

(* What a step of a task hands on.                                         *)
Carries(l, e) ==
    /\ QueueShut(l) => QueueShut(e)
    /\ \A r \in Nat : Asked(l, r) => Asked(e, r)
    /\ \A p \in PVs, s \in Nat : QueueShut(l) /\ Keeps(l, p, s) => Keeps(e, p, s)

LEMMA CarriesSelf ==
    ASSUME NEW l PROVE Carries(l, l)
  BY DEF Carries

(* A move between two positions at which the task runs no session.         *)
LEMMA PcCarries ==
    ASSUME TypeOK, NEW k \in DOMAIN loops, NEW pc \in LoopPc, SetPc(k, pc),
           pc = "run" => loops[k].pc = "announce",
           loops[k].pc # "run", pc # "announce"
    PROVE  Carries(loops[k], loops'[k])
  <1> DEFINE l == loops[k]
             e == [l EXCEPT !.pc = pc]
  <1>1. l \in EventLoop /\ loops \in Seq(EventLoop)
    BY LoopType DEF TypeOK
  <1>2. /\ e \in EventLoop /\ e.token = l.token /\ e.cmds = l.cmds /\ e.pc = pc
        /\ e.sess = l.sess /\ e.restored = l.restored /\ e.mons = l.mons
    BY <1>1 DEF EventLoop
  <1>3. loops'[k] = e
    BY <1>1 DEF SetPc
  <1>4. l.sess \in Nat
    BY <1>1 DEF EventLoop
  <1> HIDE DEF e
  <1>5. Suffix(l, e)
    BY <1>1, <1>2, QueueSuffix
  <1>6. /\ \A r \in Nat : Asked(l, r) => Asked(e, r)
        /\ \A p \in PVs : NoRemove(l, p) => NoRemove(e, p)
    BY <1>1, <1>2, <1>5, SuffixKeeps
  <1>7. QueueShut(l) => QueueShut(e)
    BY <1>2 DEF QueueShut
  <1>8. \A p \in PVs, s \in Nat : Keeps(l, p, s) => Keeps(e, p, s)
    BY <1>2, <1>6 DEF Keeps
  <1> QED BY <1>3, <1>6, <1>7, <1>8 DEF Carries

(* The monitors of a session that has adopted a batch.                     *)
LEMMA AdoptMons ==
    ASSUME NEW l \in EventLoop, NEW pvs, NEW b, NEW p \in PVs, p \in b.ok
    PROVE  Adopt(l, pvs, b).mons[p] > 0
  <1>1. Adopt(l, pvs, b).mons =
            [q \in PVs |-> l.mons[q] + (IF q \in b.ok THEN 1 ELSE 0)]
    BY DEF Adopt, EventLoop
  <1>2. l.mons[p] \in Nat
    BY DEF EventLoop
  <1> QED BY <1>1, <1>2

(* Every step of a task.                                                   *)
LEMMA LoopCarries ==
    ASSUME TypeOK, NEW k \in DOMAIN loops, LoopStep(k)
    PROVE  Carries(loops[k], loops'[k])
  <1> DEFINE l == loops[k]
  <1>l. /\ l \in EventLoop /\ l.cmds \in Seq(SessionCommand) /\ l.pc \in LoopPc
        /\ l.ioc \in IOCs /\ l.reconnect_pvs \in SUBSET PVs
        /\ l.sess \in Nat /\ l.mons \in [PVs -> Nat]
        /\ loops \in Seq(EventLoop)
    BY LoopType DEF TypeOK, EventLoop
  <1>1. CASE LoopAdd(k)
    <2>1. l.pc = "run" /\ l.cmds # << >> /\ Head(l.cmds).op = "add"
      BY <1>1 DEF LoopAdd
    <2>2. Head(l.cmds) \in SessionCommand /\ Tail(l.cmds) \in Seq(SessionCommand)
      BY <1>l, <2>1, QueueType
    <2>3. Head(l.cmds).pvs \in SUBSET PVs
      BY <2>1, <2>2 DEF SessionCommand
    <2>4. PICK b \in Bulk(l.ioc, Head(l.cmds).pvs) :
            loops' = [loops EXCEPT ![k] = [Adopt(l, Head(l.cmds).pvs, b) EXCEPT
                                                !.cmds = Tail(@)]]
      BY <1>1 DEF LoopAdd
    <2> DEFINE a == Adopt(l, Head(l.cmds).pvs, b)
               e == [a EXCEPT !.cmds = Tail(l.cmds)]
    <2>5. /\ a \in EventLoop /\ a.token = l.token /\ a.pc = l.pc
          /\ a.sess = l.sess /\ a.cmds = l.cmds
      BY <1>l, <2>3, AdoptType
    <2>6. /\ a.restored = l.restored
          /\ \A p \in PVs : a.mons[p] >= l.mons[p] /\ a.mons[p] \in Nat
      BY <1>l DEF Adopt, EventLoop
    <2> HIDE DEF a
    <2>7. /\ e \in EventLoop /\ e.token = l.token /\ e.pc = l.pc
          /\ e.sess = l.sess /\ e.cmds = Tail(l.cmds)
          /\ e.restored = l.restored /\ e.mons = a.mons
      BY <2>2, <2>5, <2>6 DEF EventLoop
    <2>8. loops'[k] = e
      BY <1>l, <2>4, <2>5 DEF a
    <2> HIDE DEF e
    <2>9. /\ \A p \in PVs : NoRemove(l, p) => NoRemove(e, p)
          /\ \A r \in Nat : Asked(l, r) => Asked(e, r)
      BY <1>l, <2>1, <2>7, QueueSuffix, SuffixKeeps
    <2>10. QueueShut(e)
      BY <2>1, <2>7 DEF QueueShut
    <2>11. ASSUME NEW p \in PVs, NEW s \in Nat, Keeps(l, p, s)
           PROVE  Keeps(e, p, s)
      <3>1. l.mons[p] \in Nat /\ a.mons[p] >= l.mons[p] /\ a.mons[p] \in Nat
        BY <1>l, <2>6
      <3> QED BY <2>1, <2>7, <2>9, <2>11, <3>1 DEF Keeps
    <2> QED BY <2>8, <2>9, <2>10, <2>11 DEF Carries
  <1>2. CASE LoopRemove(k)
    <2> DEFINE q == Head(l.cmds).pv
               next == [l EXCEPT !.cmds = Tail(@)]
    <2>1. l.pc = "run" /\ l.cmds # << >> /\ Head(l.cmds).op = "remove"
      BY <1>2 DEF LoopRemove
    <2>2. Head(l.cmds) \in SessionCommand /\ Tail(l.cmds) \in Seq(SessionCommand)
      BY <1>l, <2>1, QueueType
    <2>q. q \in PVs
      BY <2>1, <2>2 DEF SessionCommand
    <2>3. PICK e \in EventLoop :
            /\ loops' = [loops EXCEPT ![k] = e]
            /\ e.token = l.token /\ e.pc = l.pc
            /\ e.sess = l.sess /\ e.cmds = Tail(l.cmds)
            /\ e.restored = l.restored
            /\ \A p \in PVs : p # q => e.mons[p] = l.mons[p]
      <3>n. /\ next \in EventLoop /\ next.token = l.token /\ next.pc = l.pc
            /\ next.sess = l.sess /\ next.cmds = Tail(l.cmds)
            /\ next.restored = l.restored /\ next.mons = l.mons
            /\ next.live = l.live /\ next.dead = l.dead
        BY <1>l, <2>2 DEF EventLoop
      <3>1. CASE loops' = [loops EXCEPT ![k] = next]
        BY <3>n, <3>1
      <3>2. CASE loops' = [loops EXCEPT ![k] =
                    [next EXCEPT !.mons[q] = IF @ > 0 THEN @ - 1 ELSE 0,
                                 !.live = @ \ {q}, !.dead = @ \ {q}]]
        <4> DEFINE m == [next.mons EXCEPT ![q] = IF @ > 0 THEN @ - 1 ELSE 0]
                   lv == next.live \ {q}
                   dd == next.dead \ {q}
                   e == [next EXCEPT !.mons = m, !.live = lv, !.dead = dd]
        <4>1. m \in [PVs -> Nat] /\ \A p \in PVs : p # q => m[p] = l.mons[p]
          <5> HIDE DEF next, q
          <5> QED BY <1>l, <2>q, <3>n
        <4>2. lv \subseteq PVs /\ dd \subseteq PVs
          BY <3>n DEF EventLoop
        <4>3. loops' = [loops EXCEPT ![k] = e]
          BY <3>2
        <4> HIDE DEF m, lv, dd, next
        <4>4. /\ e \in EventLoop /\ e.token = l.token /\ e.pc = l.pc
              /\ e.sess = l.sess /\ e.cmds = Tail(l.cmds)
              /\ e.restored = l.restored /\ e.mons = m
          BY <3>n, <4>1, <4>2 DEF EventLoop
        <4> HIDE DEF e
        <4> QED BY <4>1, <4>3, <4>4
      <3> QED BY <1>2, <3>1, <3>2 DEF LoopRemove
    <2>4. loops'[k] = e
      BY <1>l, <2>3
    <2>5. /\ \A p \in PVs : NoRemove(l, p) => NoRemove(e, p)
          /\ \A r \in Nat : Asked(l, r) => Asked(e, r)
      BY <1>l, <2>1, <2>3, QueueSuffix, SuffixKeeps
    <2>6. QueueShut(e)
      BY <2>1, <2>3 DEF QueueShut
    <2>7. ASSUME NEW p \in PVs, NEW s \in Nat, Keeps(l, p, s)
          PROVE  Keeps(e, p, s)
      <3>1. NoRemove(l, p) => p # q
        BY <1>l, <2>1 DEF NoRemove
      <3> QED BY <2>1, <2>3, <2>5, <2>7, <3>1 DEF Keeps
    <2> QED BY <2>4, <2>5, <2>6, <2>7 DEF Carries
  <1>3. CASE LoopShutdown(k) \/ LoopDisconnect(k)
    <2> DEFINE pc == IF l.reconnect_pvs = {} \/ IsCancelled(l) THEN "done"
                     ELSE "backoff"
               s == NoSession(l)
               e == [s EXCEPT !.pc = pc]
    <2>1. loops' = [loops EXCEPT ![k] = e] /\ l.pc = "run"
      BY <1>3 DEF LoopShutdown, LoopDisconnect, EndSession
    <2>2. s \in EventLoop /\ s.token = l.token /\ s.cmds = << >>
      BY <1>l, NoSessionType
    <2>3. s.sess = l.sess
      BY <1>l DEF NoSession, EventLoop
    <2>4. pc \in {"done", "backoff"}
      OBVIOUS
    <2> HIDE DEF s, pc
    <2>5. e \in EventLoop /\ e.cmds = << >> /\ e.sess = l.sess /\ e.pc = pc
      BY <2>2, <2>3, <2>4 DEF EventLoop, LoopPc
    <2>6. loops'[k] = e
      BY <1>l, <2>1
    <2> HIDE DEF e
    <2>7. \A r \in Nat : Asked(l, r) => Asked(e, r)
      BY <1>l, <2>5, QueueSuffix, SuffixKeeps
    <2>8. QueueShut(e)
      BY <2>5 DEF QueueShut
    <2>9. \A p \in PVs, n \in Nat : Keeps(l, p, n) => Keeps(e, p, n)
      BY <2>4, <2>5 DEF Keeps
    <2> QED BY <2>6, <2>7, <2>8, <2>9 DEF Carries
  <1>4. CASE LoopCancelled(k)
    <2>1. SetPc(k, "done") /\ loops[k].pc = "backoff"
      BY <1>4 DEF LoopCancelled
    <2> QED BY <2>1, PcCarries DEF LoopPc
  <1>5. CASE LoopWake(k)
    <2>1. SetPc(k, "connect") /\ loops[k].pc = "backoff"
      BY <1>5 DEF LoopWake
    <2> QED BY <2>1, PcCarries DEF LoopPc
  <1>6. CASE LoopRetry(k)
    <2>1. CASE IsCancelled(loops[k])
      <3>1. SetPc(k, "done") /\ loops[k].pc = "connect"
        BY <1>6, <2>1 DEF LoopRetry
      <3> QED BY <2>1, <3>1, PcCarries DEF LoopPc
    <2>2. CASE ~IsCancelled(loops[k])
      <3>1. SetPc(k, "backoff") /\ loops[k].pc = "connect"
        BY <1>6, <2>2 DEF LoopRetry
      <3> QED BY <3>1, PcCarries DEF LoopPc
    <2> QED BY <2>1, <2>2
  <1>7. CASE LoopReconnect(k)
    <2>1. l.pc = "connect" /\ l.sess < MaxSessions
      BY <1>7 DEF LoopReconnect
    <2>2. PICK b \in Bulk(l.ioc, l.reconnect_pvs) :
            loops' = [loops EXCEPT ![k] =
                          [Adopt(l, l.reconnect_pvs, b) EXCEPT
                              !.pc = "announce", !.sess = @ + 1,
                              !.restored = b.ok]]
      BY <1>7 DEF LoopReconnect
    <2> DEFINE a == Adopt(l, l.reconnect_pvs, b)
               n == a.sess + 1
               got == b.ok
               e == [a EXCEPT !.pc = "announce", !.sess = n, !.restored = got]
    <2>3. /\ a \in EventLoop /\ a.sess = l.sess /\ a.cmds = l.cmds
          /\ got \subseteq PVs
      BY <1>l, AdoptType
    <2>4. \A p \in got : a.mons[p] > 0
      BY <1>l, <2>3, AdoptMons
    <2>5. n \in 1 .. MaxSessions /\ n > l.sess /\ n \in Nat
      BY <2>1, <2>3, LoopType, DriverAssumption
    <2>6. loops' = [loops EXCEPT ![k] = e]
      BY <2>2
    <2> HIDE DEF a, n, got
    <2>7. /\ e \in EventLoop /\ e.pc = "announce" /\ e.sess = n
          /\ e.cmds = l.cmds /\ e.mons = a.mons /\ e.restored = got
      BY <2>3, <2>5 DEF EventLoop, LoopPc
    <2>8. loops'[k] = e
      BY <1>l, <2>6
    <2> HIDE DEF e
    <2>9. \A r \in Nat : Asked(l, r) => Asked(e, r)
      BY <1>l, <2>7, QueueSuffix, SuffixKeeps
    <2>10. QueueShut(l) => QueueShut(e) /\ e.cmds = << >>
      BY <2>1, <2>7 DEF QueueShut
    <2>11. ASSUME NEW p \in PVs, NEW s \in Nat, QueueShut(l), Keeps(l, p, s)
           PROVE  Keeps(e, p, s)
      <3>1. s <= l.sess /\ s <= e.sess /\ s # e.sess
        BY <1>l, <2>5, <2>7, <2>11 DEF Keeps
      <3>2. NoRemove(e, p)
        BY <2>10, <2>11 DEF NoRemove
      <3> QED BY <2>4, <2>7, <3>1, <3>2 DEF Keeps
    <2> QED BY <2>8, <2>9, <2>10, <2>11 DEF Carries
  <1>8. CASE LoopAnnounce(k)
    <2>1. SetPc(k, "run") /\ loops[k].pc = "announce"
      BY <1>8 DEF LoopAnnounce
    <2> QED BY <2>1, PcCarries DEF LoopPc
  <1> QED BY <1>1, <1>2, <1>3, <1>4, <1>5, <1>6, <1>7, <1>8 DEF LoopStep

(* The home of p on i after a step is its home before, if the step keeps   *)
(* what makes it one.                                                      *)
LEMMA HomeFrame ==
    ASSUME NEW i, NEW p, NEW h, Home(i, p, h), KeepsTasks,
           Keeps(loops[h[1]], p, h[2]) => Keeps(loops'[h[1]], p, h[2])
    PROVE  /\ h \in Sender /\ h[1] \in DOMAIN loops' /\ loops'[h[1]].ioc = i
           /\ Keeps(loops'[h[1]], p, h[2])
  BY DEF Home, KeepsTasks

LEMMA CachedNext ==
    ASSUME \A p \in PVs : pv_server_cache'[p] # None =>
                /\ home'[p] \in Sender /\ home'[p][1] \in DOMAIN loops'
                /\ loops'[home'[p][1]].ioc = pv_server_cache'[p]
                /\ Keeps(loops'[home'[p][1]], p, home'[p][2])
    PROVE  CachedHasHome'
  BY DEF CachedHasHome, Home, Keeps, NoRemove, Sender, LoopId

LEMMA ReplyNext ==
    ASSUME main'.pc = "reply" => \A p \in main'.ok :
                /\ main'.from \in Sender /\ main'.from[1] \in DOMAIN loops'
                /\ loops'[main'.from[1]].ioc = main'.at
                /\ Keeps(loops'[main'.from[1]], p, main'.from[2])
    PROVE  ReplyHasHome'
  BY DEF ReplyHasHome, Home, Keeps, NoRemove, Sender, LoopId

LEMMA TasksNext ==
    ASSUME \A k \in DOMAIN loops' : QueueShut(loops'[k]) /\ Asked(loops'[k], ops')
    PROVE  QueuesShut' /\ BatchesInOrder'
  BY DEF QueuesShut, QueueShut, BatchesInOrder, Asked

(* The sessions a home names are numbered.                                 *)
LEMMA SenderType ==
    ASSUME NEW h \in Sender
    PROVE  h[1] \in LoopId /\ h[2] \in 1 .. MaxSessions /\ h[2] \in Nat
           /\ h = << h[1], h[2] >>
  BY DriverAssumption DEF Sender

(* The call r + 1 begins: no queue holds a batch of it.                    *)
LEMMA NextCall ==
    ASSUME NEW l \in EventLoop, NEW r \in Nat, Asked(l, r)
    PROVE  Asked(l, r + 1)
  <1>1. ASSUME NEW n \in DOMAIN l.cmds, l.cmds[n].op = "add"
        PROVE  l.cmds[n].req <= r + 1 /\ l.cmds[n].req # r + 1
    <2>1. l.cmds[n] \in SessionCommand
      BY DEF EventLoop
    <2>2. l.cmds[n].req \in Nat
      BY <1>1, <2>1 DEF SessionCommand
    <2>3. l.cmds[n].req <= r
      BY <1>1 DEF Asked
    <2> QED BY <2>2, <2>3
  <1> QED BY <1>1 DEF Asked

(* A command c at the end of the queue of l.                               *)
Sent(l, c) == [l EXCEPT !.cmds = Append(@, c)]

LEMMA SentFields ==
    ASSUME NEW l \in EventLoop, NEW c \in SessionCommand
    PROVE  /\ Sent(l, c) \in EventLoop
           /\ Sent(l, c).ioc = l.ioc /\ Sent(l, c).pc = l.pc
           /\ Sent(l, c).sess = l.sess /\ Sent(l, c).mons = l.mons
           /\ Sent(l, c).restored = l.restored
           /\ Sent(l, c).cmds = Append(l.cmds, c)
           /\ l.cmds \in Seq(SessionCommand)
  <1> DEFINE q == Append(l.cmds, c)
  <1>1. q \in Seq(SessionCommand) /\ l.cmds \in Seq(SessionCommand)
    BY DEF EventLoop
  <1>2. Sent(l, c) = [l EXCEPT !.cmds = q]
    BY DEF Sent
  <1> HIDE DEF q
  <1>3. /\ [l EXCEPT !.cmds = q] \in EventLoop
        /\ [l EXCEPT !.cmds = q].cmds = q
    BY <1>1 DEF EventLoop
  <1>4. /\ [l EXCEPT !.cmds = q].ioc = l.ioc
        /\ [l EXCEPT !.cmds = q].pc = l.pc
        /\ [l EXCEPT !.cmds = q].sess = l.sess
        /\ [l EXCEPT !.cmds = q].mons = l.mons
        /\ [l EXCEPT !.cmds = q].restored = l.restored
    BY DEF EventLoop
  <1> QED BY <1>1, <1>2, <1>3, <1>4 DEF q

(* Sending a command to a session that runs: a batch of the call r, a      *)
(* shutdown, or a remove with which the call r begins.                     *)
LEMMA SentCommand ==
    ASSUME NEW l \in EventLoop, NEW c \in SessionCommand, NEW r \in Nat,
           l.pc = "run", Asked(l, r)
    PROVE  /\ QueueShut(Sent(l, c))
           /\ c.op = "add" /\ c.req = r => Asked(Sent(l, c), r)
           /\ c.op = "shutdown" => Asked(Sent(l, c), r)
           /\ c.op = "remove" => Asked(Sent(l, c), r + 1)
           /\ \A p \in PVs, s \in Nat :
                  Keeps(l, p, s) /\ (c.op = "remove" => c.pv # p)
                        => Keeps(Sent(l, c), p, s)
  <1> DEFINE e == Sent(l, c)
  <1>1. /\ e \in EventLoop /\ e.pc = l.pc /\ e.sess = l.sess /\ e.mons = l.mons
        /\ e.restored = l.restored /\ e.cmds = Append(l.cmds, c)
        /\ l.cmds \in Seq(SessionCommand)
    BY SentFields
  <1> HIDE DEF e
  <1>2. /\ DOMAIN e.cmds = 1 .. Len(l.cmds) + 1 /\ Len(l.cmds) \in Nat
        /\ e.cmds[Len(l.cmds) + 1] = c
        /\ DOMAIN l.cmds = 1 .. Len(l.cmds)
        /\ \A n \in 1 .. Len(l.cmds) : e.cmds[n] = l.cmds[n]
    BY <1>1
  <1>3. QueueShut(e)
    BY <1>1 DEF QueueShut
  <1>4. ASSUME c.op # "remove", c.op = "add" => c.req = r PROVE Asked(e, r)
    <2> SUFFICES ASSUME NEW n \in DOMAIN e.cmds, e.cmds[n].op = "add"
                 PROVE  /\ e.cmds[n].req <= r
                        /\ e.cmds[n].req = r => \A m \in DOMAIN e.cmds :
                                    m > n => e.cmds[m].op # "remove"
      BY DEF Asked
    <2>1. CASE n \in 1 .. Len(l.cmds)
      <3>1. /\ l.cmds[n].req <= r
            /\ l.cmds[n].req = r => \A m \in DOMAIN l.cmds :
                                        m > n => l.cmds[m].op # "remove"
        BY <1>2, <2>1 DEF Asked
      <3>2. ASSUME NEW m \in DOMAIN e.cmds, m > n, e.cmds[n].req = r
            PROVE  e.cmds[m].op # "remove"
        BY <1>2, <1>4, <2>1, <3>1, <3>2
      <3> QED BY <1>2, <2>1, <3>1, <3>2
    <2>2. CASE n = Len(l.cmds) + 1
      BY <1>2, <1>4, <2>2
    <2> QED BY <1>2, <2>1, <2>2
  <1>5. ASSUME c.op = "remove" PROVE Asked(e, r + 1)
    <2>1. ASSUME NEW n \in DOMAIN e.cmds, e.cmds[n].op = "add"
          PROVE  e.cmds[n].req <= r + 1 /\ e.cmds[n].req # r + 1
      <3>1. n \in 1 .. Len(l.cmds) /\ e.cmds[n] = l.cmds[n]
        BY <1>2, <1>5, <2>1
      <3>2. l.cmds[n] \in SessionCommand
        BY <1>1, <3>1
      <3>3. l.cmds[n].req \in Nat
        BY <2>1, <3>1, <3>2 DEF SessionCommand
      <3>4. l.cmds[n].req <= r
        BY <1>2, <2>1, <3>1 DEF Asked
      <3> QED BY <3>1, <3>3, <3>4
    <2> QED BY <2>1 DEF Asked
  <1>6. ASSUME NEW p \in PVs, NEW s \in Nat, Keeps(l, p, s),
               c.op = "remove" => c.pv # p
        PROVE  Keeps(e, p, s)
    <2>1. NoRemove(l, p) => NoRemove(e, p)
      BY <1>2, <1>6 DEF NoRemove
    <2> QED BY <1>1, <1>6, <2>1 DEF Keeps
  <1> QED BY <1>3, <1>4, <1>5, <1>6 DEF e

-----------------------------------------------------------------------------
LEMMA HomeParts ==
    ASSUME HomeInv
    PROVE  QueuesShut /\ BatchesInOrder /\ ReplyHasHome /\ CachedHasHome
  BY DEF HomeInv

LEMMA HomeNext ==
    ASSUME QueuesShut', BatchesInOrder', ReplyHasHome', CachedHasHome'
    PROVE  HomeInv'
  BY DEF HomeInv

(* The cached PVs keep their homes through a step that leaves the cache    *)
(* alone and in which every task hands on what it has.                     *)
LEMMA CachedKept ==
    ASSUME DriverInv, HomeInv, KeepsTasks,
           UNCHANGED << pv_server_cache, home >>,
           \A k \in DOMAIN loops, p \in PVs, s \in Nat :
                Keeps(loops[k], p, s) => Keeps(loops'[k], p, s)
    PROVE  CachedHasHome'
  <1>1. ASSUME NEW p \in PVs, pv_server_cache'[p] # None
        PROVE  /\ home'[p] \in Sender /\ home'[p][1] \in DOMAIN loops'
               /\ loops'[home'[p][1]].ioc = pv_server_cache'[p]
               /\ Keeps(loops'[home'[p][1]], p, home'[p][2])
    <2>1. Home(pv_server_cache[p], p, home[p])
      BY <1>1, HomeParts DEF CachedHasHome
    <2>2. home[p][1] \in DOMAIN loops /\ home[p][2] \in Nat
      BY <2>1, SenderType DEF Home
    <2> QED BY <2>1, <2>2, HomeFrame
  <1> QED BY <1>1, CachedNext

LEMMA HomeKept ==
    ASSUME DriverInv, HomeInv, KeepsTasks, DOMAIN loops' = DOMAIN loops,
           \A k \in DOMAIN loops : Carries(loops[k], loops'[k]),
           UNCHANGED << pv_server_cache, home, ops >>,
           ReplyHasHome'
    PROVE  HomeInv'
  <1>1. ops \in Nat
    BY InvParts, DriverAssumption
  <1>2. ASSUME NEW k \in DOMAIN loops
        PROVE  QueueShut(loops'[k]) /\ Asked(loops'[k], ops)
    BY <1>1, HomeParts DEF Carries, QueuesShut, BatchesInOrder
  <1>3. QueuesShut' /\ BatchesInOrder'
    BY <1>2, TasksNext
  <1>4. CachedHasHome'
    BY CachedKept, HomeParts DEF Carries, QueuesShut
  <1> QED BY <1>3, <1>4, HomeNext

(* Steps of the main loop that touch no task.                              *)
LEMMA HomeQuiet ==
    ASSUME DriverInv, HomeInv,
           UNCHANGED << pv_server_cache, home, ops, loops >>,
           main' = main \/ main'.pc # "reply"
    PROVE  HomeInv'
  <1>1. KeepsTasks /\ \A k \in DOMAIN loops : Carries(loops[k], loops'[k])
    BY CarriesSelf DEF KeepsTasks
  <1>2. ReplyHasHome'
    <2>1. CASE main' = main
      BY <2>1, HomeParts, ReplyNext DEF ReplyHasHome, Home
    <2>2. CASE main'.pc # "reply"
      BY <2>2, ReplyNext
    <2> QED BY <2>1, <2>2
  <1> QED BY <1>1, <1>2, HomeKept

(* A step of a task.                                                       *)
LEMMA LoopHome ==
    ASSUME DriverInv, HomeInv, NEW k \in DOMAIN loops, LoopStep(k)
    PROVE  HomeInv'
  <1>1. /\ KeepsTasks /\ DOMAIN loops' = DOMAIN loops
        /\ \A j \in DOMAIN loops : j # k => loops'[j] = loops[j]
    BY InvParts, LoopEffect
  <1>2. \A j \in DOMAIN loops : Carries(loops[j], loops'[j])
    BY <1>1, InvParts, LoopCarries, CarriesSelf
  <1>3. UNCHANGED << pv_server_cache, home, ops >>
    <2>1. CASE LoopAnnounce(k)
      BY <2>1 DEF LoopAnnounce, tables
    <2>2. CASE ~LoopAnnounce(k)
      <3>1. UNCHANGED << tables, reconnect_rx, ops >>
        BY <2>2, LoopOutside
      <3> QED BY <3>1 DEF tables
    <2> QED BY <2>1, <2>2
  <1>4. ASSUME main' = main PROVE ReplyHasHome'
    <2>1. ASSUME main.pc = "reply", NEW p \in main.ok
          PROVE  /\ main.from \in Sender /\ main.from[1] \in DOMAIN loops'
                 /\ loops'[main.from[1]].ioc = main.at
                 /\ Keeps(loops'[main.from[1]], p, main.from[2])
      <3>1. Home(main.at, p, main.from) /\ p \in PVs
        BY <2>1, HomeParts, InvParts, CallFields DEF ReplyHasHome
      <3>2. main.from[1] \in DOMAIN loops /\ main.from[2] \in Nat
        BY <3>1, SenderType DEF Home
      <3>3. Keeps(loops[main.from[1]], p, main.from[2])
                => Keeps(loops'[main.from[1]], p, main.from[2])
        BY <1>2, <3>1, <3>2, HomeParts DEF Carries, QueuesShut
      <3> QED BY <1>1, <3>1, <3>3, HomeFrame
    <2> QED BY <1>4, <2>1, ReplyNext
  <1>5. ASSUME LoopAdd(k), main' # main PROVE ReplyHasHome'
    <2> DEFINE l == loops[k]
               cmd == Head(l.cmds)
    <2>1. PICK b \in Bulk(l.ioc, cmd.pvs) :
            /\ loops' = [loops EXCEPT ![k] = [Adopt(l, cmd.pvs, b) EXCEPT
                                                !.cmds = Tail(@)]]
            /\ main' = IF main.pc = "wait" /\ main.at = l.ioc /\ cmd.req = ops
                       THEN [main EXCEPT !.pc = "reply", !.ok = b.ok,
                                         !.from = << k, l.sess >>]
                       ELSE main
      BY <1>5 DEF LoopAdd
    <2>2. /\ main.at = l.ioc /\ cmd.req = ops
          /\ main' = [main EXCEPT !.pc = "reply", !.ok = b.ok,
                                  !.from = << k, l.sess >>]
      BY <1>5, <2>1
    <2>3. main'.ok = b.ok /\ main'.at = l.ioc /\ main'.from = << k, l.sess >>
      BY <2>2, InvParts DEF Call
    <2>4. l.pc = "run" /\ l.cmds # << >> /\ cmd.op = "add"
      BY <1>5 DEF LoopAdd
    <2>5. /\ l \in EventLoop /\ l.cmds \in Seq(SessionCommand) /\ l.ioc \in IOCs
          /\ l.mons \in [PVs -> Nat] /\ loops \in Seq(EventLoop)
          /\ l.sess \in Nat /\ << k, l.sess >> \in Sender
      BY InvParts, LoopType DEF EventLoop, TypeOK, Sender
    <2>6. cmd \in SessionCommand /\ Tail(l.cmds) \in Seq(SessionCommand)
      BY <2>4, <2>5, QueueType
    <2>7. cmd.pvs \in SUBSET PVs
      BY <2>4, <2>6 DEF SessionCommand
    <2> DEFINE a == Adopt(l, cmd.pvs, b)
               e == [a EXCEPT !.cmds = Tail(l.cmds)]
    <2>8. /\ a \in EventLoop /\ a.ioc = l.ioc /\ a.sess = l.sess
          /\ a.cmds = l.cmds /\ b.ok \subseteq PVs
      BY <2>5, <2>7, AdoptType
    <2>9. \A p \in b.ok : a.mons[p] > 0
      BY <2>5, <2>8, AdoptMons
    <2> HIDE DEF a
    <2>10. /\ e.ioc = l.ioc /\ e.sess = l.sess
           /\ e.cmds = Tail(l.cmds) /\ e.mons = a.mons
      BY <2>8 DEF EventLoop
    <2>11. loops'[k] = e
      BY <2>1, <2>5, <2>8 DEF a
    <2>13. \A n \in DOMAIN e.cmds : e.cmds[n].op # "remove"
      <3> SUFFICES ASSUME NEW n \in DOMAIN e.cmds PROVE e.cmds[n].op # "remove"
        OBVIOUS
      <3>1. /\ n + 1 \in DOMAIN l.cmds /\ e.cmds[n] = l.cmds[n + 1] /\ n + 1 > 1
            /\ 1 \in DOMAIN l.cmds /\ l.cmds[1] = cmd
        BY <2>4, <2>5, <2>10
      <3>2. Asked(l, ops)
        BY HomeParts DEF BatchesInOrder
      <3> QED BY <2>2, <2>4, <3>1, <3>2 DEF Asked
    <2> HIDE DEF e
    <2>14. \A p \in b.ok : Keeps(e, p, l.sess)
      BY <2>5, <2>9, <2>10, <2>13 DEF Keeps, NoRemove
    <2>15. \A p \in main'.ok :
              /\ main'.from \in Sender /\ main'.from[1] \in DOMAIN loops'
              /\ loops'[main'.from[1]].ioc = main'.at
              /\ Keeps(loops'[main'.from[1]], p, main'.from[2])
      BY <1>1, <2>3, <2>5, <2>10, <2>11, <2>14
    <2> QED BY <2>15, ReplyNext
  <1>6. main' = main \/ LoopAdd(k)
    BY DEF LoopStep, LoopRemove, LoopCancelled, LoopWake, LoopRetry, LoopReconnect,
           LoopAnnounce, LoopShutdown, LoopDisconnect, EndSession
  <1>7. ReplyHasHome'
    BY <1>4, <1>5, <1>6
  <1> QED BY <1>1, <1>2, <1>3, <1>7, HomeKept

(* The steps of the main loop.                                             *)
LEMMA MonitorBatchHome ==
    ASSUME DriverInv, HomeInv, NEW names \in SUBSET PVs, MonitorBatch(names)
    PROVE  HomeInv'
  <1>1. /\ UNCHANGED << pv_server_cache, home, loops >>
        /\ ops' = ops + 1 /\ ops \in Nat
    BY InvParts, DriverAssumption DEF MonitorBatch
  <1>2. main'.pc = "add"
    BY IdleType DEF MonitorBatch, Call
  <1>3. QueuesShut' /\ BatchesInOrder'
    <2>1. ASSUME NEW k \in DOMAIN loops
          PROVE  QueueShut(loops[k]) /\ Asked(loops[k], ops + 1)
      <3>1. loops[k] \in EventLoop
        BY InvParts, LoopType
      <3> QED BY <1>1, <3>1, NextCall, HomeParts DEF QueuesShut, BatchesInOrder
    <2> QED BY <1>1, <2>1, TasksNext
  <1>4. ReplyHasHome'
    BY <1>2, ReplyNext
  <1>5. CachedHasHome'
    BY <1>1, CachedKept DEF KeepsTasks
  <1> QED BY <1>3, <1>4, <1>5, HomeNext

(* Sending on a channel: the open receiver gets the command.               *)
LEMMA DeliverRecord ==
    ASSUME TypeOK, NEW tx \in Sender, tx[1] \in DOMAIN loops,
           NEW cmd \in SessionCommand, loops' = Deliver(loops, tx, cmd)
    PROVE  \A k \in DOMAIN loops :
              \/ loops'[k] = loops[k]
              \/ loops[k].pc = "run" /\ loops'[k] = Sent(loops[k], cmd)
  <1>1. loops \in Seq(EventLoop)
    BY DEF TypeOK
  <1>2. CASE Open(tx)
    <2> DEFINE e == Sent(loops[tx[1]], cmd)
    <2>1. loops' = [loops EXCEPT ![tx[1]] = e]
      BY <1>2 DEF Deliver, Sent
    <2> HIDE DEF e
    <2> QED BY <1>1, <1>2, <2>1 DEF e, Open
  <1>3. CASE ~Open(tx)
    BY <1>3 DEF Deliver
  <1> QED BY <1>2, <1>3

LEMMA SendAddBatchHome ==
    ASSUME DriverInv, HomeInv, NEW i \in IOCs, SendAddBatch(i)
    PROVE  HomeInv'
  <1> DEFINE tx == session_commands[i]
             cmd == [op |-> "add", pvs |-> FoundAt(i), req |-> ops]
  <1>1. /\ main.pc = "add" /\ i \in main.existing /\ CanSend(tx)
        /\ loops' = Deliver(loops, tx, cmd)
        /\ UNCHANGED << tables, reconnect_rx, lifecycle_rx, ops >>
    BY DEF SendAddBatch
  <1>2. tx # None /\ tx \in Sender /\ tx[1] \in DOMAIN loops
    BY <1>1, InvParts DEF CallRoutes, Routable, TablesOK
  <1>3. cmd \in SessionCommand /\ cmd.op = "add" /\ cmd.req = ops /\ ops \in Nat
    <2>1. FoundAt(i) \in SUBSET PVs /\ ops \in Nat
      BY InvParts, DriverAssumption DEF FoundAt
    <2> HIDE DEF FoundAt
    <2> QED BY <2>1 DEF SessionCommand
  <1>4. main'.pc \in {"add", "wait"}
    <2>1. main' = [main EXCEPT
                        !.existing = @ \ {i},
                        !.fresh = IF Open(tx) THEN @ ELSE @ \cup {i},
                        !.pc = IF Open(tx) THEN "wait" ELSE @,
                        !.at = IF Open(tx) THEN i ELSE @]
      BY DEF SendAddBatch
    <2>2. main \in Call
      BY InvParts
    <2> HIDE DEF tx
    <2> QED BY <1>1, <2>1, <2>2 DEF Call
  <1> HIDE DEF tx, cmd
  <1>5. DOMAIN loops' = DOMAIN loops /\ KeepsTasks
    BY <1>1, <1>2, <1>3, InvParts, DeliverEffect
  <1>6. \A k \in DOMAIN loops :
            \/ loops'[k] = loops[k]
            \/ loops[k].pc = "run" /\ loops'[k] = Sent(loops[k], cmd)
    BY <1>1, <1>2, <1>3, InvParts, DeliverRecord
  <1>7. ASSUME NEW k \in DOMAIN loops
        PROVE  /\ QueueShut(loops'[k]) /\ Asked(loops'[k], ops)
               /\ \A p \in PVs, s \in Nat :
                      Keeps(loops[k], p, s) => Keeps(loops'[k], p, s)
    <2>1. QueueShut(loops[k]) /\ Asked(loops[k], ops) /\ loops[k] \in EventLoop
      BY HomeParts, InvParts, LoopType DEF QueuesShut, BatchesInOrder
    <2>2. CASE loops'[k] = loops[k]
      BY <2>1, <2>2
    <2>3. CASE loops[k].pc = "run" /\ loops'[k] = Sent(loops[k], cmd)
      BY <1>3, <2>1, <2>3, SentCommand
    <2> QED BY <1>6, <2>2, <2>3
  <1>8. UNCHANGED << pv_server_cache, home, ops >>
    BY <1>1 DEF tables
  <1>9. QueuesShut' /\ BatchesInOrder'
    BY <1>5, <1>7, <1>8, TasksNext
  <1>10. ReplyHasHome'
    BY <1>4, ReplyNext
  <1>11. CachedHasHome'
    BY <1>5, <1>7, <1>8, CachedKept
  <1> QED BY <1>9, <1>10, <1>11, HomeNext

LEMMA BatchReplyHome ==
    ASSUME DriverInv, HomeInv, BatchReply
    PROVE  HomeInv'
  <1>1. /\ main.pc = "reply"
        /\ pv_server_cache' = Cached(pv_server_cache, main.ok, main.at)
        /\ home' = Cached(home, main.ok, main.from)
        /\ UNCHANGED << loops, ops >>
        /\ main' = [main EXCEPT !.pc = "add", !.at = None, !.ok = {},
                                !.all_ok = @ \cup main.ok, !.from = None]
    BY DEF BatchReply
  <1>2. main'.pc = "add"
    BY <1>1, InvParts DEF Call
  <1>3. QueuesShut' /\ BatchesInOrder'
    BY <1>1, HomeParts, TasksNext DEF QueuesShut, BatchesInOrder
  <1>4. ReplyHasHome'
    BY <1>2, ReplyNext
  <1>5. CachedHasHome'
    <2>1. ASSUME NEW p \in PVs, pv_server_cache'[p] # None
          PROVE  Home(pv_server_cache'[p], p, home'[p])
      <3>1. CASE p \in main.ok
        BY <1>1, <3>1, HomeParts DEF Cached, ReplyHasHome
      <3>2. CASE p \notin main.ok
        BY <1>1, <2>1, <3>2, HomeParts DEF Cached, CachedHasHome
      <3> QED BY <3>1, <3>2
    <2> QED BY <1>1, <2>1, CachedNext DEF Home
  <1> QED BY <1>3, <1>4, <1>5, HomeNext

LEMMA UnsubscribeHome ==
    ASSUME DriverInv, HomeInv, NEW q \in PVs, Unsubscribe(q)
    PROVE  HomeInv'
  <1> DEFINE i == pv_server_cache[q]
             tx == session_commands[i]
             cmd == [op |-> "remove", pv |-> q]
  <1>1. /\ main.pc = "idle" /\ i # None /\ ops' = ops + 1 /\ ops \in Nat
        /\ pv_server_cache' = [pv_server_cache EXCEPT ![q] = None]
        /\ home' = [home EXCEPT ![q] = None] /\ UNCHANGED main
    BY InvParts, DriverAssumption DEF Unsubscribe
  <1>2. i \in IOCs
    BY <1>1, InvParts DEF TablesOK
  <1>3. tx # None /\ tx \in Sender /\ tx[1] \in DOMAIN loops
    BY <1>1, <1>2, InvParts DEF Routable, TablesOK
  <1>4. CanSend(tx) /\ loops' = Deliver(loops, tx, cmd)
    BY <1>3 DEF Unsubscribe
  <1>5. cmd \in SessionCommand /\ cmd.op = "remove" /\ cmd.pv = q
    BY DEF SessionCommand
  <1> HIDE DEF tx, cmd
  <1>6. DOMAIN loops' = DOMAIN loops /\ KeepsTasks
    BY <1>3, <1>4, <1>5, InvParts, DeliverEffect
  <1>7. \A k \in DOMAIN loops :
            \/ loops'[k] = loops[k]
            \/ loops[k].pc = "run" /\ loops'[k] = Sent(loops[k], cmd)
    BY <1>3, <1>4, <1>5, InvParts, DeliverRecord
  <1>8. ASSUME NEW k \in DOMAIN loops
        PROVE  /\ QueueShut(loops'[k]) /\ Asked(loops'[k], ops + 1)
               /\ \A p \in PVs, s \in Nat :
                      p # q /\ Keeps(loops[k], p, s) => Keeps(loops'[k], p, s)
    <2>1. QueueShut(loops[k]) /\ Asked(loops[k], ops) /\ loops[k] \in EventLoop
      BY HomeParts, InvParts, LoopType DEF QueuesShut, BatchesInOrder
    <2>2. CASE loops'[k] = loops[k]
      BY <1>1, <2>1, <2>2, NextCall
    <2>3. CASE loops[k].pc = "run" /\ loops'[k] = Sent(loops[k], cmd)
      BY <1>1, <1>5, <2>1, <2>3, SentCommand
    <2> QED BY <1>7, <2>2, <2>3
  <1>9. QueuesShut' /\ BatchesInOrder'
    BY <1>1, <1>6, <1>8, TasksNext
  <1>10. ReplyHasHome'
    BY <1>1, ReplyNext
  <1>11. CachedHasHome'
    <2>1. ASSUME NEW p \in PVs, pv_server_cache'[p] # None
          PROVE  /\ home'[p] \in Sender /\ home'[p][1] \in DOMAIN loops'
                 /\ loops'[home'[p][1]].ioc = pv_server_cache'[p]
                 /\ Keeps(loops'[home'[p][1]], p, home'[p][2])
      <3>1. /\ p # q /\ pv_server_cache'[p] = pv_server_cache[p]
            /\ home'[p] = home[p]
        BY <1>1, <2>1, InvParts DEF TablesOK
      <3>2. Home(pv_server_cache[p], p, home[p])
        BY <2>1, <3>1, HomeParts DEF CachedHasHome
      <3>3. home[p][1] \in DOMAIN loops /\ home[p][2] \in Nat
        BY <3>2, SenderType DEF Home
      <3> QED BY <1>6, <1>8, <3>1, <3>2, <3>3, HomeFrame
    <2> QED BY <2>1, CachedNext
  <1> QED BY <1>9, <1>10, <1>11, HomeNext

(* The record of a task that is spawned.                                   *)
LEMMA SpawnRecord ==
    ASSUME TypeOK, NEW i \in IOCs, NEW pvs \in SUBSET PVs,
           NEW b \in Bulk(i, pvs), Spawn(i, pvs, pvs, b)
    PROVE  LET e == loops'[Len(loops) + 1]
           IN  /\ \A k \in DOMAIN loops : loops'[k] = loops[k]
               /\ QueueShut(e) /\ \A r \in Nat : Asked(e, r)
               /\ \A p \in b.ok : Keeps(e, p, 1)
  <1> DEFINE new == [ioc |-> i, reconnect_pvs |-> pvs, token |-> "live",
                     pc |-> "run", sess |-> 1, cmds |-> << >>,
                     mons |-> [p \in PVs |-> 0], live |-> {}, dead |-> {},
                     restored |-> {}]
             e == Adopt(new, pvs, b)
  <1>1. loops' = Append(loops, e)
    BY DEF Spawn
  <1>2. new \in EventLoop /\ new.cmds = << >> /\ new.pc = "run" /\ new.sess = 1
    <2> DEFINE m == [p \in PVs |-> 0]
               q == << >>
    <2>1. m \in [PVs -> Nat] /\ q \in Seq(SessionCommand)
          /\ 1 \in 1 .. MaxSessions
      BY DriverAssumption
    <2> HIDE DEF m
    <2> QED BY <2>1 DEF EventLoop, LoopPc, m
  <1> HIDE DEF new
  <1>3. /\ e \in EventLoop /\ e.cmds = << >> /\ e.pc = "run" /\ e.sess = 1
        /\ b.ok \subseteq pvs
    BY <1>2, AdoptType
  <1>4. \A p \in b.ok : e.mons[p] > 0
    BY <1>2, <1>3, AdoptMons
  <1> HIDE DEF e
  <1>5. loops \in Seq(EventLoop)
    BY DEF TypeOK
  <1>6. loops'[Len(loops) + 1] = e /\ \A k \in DOMAIN loops : loops'[k] = loops[k]
    BY <1>1, <1>3, <1>5
  <1>7. QueueShut(e) /\ \A r \in Nat : Asked(e, r)
    BY <1>3 DEF QueueShut, Asked
  <1>8. \A p \in b.ok : Keeps(e, p, 1)
    BY <1>3, <1>4 DEF Keeps, NoRemove
  <1> QED BY <1>6, <1>7, <1>8

(* A fresh session whose accepted PVs go into the cache.                   *)
LEMMA SpawnHome ==
    ASSUME DriverInv, HomeInv, NEW i \in IOCs, NEW pvs \in SUBSET PVs,
           NEW b \in Bulk(i, pvs), Spawn(i, pvs, pvs, b),
           pv_server_cache' = Cached(pv_server_cache, b.ok, i),
           UNCHANGED ops, main'.pc # "reply"
    PROVE  HomeInv'
  <1> DEFINE id == Len(loops) + 1
  <1>1. /\ KeepsTasks /\ Len(loops) \in Nat /\ id \in LoopId
        /\ DOMAIN loops = 1 .. Len(loops) /\ DOMAIN loops' = 1 .. id
        /\ loops'[id].ioc = i /\ << id, 1 >> \in Sender
    BY InvParts, SpawnEffect
  <1>2. /\ \A k \in DOMAIN loops : loops'[k] = loops[k]
        /\ QueueShut(loops'[id]) /\ \A r \in Nat : Asked(loops'[id], r)
        /\ \A p \in b.ok : Keeps(loops'[id], p, 1)
    BY InvParts, SpawnRecord
  <1>3. home' = Cached(home, b.ok, << id, 1 >>)
    BY DEF Spawn
  <1>4. ops \in Nat
    BY InvParts, DriverAssumption
  <1>5. \A k \in DOMAIN loops' : k \in DOMAIN loops \/ k = id
    BY <1>1
  <1>6. id \in DOMAIN loops'
    BY <1>1
  <1> HIDE DEF id
  <1>7. QueuesShut' /\ BatchesInOrder'
    <2>1. ASSUME NEW k \in DOMAIN loops'
          PROVE  QueueShut(loops'[k]) /\ Asked(loops'[k], ops')
      BY <1>2, <1>4, <1>5, HomeParts DEF QueuesShut, BatchesInOrder
    <2> QED BY <2>1, TasksNext
  <1>8. ReplyHasHome'
    BY ReplyNext
  <1>9. CachedHasHome'
    <2>1. ASSUME NEW p \in PVs, pv_server_cache'[p] # None
          PROVE  /\ home'[p] \in Sender /\ home'[p][1] \in DOMAIN loops'
                 /\ loops'[home'[p][1]].ioc = pv_server_cache'[p]
                 /\ Keeps(loops'[home'[p][1]], p, home'[p][2])
      <3>1. CASE p \in b.ok
        <4>1. pv_server_cache'[p] = i /\ home'[p] = << id, 1 >>
          BY <1>3, <3>1 DEF Cached
        <4> QED BY <1>1, <1>2, <1>6, <3>1, <4>1
      <3>2. CASE p \notin b.ok
        <4>1. pv_server_cache'[p] = pv_server_cache[p] /\ home'[p] = home[p]
          BY <1>3, <3>2 DEF Cached
        <4>2. Home(pv_server_cache[p], p, home[p])
          BY <2>1, <4>1, HomeParts DEF CachedHasHome
        <4>3. loops'[home[p][1]] = loops[home[p][1]]
          BY <1>2, <4>2 DEF Home
        <4> QED BY <1>1, <4>1, <4>2, <4>3, HomeFrame
      <3> QED BY <3>1, <3>2
    <2> QED BY <2>1, CachedNext
  <1> QED BY <1>7, <1>8, <1>9, HomeNext

LEMMA FreshSessionHome ==
    ASSUME DriverInv, HomeInv, NEW i \in IOCs, FreshSession(i)
    PROVE  HomeInv'
  <1>1. FoundAt(i) \in SUBSET PVs
    BY DEF FoundAt
  <1>2. PICK b \in Bulk(i, FoundAt(i)) :
          IF b.ok = {}
          THEN /\ main' = [main EXCEPT !.fresh = @ \ {i}]
               /\ UNCHANGED << pv_server_cache, home, loops >>
          ELSE /\ pv_server_cache' = Cached(pv_server_cache, b.ok, i)
               /\ Spawn(i, FoundAt(i), FoundAt(i), b)
               /\ main' = [main EXCEPT !.fresh = @ \ {i},
                                       !.all_ok = @ \cup b.ok]
    BY DEF FreshSession
  <1>3. main.pc = "add" /\ UNCHANGED ops
    BY DEF FreshSession
  <1>4. main'.pc = "add"
    BY <1>2, <1>3, InvParts DEF Call
  <1>5. CASE b.ok = {}
    BY <1>2, <1>3, <1>4, <1>5, HomeQuiet
  <1>6. CASE b.ok # {}
    <2>1. pv_server_cache' = Cached(pv_server_cache, b.ok, i)
          /\ Spawn(i, FoundAt(i), FoundAt(i), b)
      BY <1>2, <1>6
    <2> QED BY <1>1, <1>3, <1>4, <2>1, SpawnHome
  <1> QED BY <1>5, <1>6

LEMMA HotAddIocHome ==
    ASSUME DriverInv, HomeInv, NEW i \in IOCs, NEW configured \in SUBSET PVs,
           HotAddIoc(i, configured)
    PROVE  HomeInv'
  <1> DEFINE search == failed_pvs \cup
                         { p \in configured : pv_server_cache[p] = None }
  <1>1. PICK found \in SUBSET (search \cap Serves[i]) : \E b \in Bulk(i, found) :
            IF b.ok = {}
            THEN UNCHANGED << pv_server_cache, home, loops >>
            ELSE /\ pv_server_cache' = Cached(pv_server_cache, b.ok, i)
                 /\ Spawn(i, found, found, b)
    BY DEF HotAddIoc
  <1>2. PICK b \in Bulk(i, found) :
            IF b.ok = {}
            THEN UNCHANGED << pv_server_cache, home, loops >>
            ELSE /\ pv_server_cache' = Cached(pv_server_cache, b.ok, i)
                 /\ Spawn(i, found, found, b)
    BY <1>1
  <1>3. found \in SUBSET PVs
    BY InvParts DEF TablesOK
  <1>4. main.pc = "hotadd" /\ UNCHANGED ops
    BY DEF HotAddIoc
  <1>5. main'.pc \in {"idle", "hotadd"}
    <2>1. main' = Idle \/ main' = [main EXCEPT !.fresh = @ \ {i}]
      BY DEF HotAddIoc
    <2> QED BY <1>4, <2>1, IdleType, InvParts DEF Call
  <1>6. CASE b.ok = {}
    BY <1>2, <1>4, <1>5, <1>6, HomeQuiet
  <1>7. CASE b.ok # {}
    <2>1. pv_server_cache' = Cached(pv_server_cache, b.ok, i)
          /\ Spawn(i, found, found, b)
      BY <1>2, <1>7
    <2> QED BY <1>3, <1>4, <1>5, <2>1, SpawnHome
  <1> QED BY <1>6, <1>7

(* Cancelling a token leaves what a task keeps and what it was asked.      *)
LEMMA CancelledRecord ==
    ASSUME TypeOK, NEW ids, loops' = Cancelled(loops, ids), NEW k \in DOMAIN loops
    PROVE  /\ QueueShut(loops[k]) => QueueShut(loops'[k])
           /\ \A r : Asked(loops[k], r) => Asked(loops'[k], r)
           /\ \A p, s : Keeps(loops[k], p, s) => Keeps(loops'[k], p, s)
  <1> DEFINE l == loops[k]
             e == [l EXCEPT !.token = "cancelled"]
  <1>1. l \in EventLoop
    BY LoopType
  <1>2. /\ e.cmds = l.cmds /\ e.pc = l.pc /\ e.sess = l.sess /\ e.mons = l.mons
        /\ e.restored = l.restored
    BY <1>1 DEF EventLoop
  <1>3. loops'[k] = l \/ loops'[k] = e
    BY DEF Cancelled
  <1> HIDE DEF l, e
  <1>4. /\ QueueShut(l) => QueueShut(e)
        /\ \A r : Asked(l, r) => Asked(e, r)
        /\ \A p, s : Keeps(l, p, s) => Keeps(e, p, s)
    BY <1>2 DEF QueueShut, Asked, Keeps, NoRemove
  <1> QED BY <1>3, <1>4 DEF l

LEMMA IocChangeHome ==
    ASSUME DriverInv, HomeInv, NEW addrs \in SUBSET IOCs, IocChange(addrs)
    PROVE  HomeInv'
  <1> DEFINE gone == name_servers \ addrs
             ids == { cancel_tokens[i] : i \in gone } \ {None}
  <1>1. /\ main.pc = "idle" /\ ops' = ops + 1 /\ ops \in Nat
        /\ RemoveSessions(gone)
        /\ main' = IF addrs \ name_servers = {} THEN Idle
                   ELSE [Idle EXCEPT !.pc = "hotadd",
                                     !.fresh = addrs \ name_servers]
    BY InvParts, DriverAssumption DEF IocChange
  <1>2. main'.pc \in {"idle", "hotadd"}
    BY <1>1, IdleType DEF Call
  <1> HIDE DEF gone
  <1>3. /\ loops' = Cancelled(loops, ids)
        /\ pv_server_cache' = [p \in PVs |-> IF pv_server_cache[p] \in gone
                                             THEN None ELSE pv_server_cache[p]]
        /\ home' = [p \in PVs |-> IF pv_server_cache[p] \in gone
                                  THEN None ELSE home[p]]
    BY <1>1 DEF RemoveSessions
  <1> HIDE DEF ids
  <1>4. DOMAIN loops' = DOMAIN loops /\ KeepsTasks
    BY <1>3, InvParts, CancelEffect
  <1>5. ASSUME NEW k \in DOMAIN loops
        PROVE  QueueShut(loops'[k]) /\ Asked(loops'[k], ops + 1)
    <2>1. /\ QueueShut(loops[k]) /\ Asked(loops[k], ops)
          /\ loops[k] \in EventLoop
      BY HomeParts, InvParts, LoopType DEF QueuesShut, BatchesInOrder
    <2>2. Asked(loops[k], ops + 1)
      BY <1>1, <2>1, NextCall
    <2> QED BY <1>3, <2>1, <2>2, InvParts, CancelledRecord
  <1>6. QueuesShut' /\ BatchesInOrder'
    BY <1>1, <1>4, <1>5, TasksNext
  <1>7. ReplyHasHome'
    BY <1>2, ReplyNext
  <1>8. CachedHasHome'
    <2>1. ASSUME NEW p \in PVs, pv_server_cache'[p] # None
          PROVE  /\ home'[p] \in Sender /\ home'[p][1] \in DOMAIN loops'
                 /\ loops'[home'[p][1]].ioc = pv_server_cache'[p]
                 /\ Keeps(loops'[home'[p][1]], p, home'[p][2])
      <3>1. pv_server_cache'[p] = pv_server_cache[p] /\ home'[p] = home[p]
        BY <1>3, <2>1
      <3>2. Home(pv_server_cache[p], p, home[p])
        BY <2>1, <3>1, HomeParts DEF CachedHasHome
      <3>3. home[p][1] \in DOMAIN loops
        BY <3>2 DEF Home
      <3>4. Keeps(loops[home[p][1]], p, home[p][2])
                => Keeps(loops'[home[p][1]], p, home[p][2])
        BY <1>3, <3>3, InvParts, CancelledRecord
      <3> QED BY <1>4, <3>1, <3>2, <3>4, HomeFrame
    <2> QED BY <2>1, CachedNext
  <1> QED BY <1>6, <1>7, <1>8, HomeNext

(* The main loop leaves: every task is told to, or its token is cancelled. *)
LEMMA LeavingHome ==
    ASSUME DriverInv, HomeInv, SendShutdown \/ CancelAll
    PROVE  HomeInv'
  <1>1. UNCHANGED << pv_server_cache, home, ops >> /\ main'.pc \in {"closing", "exit"}
    BY InvParts DEF SendShutdown, CancelAll, tables, Call
  <1>2. /\ DOMAIN loops' = DOMAIN loops /\ KeepsTasks
        /\ \A k \in DOMAIN loops :
              /\ QueueShut(loops'[k]) /\ Asked(loops'[k], ops)
              /\ \A p \in PVs, s \in Nat :
                    Keeps(loops[k], p, s) => Keeps(loops'[k], p, s)
    <2>1. CASE SendShutdown
      <3> DEFINE cmd == [op |-> "shutdown"]
      <3>1. /\ DOMAIN loops' = DOMAIN loops
            /\ \A k \in DOMAIN loops :
                  \/ loops'[k] = loops[k]
                  \/ loops[k].pc = "run" /\ loops'[k] = Sent(loops[k], cmd)
        BY <2>1 DEF SendShutdown, Sent, Open
      <3>2. cmd \in SessionCommand /\ cmd.op = "shutdown"
        BY DEF SessionCommand
      <3> HIDE DEF cmd
      <3>3. ASSUME NEW k \in DOMAIN loops
            PROVE  /\ loops'[k].ioc = loops[k].ioc
                   /\ QueueShut(loops'[k]) /\ Asked(loops'[k], ops)
                   /\ \A p \in PVs, s \in Nat :
                          Keeps(loops[k], p, s) => Keeps(loops'[k], p, s)
        <4>1. /\ loops[k] \in EventLoop /\ ops \in Nat
              /\ QueueShut(loops[k]) /\ Asked(loops[k], ops)
          BY InvParts, LoopType, HomeParts, DriverAssumption
             DEF QueuesShut, BatchesInOrder
        <4>2. CASE loops'[k] = loops[k]
          BY <4>1, <4>2
        <4>3. CASE loops[k].pc = "run" /\ loops'[k] = Sent(loops[k], cmd)
          BY <3>2, <4>1, <4>3, SentFields, SentCommand
        <4> QED BY <3>1, <4>2, <4>3
      <3> QED BY <3>1, <3>3 DEF KeepsTasks
    <2>2. CASE CancelAll
      <3>1. PICK ids : loops' = Cancelled(loops, ids)
        BY <2>2 DEF CancelAll
      <3>2. DOMAIN loops' = DOMAIN loops /\ KeepsTasks
        BY <3>1, InvParts, CancelEffect
      <3> QED BY <3>1, <3>2, InvParts, HomeParts, CancelledRecord
              DEF QueuesShut, BatchesInOrder
    <2> QED BY <2>1, <2>2
  <1>3. QueuesShut' /\ BatchesInOrder'
    BY <1>1, <1>2, TasksNext
  <1>4. ReplyHasHome'
    BY <1>1, ReplyNext
  <1>5. CachedHasHome'
    BY <1>1, <1>2, CachedKept
  <1> QED BY <1>3, <1>4, <1>5, HomeNext

LEMMA HomeInit ==
    ASSUME Init PROVE HomeInv
  <1>1. /\ loops = << >> /\ main.pc = "idle"
        /\ \A p \in PVs : pv_server_cache[p] = None
    BY IdleType DEF Init
  <1> QED BY <1>1 DEF HomeInv, QueuesShut, BatchesInOrder, ReplyHasHome,
                      CachedHasHome

LEMMA HomeStep ==
    ASSUME DriverInv, HomeInv, [Next]_vars
    PROVE  HomeInv'
  <1>1. CASE Next
    <2>1. ASSUME NEW k \in DOMAIN loops, LoopStep(k) PROVE HomeInv'
      BY <2>1, LoopHome
    <2>2. ASSUME NEW names \in SUBSET PVs, MonitorBatch(names) PROVE HomeInv'
      BY <2>2, MonitorBatchHome
    <2>3. ASSUME NEW i \in IOCs, SendAddBatch(i) \/ FreshSession(i) PROVE HomeInv'
      BY <2>3, SendAddBatchHome, FreshSessionHome
    <2>4. ASSUME \/ \E i \in IOCs : AnnounceConnected(i)
                 \/ BatchGiveUp \/ BatchReturn
          PROVE  HomeInv'
      <3>1. UNCHANGED << pv_server_cache, home, ops, loops >> /\ main'.pc # "reply"
        BY <2>4, IdleType, InvParts
           DEF AnnounceConnected, BatchGiveUp, BatchReturn, tables, Call
      <3> QED BY <3>1, HomeQuiet
    <2>5. CASE BatchReply
      BY <2>5, BatchReplyHome
    <2>6. ASSUME NEW p \in PVs, Unsubscribe(p) PROVE HomeInv'
      BY <2>6, UnsubscribeHome
    <2>7. ASSUME NEW addrs \in SUBSET IOCs, IocChange(addrs) PROVE HomeInv'
      BY <2>7, IocChangeHome
    <2>8. ASSUME NEW i \in IOCs, NEW configured \in SUBSET PVs,
                 HotAddIoc(i, configured)
          PROVE  HomeInv'
      BY <2>8, HotAddIocHome
    <2>9. CASE ReconnectRecv \/ LifecycleRecv
      <3>1. UNCHANGED << pv_server_cache, home, ops, loops, main >>
        BY <2>9 DEF ReconnectRecv, LifecycleRecv, tables
      <3> QED BY <3>1, HomeQuiet
    <2>10. CASE SendShutdown \/ CancelAll
      BY <2>10, LeavingHome
    <2> QED BY <1>1, <2>1, <2>2, <2>3, <2>4, <2>5, <2>6, <2>7, <2>8, <2>9, <2>10
            DEF Next, MainStep
  <1>2. CASE UNCHANGED vars
    <2>1. UNCHANGED << pv_server_cache, home, ops, loops, main >>
      BY <1>2 DEF vars, tables
    <2> QED BY <2>1, HomeQuiet
  <1> QED BY <1>1, <1>2

(* Every home is one in the sense of SubscribedHasHome.                    *)
LEMMA HomeSuffices ==
    ASSUME DriverInv, HomeInv PROVE SubscribedHasHome
  BY HomeParts DEF SubscribedHasHome, CachedHasHome, Home, Keeps

(* A PV the driver believes subscribed is monitored by the session that    *)
(* accepted it while that session lasts, and by each later session of its  *)
(* task whose reconnect got it back (driver.rs): neither the order of      *)
(* commands, nor late replies, fallback sessions, unsubscribes or removals *)
(* of other IOCs can leave it without a monitor.                           *)
THEOREM DriverSubscribedHasHome == Spec => []SubscribedHasHome
  <1>1. Init => DriverInv /\ HomeInv
    BY DriverInit, HomeInit
  <1>2. DriverInv /\ HomeInv /\ [Next]_vars => (DriverInv /\ HomeInv)'
    BY DriverStep, HomeStep
  <1>3. DriverInv /\ HomeInv => SubscribedHasHome
    BY HomeSuffices
  <1> QED BY <1>1, <1>2, <1>3, PTL DEF Spec

=============================================================================

---------------------------- MODULE AgentLoopProofs ----------------------------
(***************************************************************************)
(* The timers of the guarded background operations, proved for every       *)
(* budget, grace and number of runs: a run that is dropped was hung, and   *)
(* one that is overlapped is past its dedup window.                        *)
(***************************************************************************)
EXTENDS AgentLoop, TLAPS

(* Where the three clocks of a run stand.  The setup of a run that is not  *)
(* hung is short, and its work is never older than the deadline.           *)
TimersKept ==
    \A x \in Slots :
        /\ st[x] = "setup" /\ x \notin hung => age[x] <= MaxSetup
        /\ st[x] = "work" => setup[x] <= age[x]

(* A run keeps its entry as long as it runs. *)
RunsHaveEntries == \A x \in Slots : Running(x) => x \in entries

(* y is a later run for something that x covers. *)
LaterFor(x, y) ==
    /\ age[y] < age[x]
    /\ scope[x].kind = scope[y].kind
    /\ scope[y].kind = "check" => scope[y].items \subseteq scope[x].items

(* The dedup window of a run that is overlapped has ended. *)
OverlappedIsOld ==
    \A x, y \in Slots :
        x # y /\ Running(x) /\ Running(y) /\ LaterFor(x, y) => Window <= age[x]

(* The inductive invariant. *)
AgentInv ==
    /\ TypeOK /\ TimersKept /\ RunsHaveEntries
    /\ OverlappedIsOld /\ CancelledWasHung

LEMMA Bounds ==
    /\ Budget \in Nat /\ Grace \in Nat /\ AbortGrace \in Nat /\ MaxSetup \in Nat
    /\ Window \in Nat /\ CancelAfter \in Nat
    /\ MaxSetup < AbortGrace /\ CancelAfter = Window + AbortGrace
    /\ ChannelCap \in Nat /\ MaxConsecutive \in Nat /\ MissedPongLimit \in Nat
    /\ MaxInbox \in Nat
  BY AgentAssumption DEF Window, CancelAfter

(* The types of the runs and of the loop. *)
OpsTypeOK ==
    /\ st \in [Slots -> {"free", "setup", "work", "sending", "cancelled"}]
    /\ scope \in [Slots -> Scopes \cup {NoScope}]
    /\ age \in [Slots -> 0..CancelAfter]
    /\ setup \in [Slots -> 0..MaxSetup]
    /\ hung \subseteq Slots
    /\ entries \subseteq Slots

Messages == {Settings, Pong, Restarting} \cup Scopes

LoopTypeOK ==
    /\ results \in 0..ChannelCap
    /\ loop \in {"up", "down"}
    /\ link \in {"open", "dead", "closed"}
    /\ pinging \in BOOLEAN
    /\ pingDue \in BOOLEAN
    /\ outstanding \in 0..MissedPongLimit
    /\ consecutive \in 0..MaxConsecutive
    /\ inbox \in Seq(Messages)
    /\ output \in BOOLEAN

LEMMA TypeParts == TypeOK <=> OpsTypeOK /\ LoopTypeOK
  BY Zenon DEF TypeOK, OpsTypeOK, LoopTypeOK, Messages

LEMMA InitiallyKept == Init => AgentInv
  <1> SUFFICES ASSUME Init PROVE AgentInv
    OBVIOUS
  <1>1. <<>> \in Seq(Messages)
    OBVIOUS
  <1>2. TypeOK
    <2>1. OpsTypeOK
      BY Bounds DEF Init, OpsTypeOK, InAllSlots
    <2>2. LoopTypeOK
      <3>1. pinging \in BOOLEAN /\ pingDue \in BOOLEAN /\ output \in BOOLEAN
        BY DEF Init
      <3>. QED BY <1>1, <3>1, Bounds DEF Init, LoopTypeOK
    <2>. QED BY <2>1, <2>2, TypeParts
  <1>. QED
    BY <1>2 DEF Init, InAllSlots, AgentInv, TimersKept, RunsHaveEntries, OverlappedIsOld,
       CancelledWasHung, Running

-----------------------------------------------------------------------------
(* The steps of a run.                                                     *)

LEMMA BeginKeeps ==
    ASSUME AgentInv, NEW x \in Slots, Begin(x)
    PROVE  AgentInv'
  <1>1. TypeOK'
    BY Bounds DEF Begin, AgentInv, TypeOK, TimersKept, loopVars
  <1>2. \A z \in Slots : Running(z)' <=> Running(z)
    BY DEF Begin, Running, AgentInv, TypeOK
  <1>3. TimersKept'
    BY DEF Begin, AgentInv, TypeOK, TimersKept
  <1>4. RunsHaveEntries' /\ OverlappedIsOld'
    BY <1>2 DEF Begin, AgentInv, RunsHaveEntries, OverlappedIsOld, LaterFor
  <1>5. CancelledWasHung'
    BY DEF Begin, AgentInv, TypeOK, CancelledWasHung
  <1>. QED BY <1>1, <1>3, <1>4, <1>5 DEF AgentInv

(* The future of a run goes, and the entry with it or later. *)
LEMMA EndsKeeps ==
    ASSUME AgentInv, NEW x \in Slots, NEW next \in {"free", "sending", "cancelled"},
           Ends(x, next), entries' \in {entries, entries \ {x}},
           results' \in 0..ChannelCap,
           next = "cancelled" => x \in hung
    PROVE  AgentInv'
  <1>1. TypeOK'
    BY Bounds DEF Ends, AgentInv, TypeOK, loopVars
  <1>2. /\ \A z \in Slots \ {x} : /\ Running(z)' <=> Running(z)
                                  /\ st'[z] = st[z] /\ scope'[z] = scope[z]
                                  /\ age'[z] = age[z] /\ setup'[z] = setup[z]
        /\ st'[x] = next /\ ~Running(x)'
    BY DEF Ends, Running, AgentInv, TypeOK
  <1>3. hung' = hung
    BY DEF Ends
  <1>4. TimersKept' /\ CancelledWasHung'
    BY <1>2, <1>3 DEF AgentInv, TimersKept, CancelledWasHung
  <1>5. RunsHaveEntries' /\ OverlappedIsOld'
    BY <1>2 DEF AgentInv, RunsHaveEntries, OverlappedIsOld, LaterFor
  <1>. QED BY <1>1, <1>4, <1>5 DEF AgentInv

(* timeout_at(cancel_at) drops no run whose own deadline could still fire: *)
(* by then the work of a run that is not hung is older than the deadline.  *)
LEMMA CancelMeetsHung ==
    ASSUME AgentInv, NEW x \in Slots, Cancel(x)
    PROVE  x \in hung
  <1>1. st[x] # "work"
    <2> SUFFICES ASSUME st[x] = "work" PROVE FALSE
      OBVIOUS
    <2>1. /\ age[x] \in Nat /\ setup[x] \in Nat
          /\ setup[x] <= MaxSetup /\ age[x] >= CancelAfter
          /\ ~(age[x] - setup[x] >= Window)
      BY Bounds DEF Cancel, AgentInv, TypeOK
    <2>. QED BY <2>1, Bounds
  <1>2. st[x] = "setup" /\ age[x] >= CancelAfter /\ age[x] \in Nat
    BY <1>1, Bounds DEF Cancel, Running, AgentInv, TypeOK
  <1>. QED BY <1>2, Bounds DEF AgentInv, TimersKept

LEMMA TaskKeeps ==
    ASSUME AgentInv, NEW x \in Slots, Task(x)
    PROVE  AgentInv'
  <1>1. results \in 0..ChannelCap
    BY DEF AgentInv, TypeOK
  <1>2. CASE Begin(x)
    BY <1>2, BeginKeeps
  <1>3. CASE Complete(x) \/ Deadline(x)
    <2>1. Ends(x, "sending") /\ entries' = entries \ {x} /\ UNCHANGED results
      BY <1>3 DEF Complete, Deadline, Resolve
    <2>. QED BY <1>1, <2>1, EndsKeeps
  <1>4. CASE Cancel(x)
    <2>1. Ends(x, "cancelled") /\ entries' = entries \ {x} /\ UNCHANGED results
      BY <1>4 DEF Cancel
    <2>. QED BY <1>1, <1>4, <2>1, EndsKeeps, CancelMeetsHung
  <1>5. CASE SendResult(x)
    <2>1. Ends(x, "free") /\ entries' = entries /\ results' \in 0..ChannelCap
      BY <1>1, <1>5, Bounds DEF SendResult
    <2>. QED BY <2>1, EndsKeeps
  <1>. QED BY <1>2, <1>3, <1>4, <1>5 DEF Task

LEMMA TickKeeps ==
    ASSUME AgentInv, Tick
    PROVE  AgentInv'
  <1>1. /\ age \in [Slots -> 0..CancelAfter] /\ setup \in [Slots -> 0..MaxSetup]
        /\ age' = [x \in Slots |-> IF Running(x) THEN age[x] + 1 ELSE age[x]]
        /\ UNCHANGED <<st, scope, setup, hung, entries>>
    BY DEF Tick, AgentInv, TypeOK
  <1>2. ASSUME NEW x \in Slots
        PROVE  /\ Running(x)' <=> Running(x)
               /\ age[x] \in Nat /\ age'[x] \in 0..CancelAfter /\ age[x] <= age'[x]
    BY <1>1, Bounds DEF Running, Tick
  <1>3. TypeOK'
    BY <1>1, <1>2 DEF Tick, AgentInv, TypeOK, loopVars
  <1>4. TimersKept'
    <2> SUFFICES ASSUME NEW x \in Slots
                 PROVE  /\ st'[x] = "setup" /\ x \notin hung' => age'[x] <= MaxSetup
                        /\ st'[x] = "work" => setup'[x] <= age'[x]
      BY DEF TimersKept
    <2>1. CASE st[x] = "setup" /\ x \notin hung
      BY <1>1, <2>1, Bounds DEF Tick, Running
    <2>2. CASE st[x] = "work"
      BY <1>1, <1>2, <2>2, Bounds DEF AgentInv, TimersKept
    <2>. QED BY <1>1, <2>1, <2>2
  <1>5. RunsHaveEntries' /\ CancelledWasHung'
    BY <1>1, <1>2 DEF AgentInv, RunsHaveEntries, CancelledWasHung
  <1>6. OverlappedIsOld'
    <2> SUFFICES ASSUME NEW x \in Slots, NEW y \in Slots, x # y,
                        Running(x)', Running(y)', LaterFor(x, y)'
                 PROVE  Window <= age'[x]
      BY DEF OverlappedIsOld, Window
    <2>1. age'[x] = age[x] + 1 /\ age'[y] = age[y] + 1 /\ age[x] \in Nat /\ age[y] \in Nat
      BY <1>1, <1>2
    <2>2. LaterFor(x, y)
      BY <1>1, <2>1 DEF LaterFor
    <2>3. Window <= age[x]
      BY <1>2, <2>2 DEF AgentInv, OverlappedIsOld
    <2>. QED BY <2>1, <2>3, Bounds
  <1>. QED BY <1>3, <1>4, <1>5, <1>6 DEF AgentInv

-----------------------------------------------------------------------------
(* The loop.                                                               *)

LEMMA OpsUntouched ==
    ASSUME AgentInv, UNCHANGED opVars, LoopTypeOK'
    PROVE  AgentInv'
  <1>1. OpsTypeOK'
    BY TypeParts DEF opVars, AgentInv, OpsTypeOK
  <1>2. TypeOK'
    <2>1. (OpsTypeOK /\ LoopTypeOK)' => TypeOK'
      BY DEF TypeOK, OpsTypeOK, LoopTypeOK, Messages
    <2>. QED BY <1>1, <2>1
  <1>3. TimersKept' /\ RunsHaveEntries' /\ OverlappedIsOld' /\ CancelledWasHung'
    BY DEF opVars, AgentInv, TimersKept, RunsHaveEntries, OverlappedIsOld,
       CancelledWasHung, Running, LaterFor
  <1>. QED BY <1>2, <1>3 DEF AgentInv

(* A dispatch that no entry suppresses: the runs it overlaps, which have   *)
(* their entries, are past their window.                                   *)
LEMMA SpawnKeeps ==
    ASSUME AgentInv, NEW s \in Scopes, Spawn(s), LoopTypeOK'
    PROVE  AgentInv'
  <1>1. CASE UNCHANGED opVars
    BY <1>1, OpsUntouched
  <1>2. CASE ~\E x \in entries : Covers(x, s)
    <2>1. PICK x \in Free, h \in BOOLEAN :
            /\ st' = [st EXCEPT ![x] = "setup"]
            /\ scope' = [scope EXCEPT ![x] = s]
            /\ age' = [age EXCEPT ![x] = 0]
            /\ setup' = [setup EXCEPT ![x] = 0]
            /\ hung' = IF h THEN hung \cup {x} ELSE hung \ {x}
            /\ entries' = entries \cup {x}
      BY <1>2 DEF Spawn
    <2>2. OpsTypeOK /\ x \in Slots /\ ~Running(x)
      BY TypeParts DEF AgentInv, Free, Running
    <2>3. OpsTypeOK'
      BY <2>1, <2>2, Bounds DEF OpsTypeOK
    <2>4. TypeOK'
      <3>1. (OpsTypeOK /\ LoopTypeOK)' => TypeOK'
        BY DEF TypeOK, OpsTypeOK, LoopTypeOK, Messages
      <3>. QED BY <2>3, <3>1
    <2>5. /\ \A z \in Slots \ {x} : /\ Running(z)' <=> Running(z)
                                    /\ st'[z] = st[z] /\ scope'[z] = scope[z]
                                    /\ age'[z] = age[z] /\ setup'[z] = setup[z]
                                    /\ z \in hung' <=> z \in hung
          /\ st'[x] = "setup" /\ scope'[x] = s /\ age'[x] = 0
      BY <2>1, <2>2 DEF OpsTypeOK, Running
    <2>6. TimersKept'
      BY <2>5, Bounds DEF AgentInv, TimersKept
    <2>7. RunsHaveEntries' /\ CancelledWasHung'
      BY <2>1, <2>5 DEF AgentInv, RunsHaveEntries, CancelledWasHung
    <2>8. OverlappedIsOld'
      <3> SUFFICES ASSUME NEW z \in Slots, NEW y \in Slots, z # y,
                          Running(z)', Running(y)', LaterFor(z, y)'
                   PROVE  Window <= age'[z]
        BY DEF OverlappedIsOld, Window
      <3>1. CASE z = x
        <4>1. age'[y] \in Nat /\ age'[y] < 0
          BY <2>3, <2>5, <3>1, Bounds DEF OpsTypeOK, LaterFor
        <4>. QED BY <4>1
      <3>2. CASE z # x /\ y = x
        <4>1. /\ age'[z] = age[z] /\ scope[z].kind = s.kind
              /\ s.kind = "check" => s.items \subseteq scope[z].items
          BY <2>5, <3>2 DEF LaterFor
        <4>2. z \in entries
          BY <2>5, <3>2 DEF AgentInv, RunsHaveEntries
        <4>3. ~(age[z] < Window)
          BY <1>2, <4>1, <4>2 DEF Covers
        <4>. QED BY <2>2, <4>1, <4>3, Bounds DEF OpsTypeOK
      <3>3. CASE z # x /\ y # x
        <4>1. Running(z) /\ Running(y) /\ LaterFor(z, y) /\ age'[z] = age[z]
          BY <2>5, <3>3 DEF LaterFor
        <4>. QED BY <4>1 DEF AgentInv, OverlappedIsOld
      <3>. QED BY <3>1, <3>2, <3>3
    <2>. QED BY <2>4, <2>6, <2>7, <2>8 DEF AgentInv
  <1>. QED BY <1>1, <1>2 DEF Spawn

(* The loop breaks. *)
LEMMA BreakIsTyped ==
    ASSUME LoopTypeOK, Break, results' \in 0..ChannelCap, output' \in BOOLEAN
    PROVE  LoopTypeOK'
  <1>1. <<>> \in Seq(Messages)
    OBVIOUS
  <1>2. inbox' \in Seq(Messages)
    BY <1>1 DEF Break, Messages
  <1>3. pinging' \in BOOLEAN /\ pingDue' \in BOOLEAN
    BY DEF Break
  <1>. QED BY <1>2, <1>3, Bounds DEF LoopTypeOK, Break

LEMMA LoopKeeps ==
    ASSUME AgentInv, LoopStep
    PROVE  AgentInv'
  <1>1. LoopTypeOK
    BY TypeParts DEF AgentInv
  <1>2. CASE ServiceEvent
    <2>1. results' \in 0..ChannelCap /\ output' \in BOOLEAN
      <3>1. UNCHANGED results \/ (results > 0 /\ results' = results - 1)
        BY <1>2, Zenon DEF ServiceEvent, ServiceReady
      <3>2. results' \in 0..ChannelCap
        BY <1>1, <3>1, Bounds DEF LoopTypeOK
      <3>3. output' \in BOOLEAN
        BY <1>1, <1>2, Zenon DEF ServiceEvent, LoopTypeOK
      <3>. QED BY <3>2, <3>3
    <2>2. CASE Break
      BY <1>1, <1>2, <2>1, <2>2, BreakIsTyped, OpsUntouched DEF ServiceEvent
    <2>3. CASE /\ consecutive' = Counted
               /\ UNCHANGED <<loop, link, pinging, pingDue, outstanding, inbox>>
      <3>1. consecutive' \in 0..MaxConsecutive
        BY <1>1, <1>2, <2>3, Bounds DEF ServiceEvent, ServiceReady, Counted, LoopTypeOK
      <3>2. LoopTypeOK'
        BY <1>1, <2>1, <2>3, <3>1 DEF LoopTypeOK, Messages
      <3>. QED BY <1>2, <3>2, OpsUntouched DEF ServiceEvent
    <2>. QED BY <1>2, <2>2, <2>3 DEF ServiceEvent
  <1>3. CASE Keepalive
    <2>1. results' \in 0..ChannelCap /\ output' \in BOOLEAN /\ UNCHANGED opVars
      BY <1>1, <1>3 DEF Keepalive, LoopTypeOK
    <2>2. CASE Break
      BY <1>1, <2>1, <2>2, BreakIsTyped, OpsUntouched
    <2>3. CASE Ping
      <3>1. Append(inbox, Pong) \in Seq(Messages)
        BY <1>1 DEF LoopTypeOK, Messages
      <3>2. inbox' \in Seq(Messages)
        BY <1>1, <2>3, <3>1 DEF Ping, LoopTypeOK, Messages
      <3>3. outstanding' \in 0..MissedPongLimit
        BY <1>1, <2>3, Bounds DEF Ping, LoopTypeOK
      <3>4. pinging' \in BOOLEAN /\ pingDue' \in BOOLEAN
        BY <1>1, <2>3 DEF Ping, LoopTypeOK
      <3>5. LoopTypeOK'
        BY <1>1, <2>1, <2>3, <3>2, <3>3, <3>4, Bounds DEF Ping, LoopTypeOK, Messages
      <3>. QED BY <2>1, <3>5, OpsUntouched
    <2>. QED BY <1>3, <2>2, <2>3 DEF Keepalive
  <1>4. CASE Receive
    <2>1. Tail(inbox) \in Seq(Messages) /\ Head(inbox) \in Messages
      BY <1>1, <1>4 DEF Receive, LoopTypeOK
    <2>2. pinging' \in BOOLEAN /\ pingDue' \in BOOLEAN /\ output' \in BOOLEAN
      BY <1>1, <1>4 DEF Receive, LoopTypeOK
    <2>3. outstanding' \in 0..MissedPongLimit
      BY <1>1, <1>4, Bounds DEF Receive, LoopTypeOK
    <2>4. LoopTypeOK'
      BY <1>1, <1>4, <2>1, <2>2, <2>3, Bounds DEF Receive, LoopTypeOK, Messages
    <2>. QED BY <1>4, <2>4, OpsUntouched, SpawnKeeps DEF Receive
  <1>5. CASE ReceiveRestarting
    <2>1. results' \in 0..ChannelCap /\ output' \in BOOLEAN
      BY <1>1, <1>5, Bounds DEF ReceiveRestarting, LoopTypeOK
    <2>. QED BY <1>1, <1>5, <2>1, BreakIsTyped, OpsUntouched DEF ReceiveRestarting
  <1>6. CASE ReceiveClosed
    <2>1. results' \in 0..ChannelCap /\ output' \in BOOLEAN
      BY <1>1, <1>6 DEF ReceiveClosed, LoopTypeOK
    <2>. QED BY <1>1, <1>6, <2>1, BreakIsTyped, OpsUntouched DEF ReceiveClosed
  <1>7. CASE Yield
    <2>1. LoopTypeOK'
      BY <1>1, <1>7, Bounds DEF Yield, LoopTypeOK, Messages
    <2>. QED BY <1>7, <2>1, OpsUntouched DEF Yield
  <1>. QED BY <1>2, <1>3, <1>4, <1>5, <1>6, <1>7 DEF LoopStep

(* The rest of the world, and the end of the process. *)
LEMMA OthersKeep ==
    ASSUME AgentInv,
           Reconnect \/ PingTimer \/ ControllerSends \/ LoseLink \/ UpdateOutput
    PROVE  AgentInv'
  <1>1. LoopTypeOK
    BY TypeParts DEF AgentInv
  <1>2. CASE ControllerSends
    <2>1. PICK m \in Messages : inbox' = Append(inbox, m)
      BY <1>2 DEF ControllerSends, Messages
    <2>2. inbox' \in Seq(Messages)
      BY <1>1, <2>1 DEF LoopTypeOK, Messages
    <2>3. LoopTypeOK'
      BY <1>1, <1>2, <2>2 DEF ControllerSends, LoopTypeOK, Messages
    <2>. QED BY <1>2, <2>3, OpsUntouched DEF ControllerSends
  <1>3. CASE Reconnect \/ LoseLink
    <2>1. LoopTypeOK'
      BY <1>1, <1>3 DEF Reconnect, LoseLink, LoopTypeOK, Messages
    <2>. QED BY <1>3, <2>1, OpsUntouched DEF Reconnect, LoseLink
  <1>4. CASE PingTimer
    <2>1. LoopTypeOK'
      BY <1>1, <1>4, Zenon DEF PingTimer, LoopTypeOK, Messages
    <2>. QED BY <1>4, <2>1, OpsUntouched DEF PingTimer
  <1>5. CASE UpdateOutput
    <2>1. LoopTypeOK'
      BY <1>1, <1>5, Zenon DEF UpdateOutput, loopVars, LoopTypeOK, Messages
    <2>. QED BY <1>5, <2>1, OpsUntouched DEF UpdateOutput
  <1>. QED BY <1>2, <1>3, <1>4, <1>5

LEMMA SignalKeeps ==
    ASSUME AgentInv, Signal
    PROVE  AgentInv'
  <1>1. OpsTypeOK'
    BY Bounds DEF Signal, OpsTypeOK, InAllSlots
  <1>2. LoopTypeOK'
    <2>1. results' \in 0..ChannelCap /\ output' \in BOOLEAN
      <3>1. results' \in 0..ChannelCap
        BY Bounds DEF Signal
      <3>2. output' \in BOOLEAN
        BY Zenon DEF Signal
      <3>. QED BY <3>1, <3>2
    <2>2. LoopTypeOK /\ Break
      BY TypeParts DEF AgentInv, Signal
    <2>. QED BY <2>1, <2>2, BreakIsTyped
  <1>3. TypeOK'
    <2>1. (OpsTypeOK /\ LoopTypeOK)' => TypeOK'
      BY DEF TypeOK, OpsTypeOK, LoopTypeOK, Messages
    <2>. QED BY <1>1, <1>2, <2>1
  <1>4. \A x \in Slots : st'[x] = "free"
    BY DEF Signal, InAllSlots
  <1>. QED
    BY <1>3, <1>4 DEF AgentInv, TimersKept, RunsHaveEntries, OverlappedIsOld,
       CancelledWasHung, Running

-----------------------------------------------------------------------------
LEMMA AgentPreserved == AgentInv /\ [Next]_vars => AgentInv'
  <1> SUFFICES ASSUME AgentInv, [Next]_vars PROVE AgentInv'
    OBVIOUS
  <1>1. CASE UNCHANGED vars
    <2>1. UNCHANGED opVars
      BY <1>1 DEF vars
    <2>2. LoopTypeOK'
      BY <1>1, TypeParts, Zenon DEF vars, loopVars, AgentInv, LoopTypeOK, Messages
    <2>. QED BY <2>1, <2>2, OpsUntouched
  <1>. QED BY <1>1, TaskKeeps, TickKeeps, LoopKeeps, SignalKeeps, OthersKeep DEF Next

(* The timers, the entries and the overlaps of guarded runs, whatever the  *)
(* loop and the connection do meanwhile.                                   *)
THEOREM AgentInvariant == Spec => []AgentInv
  <1>. QED BY InitiallyKept, AgentPreserved, PTL DEF Spec

(* Every timer stays within its bound, the result channel within its       *)
(* capacity, and the counters of the loop within their limits.             *)
THEOREM AgentTypeCorrect == Spec => []TypeOK
  <1>1. AgentInv => TypeOK
    BY DEF AgentInv
  <1>. QED BY <1>1, AgentInvariant, PTL

(* Only a run that is hung is dropped without a result, for every budget   *)
(* and every grace, as long as a setup is shorter than BG_OP_ABORT_GRACE.  *)
THEOREM OnlyHungAreCancelled == Spec => []CancelledWasHung
  <1>1. AgentInv => CancelledWasHung
    BY DEF AgentInv
  <1>. QED BY <1>1, AgentInvariant, PTL

(* A run is overlapped by another one for what it covers only when it has  *)
(* no more of its in-operation time left than its setup took.              *)
THEOREM OverlapsAreLate == Spec => []OverlapOnlyLate
  <1>1. ASSUME AgentInv PROVE OverlapOnlyLate
    <2> SUFFICES ASSUME NEW x \in Slots, NEW y \in Slots,
                        x # y, st[x] = "work", Running(y), age[y] < age[x],
                        scope[x].kind = scope[y].kind,
                        scope[y].kind = "check" => scope[y].items \subseteq scope[x].items
                 PROVE  Window - (age[x] - setup[x]) <= setup[x]
      BY DEF OverlapOnlyLate
    <2>1. Window <= age[x]
      BY <1>1 DEF AgentInv, OverlappedIsOld, LaterFor, Running
    <2>2. age[x] \in Nat /\ setup[x] \in Nat
      BY <1>1, Bounds DEF AgentInv, TypeOK
    <2>. QED BY <2>1, <2>2, Bounds
  <1>. QED BY <1>1, AgentInvariant, PTL
=============================================================================

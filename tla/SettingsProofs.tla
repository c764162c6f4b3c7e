---------------------------- MODULE SettingsProofs ----------------------------
(***************************************************************************)
(* Proofs about Terminals, VMSettings and Placement, for any clients,      *)
(* viewers, consoles, process IDs, VMs, requests, diagrams, hosts and      *)
(* disk images: what programs print reaches those who look at it, and what *)
(* is typed the program it is for; the record of a VM says what minimega   *)
(* has, and a capture is of the interface it was asked for; what is told   *)
(* of a placement, and the placement, are right of what was read.          *)
(*                                                                         *)
(* The three parts of Terminals move different variables; sentTo is        *)
(* shared, and never for the same client. Each part has an invariant of    *)
(* its own, and so have the settings and the three parts of Placement: the *)
(* listing of disk images, preflight, the schedulers.                      *)
(***************************************************************************)
EXTENDS Terminals, VMSettings, Placement, FiniteSetTheorems, WellFoundedInduction, TLAPS

----------------------------------------------------------------------------
(* Consoles. A console that has run has its process ID for good; it is in  *)
(* the table under it from its start, until the ID was free again.         *)

ConsoleSteppings == {"none", "live", "exited", "reaped", "gone"}

ConsolesInv ==
    /\ ptys \in [Pids -> Consoles \cup {NoOne}]
    /\ console \in [Consoles -> ConsoleSteppings]
    /\ pidOf \in [Consoles -> Pids \cup {NoOne}]
    /\ typing \in [Consoles -> {"none", "copying", "killed", "done"}]
    /\ displaced \subseteq Consoles
    /\ \A k \in Consoles :
        /\ console[k] = "none" <=> pidOf[k] = NoOne
        /\ console[k] = "none" => \A p \in Pids : ptys[p] # k
        /\ typing[k] = "copying" => console[k] # "none"
        /\ typing[k] = "killed" => console[k] \in {"reaped", "gone"}
        /\ \A p \in Pids : ptys[p] = k => pidOf[k] = p
        /\ k \notin displaced => (console[k] \in {"live", "exited"} => PtyOf(k)) /\ (console[k] = "gone" => ~PtyOf(k))

LEMMA ConsoleStepsInv ==
    ASSUME ConsolesInv, ConsoleSteps
    PROVE  ConsolesInv'
<1>. USE TerminalsAssumption DEF ConsolesInv, PtyOf, ConsoleSteppings
<1>1. ASSUME NEW k \in Consoles, NEW p \in Pids, CreateConsole(k, p)
      PROVE  ConsolesInv'
  <2>1. /\ console[k] = "none" /\ p \notin InUse /\ displaced' = displaced /\ typing' = typing
        /\ console' = [console EXCEPT ![k] = "live"] /\ pidOf' = [pidOf EXCEPT ![k] = p] /\ ptys' = [ptys EXCEPT ![p] = k]
    BY <1>1 DEF CreateConsole
  <2>2. \A j \in Consoles : j # k /\ console[j] \in {"live", "exited"} => pidOf[j] # p
    BY <2>1 DEF InUse
  <2>3. ptys' \in [Pids -> Consoles \cup {NoOne}] /\ pidOf' \in [Consoles -> Pids \cup {NoOne}]
    BY <2>1
  <2>. QED BY <2>1, <2>2, <2>3
<1>2. ASSUME NEW k \in Consoles, ConsoleExits(k) \/ Reaped(k) \/ DropsPty(k)
      PROVE  ConsolesInv'
    BY <1>2 DEF ConsoleExits, Reaped, DropsPty
<1>3. ASSUME NEW k \in Consoles, WsConsole(k) \/ KillsConsole(k)
      PROVE  ConsolesInv'
    BY <1>3 DEF WsConsole, KillsConsole
<1>4. ASSUME NEW k \in Consoles, ForgetsConsole(k)
      PROVE  ConsolesInv'
    BY <1>4 DEF ForgetsConsole
<1>. QED BY <1>1, <1>2, <1>3, <1>4 DEF ConsoleSteps

----------------------------------------------------------------------------
(* The output of a component. A viewer that nothing raced has, from its    *)
(* first read on, all the output there is.                                 *)

Sockets == [viewer : Viewers \cup {NoOne}, at : {"none", "read", "checked"}, out : Seq(Nat)]

\* A viewer is streamed to while he is one of those taken in; the output read
\* for the one being taken in is all there is.
ViewerServed(v) ==
    /\ viewer[v] = "streaming" <=> v \in ws
    /\ v \notin raced /\ viewer[v] = "streaming" => (late \/ cmp = "running") /\ Chunks(output) \subseteq sentTo[v]
    /\ v \notin raced /\ socketAt.viewer = v =>
        /\ socketAt.at \in {"read", "checked"} => socketAt.out = output
        /\ socketAt.at = "checked" => marked
    /\ socketAt.at # "none" /\ socketAt.viewer = v => viewer[v] = "asked"

OutputTypes ==
    /\ sentTo \in [TermClients \cup Viewers -> SUBSET Nat]
    /\ viewer \in [Viewers -> {"away", "asked", "streaming", "done"}]
    /\ cmp \in {"none", "started", "running", "finished"} /\ late \in BOOLEAN /\ marked \in BOOLEAN
    /\ output \in Seq(Nat) /\ ws \subseteq Viewers
    /\ socketAt \in Sockets /\ (socketAt.at # "none" => socketAt.viewer \in Viewers)
    /\ marked => cmp = "running" \/ late
    /\ late => cmp = "finished"

OutputInv == OutputTypes /\ \A v \in Viewers : ViewerServed(v)

LEMMA SocketFields ==
    /\ \A s \in Sockets : s.viewer \in Viewers \cup {NoOne} /\ s.at \in {"none", "read", "checked"} /\ s.out \in Seq(Nat)
    /\ NoSocket \in Sockets /\ NoSocket.at = "none" /\ NoSocket.viewer = NoOne
    /\ \A v \in Viewers, o \in Seq(Nat) :
        LET s == [viewer |-> v, at |-> "read", out |-> o]
        IN  s \in Sockets /\ s.viewer = v /\ s.at = "read" /\ s.out = o
    /\ \A s \in Sockets :
        LET t == [s EXCEPT !.at = "checked"]
        IN  t \in Sockets /\ t.viewer = s.viewer /\ t.at = "checked" /\ t.out = s.out
<1>1. \A s \in Sockets : s.viewer \in Viewers \cup {NoOne} /\ s.at \in {"none", "read", "checked"} /\ s.out \in Seq(Nat)
    BY DEF Sockets
<1>2. << >> \in Seq(Nat)
    OBVIOUS
<1>3. NoSocket \in Sockets /\ NoSocket.at = "none" /\ NoSocket.viewer = NoOne
    BY <1>2 DEF Sockets, NoSocket
<1>4. ASSUME NEW v \in Viewers, NEW o \in Seq(Nat), NEW s, s = [viewer |-> v, at |-> "read", out |-> o]
      PROVE  s \in Sockets /\ s.viewer = v /\ s.at = "read" /\ s.out = o
    BY <1>4 DEF Sockets
<1>5. ASSUME NEW s \in Sockets, NEW t, t = [s EXCEPT !.at = "checked"]
      PROVE  t \in Sockets /\ t.viewer = s.viewer /\ t.at = "checked" /\ t.out = s.out
    BY <1>5 DEF Sockets
<1>. QED BY <1>1, <1>3, <1>4, <1>5

LEMMA ChunksType ==
    \A out \in Seq(Nat) : Chunks(out) \in SUBSET Nat
BY DEF Chunks

LEMMA ComponentStepsInv ==
    ASSUME OutputInv, ComponentSteps
    PROVE  OutputInv'
<1>. USE TerminalsAssumption, SocketFields DEF OutputInv, OutputTypes, ViewerServed, Racing
<1>1. CASE ComponentStarts
  <2>1. Chunks(<< >>) = {}
    BY DEF Chunks
  <2>. QED BY <1>1, <2>1 DEF ComponentStarts
<1>2. CASE ComponentRuns
    BY <1>2 DEF ComponentRuns
<1>3. CASE ComponentFinishes
    BY <1>3 DEF ComponentFinishes
<1>4. CASE LooksRunning
  <2>1. UNCHANGED <<cmp, late, marked, output, ws, raced>> /\ socketAt.at = "read" /\ socketAt.viewer \in Viewers
    BY <1>4 DEF LooksRunning
  <2>2. CASE marked
    <3>0. UNCHANGED <<viewer, sentTo>> /\ socketAt' = [socketAt EXCEPT !.at = "checked"]
      BY <1>4, <2>2 DEF LooksRunning
    <3>1. /\ socketAt' \in Sockets
          /\ socketAt'.viewer = socketAt.viewer /\ socketAt'.at = "checked" /\ socketAt'.out = socketAt.out
      BY <3>0 DEF Sockets
    <3>. QED BY <2>1, <2>2, <3>0, <3>1 DEF Chunks
  <2>3. CASE ~marked
    <3>1. /\ viewer' = [viewer EXCEPT ![socketAt.viewer] = "done"] /\ socketAt' = NoSocket
          /\ \E sent \in SUBSET Nat : sentTo' = [sentTo EXCEPT ![socketAt.viewer] = sent]
      BY <1>4, <2>3, ChunksType DEF LooksRunning
    <3>2. OutputTypes'
      BY <2>1, <3>1
    <3>3. ASSUME NEW v \in Viewers
          PROVE  ViewerServed(v)'
      <4>1. viewer'[v] = IF v = socketAt.viewer THEN "done" ELSE viewer[v]
        BY <3>1
      <4>2. v # socketAt.viewer => sentTo'[v] = sentTo[v]
        BY <3>1
      <4>3. socketAt'.at = "none" /\ socketAt'.viewer # v
        BY <3>1
      <4>4. Chunks(output)' = Chunks(output)
        BY <2>1 DEF Chunks
      <4>. QED BY <2>1, <4>1, <4>2, <4>3, <4>4
    <3>. QED BY <3>2, <3>3
  <2>. QED BY <2>2, <2>3
<1>5. CASE AddsViewer
  <2>1. /\ UNCHANGED <<cmp, late, marked, output, raced>> /\ socketAt.at = "checked" /\ socketAt.viewer \in Viewers
        /\ ws' = ws \cup {socketAt.viewer} /\ viewer' = [viewer EXCEPT ![socketAt.viewer] = "streaming"]
        /\ sentTo' = [sentTo EXCEPT ![socketAt.viewer] = @ \cup Chunks(socketAt.out)]
        /\ socketAt' = NoSocket
    BY <1>5 DEF AddsViewer
  <2>2. OutputTypes'
    BY <2>1, ChunksType
  <2>3. ASSUME NEW v \in Viewers
        PROVE  ViewerServed(v)'
    <3>1. viewer'[v] = IF v = socketAt.viewer THEN "streaming" ELSE viewer[v]
      BY <2>1
    <3>2. sentTo'[v] = IF v = socketAt.viewer THEN sentTo[v] \cup Chunks(socketAt.out) ELSE sentTo[v]
      BY <2>1
    <3>3. socketAt'.at = "none" /\ socketAt'.viewer # v
      BY <2>1
    <3>4. Chunks(output)' = Chunks(output)
      BY <2>1 DEF Chunks
    <3>. QED BY <2>1, <3>1, <3>2, <3>3, <3>4
  <2>. QED BY <2>2, <2>3
<1>6. ASSUME NEW w \in Viewers, GetComponentOutput(w)
      PROVE  OutputInv'
  <2>1. /\ UNCHANGED <<cmp, late, marked, output, ws, socketAt, raced>> /\ viewer[w] = "away"
        /\ \E at \in {"asked", "done"} : viewer' = [viewer EXCEPT ![w] = at]
        /\ sentTo' = sentTo \/ \E sent \in SUBSET Nat : sentTo' = [sentTo EXCEPT ![w] = sent]
    BY <1>6, ChunksType DEF GetComponentOutput
  <2>2. OutputTypes'
    BY <2>1
  <2>3. ASSUME NEW v \in Viewers
        PROVE  ViewerServed(v)'
    <3>1. viewer'[w] \in {"asked", "done"} /\ (v # w => viewer'[v] = viewer[v] /\ sentTo'[v] = sentTo[v])
      BY <2>1
    <3>2. Chunks(output)' = Chunks(output)
      BY <2>1 DEF Chunks
    <3>. QED BY <2>1, <3>1, <3>2
  <2>. QED BY <2>2, <2>3
<1>7. ASSUME NEW v \in Viewers, TakesViewer(v)
      PROVE  OutputInv'
    BY <1>7 DEF TakesViewer
<1>8. CASE ComponentPrints
  <2>1. PICK gone \in SUBSET ws :
        /\ ws' = ws \ gone
        /\ viewer' = [v \in Viewers |-> IF v \in gone THEN "done" ELSE viewer[v]]
        /\ sentTo' = [x \in DOMAIN sentTo |-> IF x \in ws \ gone THEN sentTo[x] \cup {Len(output) + 1} ELSE sentTo[x]]
    BY <1>8 DEF ComponentPrints
  <2>2. /\ cmp = "running" \/ (cmp = "finished" /\ ~late)
        /\ late' = (cmp = "finished") /\ marked' = TRUE /\ output' = Append(output, Len(output) + 1)
        /\ raced' = raced \cup Racing /\ UNCHANGED <<cmp, socketAt>>
    BY <1>8 DEF ComponentPrints
  <2>3. Chunks(output)' \subseteq Chunks(output) \cup {Len(output) + 1}
    <3>1. Len(output') = Len(output) + 1
      BY <2>2
    <3>2. \A i \in 1 .. Len(output) : output'[i] = output[i]
      BY <2>2
    <3>3. output'[Len(output) + 1] = Len(output) + 1
      BY <2>2
    <3>4. ASSUME NEW c \in Chunks(output')
          PROVE  c \in Chunks(output) \cup {Len(output) + 1}
      <4>1. PICK i \in 1 .. Len(output) + 1 : c = output'[i]
        BY <3>1 DEF Chunks
      <4>2. CASE i = Len(output) + 1
        BY <3>3, <4>1, <4>2
      <4>3. CASE i # Len(output) + 1
        <5>1. Len(output) \in Nat /\ i \in 1 .. Len(output)
          BY <4>3
        <5>. QED BY <3>2, <4>1, <5>1 DEF Chunks
      <4>. QED BY <4>2, <4>3
    <3>. QED BY <3>4 DEF Chunks
  <2>4. output' \in Seq(Nat)
    BY <2>2
  <2>5. OutputTypes'
    <3>1. Len(output) + 1 \in Nat
      BY DEF OutputTypes
    <3>2. sentTo' \in [TermClients \cup Viewers -> SUBSET Nat]
      BY <2>1, <3>1
    <3>3. viewer' \in [Viewers -> {"away", "asked", "streaming", "done"}]
      BY <2>1
    <3>. QED BY <2>1, <2>2, <2>4, <3>2, <3>3
  <2>6. ASSUME NEW v \in Viewers
        PROVE  ViewerServed(v)'
    <3>1. viewer'[v] = IF v \in gone THEN "done" ELSE viewer[v]
      BY <2>1
    <3>2. sentTo'[v] = IF v \in ws \ gone THEN sentTo[v] \cup {Len(output) + 1} ELSE sentTo[v]
      BY <2>1
    <3>3. v \in ws' <=> v \in ws /\ v \notin gone
      BY <2>1
    <3>4. (viewer[v] = "streaming" <=> v \in ws)'
      BY <3>1, <3>3
    <3>5. (v \notin raced /\ viewer[v] = "streaming" => (late \/ cmp = "running") /\ Chunks(output) \subseteq sentTo[v])'
      BY <2>2, <2>3, <3>1, <3>2, <3>3
    <3>6. v \notin raced' => socketAt'.at \notin {"read", "checked"} \/ socketAt'.viewer # v
      BY <2>2
    <3>7. (socketAt.at # "none" /\ socketAt.viewer = v => viewer[v] = "asked")'
      BY <2>1, <2>2, <3>1
    <3>. QED BY <3>4, <3>5, <3>6, <3>7
  <2>. QED BY <2>5, <2>6
<1>. QED BY <1>1, <1>2, <1>3, <1>4, <1>5, <1>6, <1>7, <1>8 DEF ComponentSteps

----------------------------------------------------------------------------
(* The terminal. Who types has the right to, while no timer took it from   *)
(* him, and a program's chunk is in the hand of the one who read it until  *)
(* every watcher has been shown it.                                        *)

InHands == [chunk : Nat, at : {"none", "shown", "kept"}]

\* What a reader has in hand is the program's, and shown or about to be.
HandHolds(c) == inHand[c].at # "none" => inHand[c].chunk \in 1 .. printed

InHandChunks == {inHand[c].chunk : c \in TermClients}

TermInv ==
    /\ sentTo \in [TermClients \cup Viewers -> SUBSET Nat]
    /\ client \in [TermClients -> {"away", "connecting", "typing", "watching", "broken", "left"}]
    /\ inHand \in [TermClients -> InHands]
    /\ roTerms \subseteq TermClients /\ printed \in Nat /\ history \subseteq 1 .. printed
    /\ lapsed \in BOOLEAN /\ cut \in BOOLEAN
    /\ \A c \in TermClients : HandHolds(c) /\ (~lapsed /\ client[c] = "typing" => rwTerm = c)
    /\ ~cut => \A w \in roTerms : history \subseteq sentTo[w] \cup InHandChunks

LEMMA HandFields ==
    /\ Free \in InHands /\ Free.at = "none" /\ Free.chunk = 0
    /\ \A h \in InHands : h.chunk \in Nat /\ h.at \in {"none", "shown", "kept"}
BY DEF InHands, Free

LEMMA HandsMove ==
    /\ \A n \in Nat : \A h : h = [chunk |-> n, at |-> "shown"] => h \in InHands /\ h.at = "shown" /\ h.chunk = n
    /\ \A g \in InHands : \A h : h = [g EXCEPT !.at = "kept"] => h \in InHands /\ h.at = "kept" /\ h.chunk = g.chunk
BY DEF InHands

\* Who has been shown what depends on these alone.
WatchersShown == ~cut => \A w \in roTerms : history \subseteq sentTo[w] \cup InHandChunks

LEMMA WatchersStayShown ==
    ASSUME WatchersShown, UNCHANGED <<inHand, sentTo>>,
           cut' = cut, roTerms' \subseteq roTerms, history' \subseteq history
    PROVE  WatchersShown'
BY DEF WatchersShown, InHandChunks

LEMMA TerminalStepsInv ==
    ASSUME TermInv, TerminalSteps
    PROVE  TermInv'
<1>. USE TerminalsAssumption DEF TermInv, HandHolds
<1>0. WatchersShown
    BY DEF WatchersShown
<1>1. ASSUME CreateTerminal \/ CancelRun \/ WatchesRun
      PROVE  TermInv'
  <2>1. UNCHANGED <<client, inHand, roTerms, printed, history, lapsed, cut, sentTo, rwTerm>>
    BY <1>1 DEF CreateTerminal, CancelRun, WatchesRun
  <2>2. WatchersShown'
    BY <1>0, <2>1, WatchersStayShown
  <2>. QED BY <2>1, <2>2 DEF WatchersShown
<1>2. ASSUME NEW c \in TermClients, LinkLapses(c) \/ LinkForgotten(c) \/ StreamTerminal(c) \/ ConnectTerminal(c) \/ StreamsTyping(c) \/ WriteTerm(c) \/ WaitTerm(c) \/ ExitByClient(c)
      PROVE  TermInv'
  <2>1. UNCHANGED <<inHand, printed, history, cut, sentTo>> /\ roTerms' \subseteq roTerms
    BY <1>2 DEF LinkLapses, LinkForgotten, StreamTerminal, ConnectTerminal, StreamsTyping, WriteTerm, WaitTerm, ExitByClient
  <2>2. WatchersShown'
    BY <1>0, <2>1, WatchersStayShown
  <2>3. client' \in [TermClients -> {"away", "connecting", "typing", "watching", "broken", "left"}] /\ lapsed' \in BOOLEAN
    BY <1>2 DEF LinkLapses, LinkForgotten, StreamTerminal, ConnectTerminal, InitTerminal, StreamsTyping, WriteTerm, WaitTerm, ExitByClient
  <2>4. \A d \in TermClients : ~lapsed' /\ client'[d] = "typing" => rwTerm' = d
    <3>1. CASE LinkLapses(c)
      BY <3>1 DEF LinkLapses
    <3>2. CASE ConnectTerminal(c)
      BY <3>2 DEF ConnectTerminal, InitTerminal
    <3>3. CASE LinkForgotten(c) \/ ExitByClient(c)
      BY <3>3 DEF LinkForgotten, ExitByClient
    <3>4. CASE StreamTerminal(c) \/ StreamsTyping(c)
      BY <3>4 DEF StreamTerminal, StreamsTyping
    <3>5. CASE WriteTerm(c) \/ WaitTerm(c)
      BY <3>5 DEF WriteTerm, WaitTerm
    <3>. QED BY <1>2, <3>1, <3>2, <3>3, <3>4, <3>5
  <2>. QED BY <2>1, <2>2, <2>3, <2>4 DEF WatchersShown
<1>3. ASSUME NEW c \in TermClients, StreamsWatching(c)
      PROVE  TermInv'
  <2>1. /\ UNCHANGED <<rwTerm, inHand, printed, history, cut, lapsed>> /\ roTerms' = roTerms \cup {c}
        /\ client' = [client EXCEPT ![c] = "watching"] /\ sentTo' = [sentTo EXCEPT ![c] = @ \cup history]
    BY <1>3 DEF StreamsWatching
  <2>2. history \in SUBSET Nat
    OBVIOUS
  <2>3. sentTo' \in [TermClients \cup Viewers -> SUBSET Nat] /\ \A x \in TermClients : sentTo[x] \subseteq sentTo'[x]
    BY <2>1, <2>2
  <2>4. history \subseteq sentTo'[c]
    BY <2>1
  <2>5. WatchersShown'
    BY <1>0, <2>1, <2>3, <2>4 DEF WatchersShown, InHandChunks
  <2>. QED BY <2>1, <2>3, <2>5 DEF WatchersShown
<1>4. ASSUME NEW c \in TermClients, ReadTerm(c)
      PROVE  TermInv'
  <2>1. UNCHANGED <<rwTerm, client, roTerms, history, lapsed, cut>> /\ inHand[c] = Free
    BY <1>4 DEF ReadTerm
  <2>2. CASE inHand' = inHand
    <3>1. sentTo' = sentTo /\ printed' \in {printed, printed + 1}
      BY <1>4, <2>1, <2>2, HandFields, HandsMove DEF ReadTerm
    <3>2. WatchersShown'
      BY <1>0, <2>1, <2>2, <3>1, WatchersStayShown
    <3>. QED BY <2>1, <2>2, <3>1, <3>2 DEF WatchersShown
  <2>3. CASE inHand' # inHand
    <3>1. /\ inHand' = [inHand EXCEPT ![c] = [chunk |-> printed + 1, at |-> "shown"]]
          /\ sentTo' = [sentTo EXCEPT ![c] = @ \cup {printed + 1}] /\ printed' = printed + 1
      BY <1>4, <2>3 DEF ReadTerm
    <3>2. inHand'[c] \in InHands /\ inHand'[c].at = "shown" /\ inHand'[c].chunk = printed + 1
      <4>1. inHand'[c] = [chunk |-> printed + 1, at |-> "shown"] /\ printed + 1 \in Nat
        BY <3>1
      <4>. QED BY <4>1 DEF InHands
    <3>3. inHand' \in [TermClients -> InHands] /\ \A d \in TermClients \ {c} : inHand'[d] = inHand[d]
      BY <3>1, <3>2
    <3>4. sentTo' \in [TermClients \cup Viewers -> SUBSET Nat] /\ \A x \in TermClients : sentTo[x] \subseteq sentTo'[x]
      BY <3>1
    <3>5. InHandChunks \ {0} \subseteq InHandChunks'
      BY <2>1, <3>3, HandFields DEF InHandChunks
    <3>6. 0 \notin history
      OBVIOUS
    <3>7. WatchersShown'
      BY <1>0, <2>1, <3>4, <3>5, <3>6 DEF WatchersShown
    <3>8. \A d \in TermClients : HandHolds(d)'
      BY <3>1, <3>2, <3>3
    <3>9. printed' \in Nat /\ history \subseteq 1 .. printed'
      BY <3>1
    <3>. QED BY <2>1, <3>3, <3>4, <3>7, <3>8, <3>9 DEF WatchersShown
  <2>. QED BY <2>2, <2>3
<1>5. ASSUME NEW c \in TermClients, KeepHistory(c)
      PROVE  TermInv'
  <2>1. /\ inHand[c].at = "shown" /\ UNCHANGED <<rwTerm, client, roTerms, printed, lapsed, cut, sentTo>>
        /\ history' = history \cup {inHand[c].chunk} /\ inHand' = [inHand EXCEPT ![c] = [inHand[c] EXCEPT !.at = "kept"]]
    BY <1>5 DEF KeepHistory
  <2>2. inHand'[c] \in InHands /\ inHand'[c].at = "kept" /\ inHand'[c].chunk = inHand[c].chunk
    BY <2>1, HandsMove
  <2>3. inHand' \in [TermClients -> InHands] /\ \A d \in TermClients \ {c} : inHand'[d] = inHand[d]
    BY <2>1, <2>2
  <2>4. InHandChunks' = InHandChunks
    BY <2>2, <2>3 DEF InHandChunks
  <2>5. WatchersShown'
    BY <1>0, <2>1, <2>4 DEF WatchersShown, InHandChunks
  <2>6. \A d \in TermClients : HandHolds(d)'
    BY <2>1, <2>2, <2>3
  <2>. QED BY <2>1, <2>3, <2>5, <2>6 DEF WatchersShown
<1>6. ASSUME NEW c \in TermClients, ShowWatchers(c)
      PROVE  TermInv'
  <2>1. /\ inHand[c].at = "kept" /\ inHand' = [inHand EXCEPT ![c] = Free]
        /\ UNCHANGED <<rwTerm, roTerms, history, printed, lapsed>>
    BY <1>6 DEF ShowWatchers
  <2>2. PICK to \in SUBSET {w \in roTerms : client[w] = "watching"} :
        /\ \/ to = roTerms /\ UNCHANGED <<client, cut>>
           \/ \E w \in roTerms \ to : client' = [client EXCEPT ![w] = "broken"] /\ cut' = TRUE
        /\ sentTo' = [x \in DOMAIN sentTo |-> IF x \in to THEN sentTo[x] \cup {inHand[c].chunk} ELSE sentTo[x]]
    BY <1>6 DEF ShowWatchers
  <2>3. inHand' \in [TermClients -> InHands] /\ inHand'[c] = Free /\ \A d \in TermClients \ {c} : inHand'[d] = inHand[d]
    BY <2>1, HandFields
  <2>4. inHand[c].chunk \in Nat
    BY HandFields
  <2>5. /\ sentTo' \in [TermClients \cup Viewers -> SUBSET Nat]
        /\ \A x \in TermClients : sentTo[x] \subseteq sentTo'[x] /\ (x \in to => inHand[c].chunk \in sentTo'[x])
    BY <2>2, <2>4
  <2>6. /\ client' \in [TermClients -> {"away", "connecting", "typing", "watching", "broken", "left"}] /\ cut' \in BOOLEAN
        /\ \A d \in TermClients : client'[d] = "typing" => client[d] = "typing"
    BY <2>2
  <2>7. InHandChunks \ {inHand[c].chunk} \subseteq InHandChunks'
    BY <2>3 DEF InHandChunks
  <2>8. WatchersShown'
    BY <1>0, <2>1, <2>2, <2>5, <2>7 DEF WatchersShown
  <2>9. \A d \in TermClients : HandHolds(d)'
    BY <2>1, <2>3, HandFields
  <2>. QED BY <2>1, <2>3, <2>5, <2>6, <2>8, <2>9 DEF WatchersShown
<1>7. ASSUME NEW k \in TermClients \cup {"run"}, KillsTerminal(k)
      PROVE  TermInv'
  <2>1. UNCHANGED <<rwTerm, client, inHand, roTerms, printed, lapsed, cut, sentTo>> /\ history' \subseteq history
    BY <1>7 DEF KillsTerminal
  <2>2. WatchersShown'
    BY <1>0, <2>1, WatchersStayShown
  <2>. QED BY <2>1, <2>2 DEF WatchersShown
<1>. QED BY <1>1, <1>2, <1>3, <1>4, <1>5, <1>6, <1>7 DEF TerminalSteps

LEMMA TermInvShared ==
    ASSUME TermInv
    PROVE  TerminalShared
<1>1. ASSUME ~lapsed
      PROVE  Cardinality({c \in TermClients : client[c] = "typing"}) <= 1
  <2>1. {c \in TermClients : client[c] = "typing"} \subseteq {rwTerm}
    BY <1>1 DEF TermInv
  <2>2. IsFiniteSet({rwTerm}) /\ Cardinality({rwTerm}) = 1
    BY FS_Singleton
  <2>. QED BY <2>1, <2>2, FS_Subset, FS_CardinalityType
<1>. QED BY <1>1 DEF TermInv, TerminalShared, InHandChunks

----------------------------------------------------------------------------
(* All three.                                                              *)

OutputsInv == TermInv /\ OutputInv /\ ConsolesInv

LEMMA OutputsInit ==
    ASSUME TerminalsInit
    PROVE  OutputsInv
<1>. USE TerminalsAssumption DEF TerminalsInit
<1>1. TermInv
    BY HandFields DEF TermInv, HandHolds
<1>2. OutputInv
  <2>1. << >> \in Seq(Nat)
    OBVIOUS
  <2>. QED BY <2>1, SocketFields DEF OutputInv, OutputTypes, ViewerServed
<1>3. ConsolesInv
    BY DEF ConsolesInv, ConsoleSteppings, PtyOf
<1>. QED BY <1>1, <1>2, <1>3 DEF OutputsInv

\* What a viewer has been sent is no business of the terminal's clients, and
\* the other way round.
LEMMA ViewersApart ==
    ASSUME TermInv, TerminalSteps, NEW v \in Viewers
    PROVE  sentTo'[v] = sentTo[v]
<1>. USE TerminalsAssumption
<1>1. CASE CreateTerminal \/ CancelRun \/ WatchesRun \/ \E k \in TermClients \cup {"run"} : KillsTerminal(k)
    BY <1>1 DEF CreateTerminal, CancelRun, WatchesRun, KillsTerminal
<1>2. ASSUME NEW c \in TermClients, LinkLapses(c) \/ LinkForgotten(c) \/ StreamTerminal(c) \/ ConnectTerminal(c) \/ StreamsTyping(c) \/ WriteTerm(c) \/ WaitTerm(c) \/ ExitByClient(c) \/ KeepHistory(c)
      PROVE  sentTo'[v] = sentTo[v]
    BY <1>2 DEF LinkLapses, LinkForgotten, StreamTerminal, ConnectTerminal, StreamsTyping, WriteTerm, WaitTerm, ExitByClient, KeepHistory
<1>3. ASSUME NEW c \in TermClients, StreamsWatching(c) \/ ReadTerm(c)
      PROVE  sentTo'[v] = sentTo[v]
    BY <1>3 DEF StreamsWatching, ReadTerm, TermInv
<1>4. ASSUME NEW c \in TermClients, ShowWatchers(c)
      PROVE  sentTo'[v] = sentTo[v]
    BY <1>4 DEF ShowWatchers, TermInv
<1>. QED BY <1>1, <1>2, <1>3, <1>4 DEF TerminalSteps

LEMMA ClientsApart ==
    ASSUME OutputInv, ComponentSteps, NEW c \in TermClients
    PROVE  sentTo'[c] = sentTo[c]
<1>. USE TerminalsAssumption DEF OutputInv, OutputTypes
<1>1. CASE ComponentStarts \/ ComponentRuns \/ ComponentFinishes \/ \E v \in Viewers : TakesViewer(v)
    BY <1>1 DEF ComponentStarts, ComponentRuns, ComponentFinishes, TakesViewer
<1>2. CASE ComponentPrints
    BY <1>2 DEF ComponentPrints
<1>3. CASE LooksRunning \/ AddsViewer
  <2>1. socketAt.viewer \in Viewers
    BY <1>3 DEF LooksRunning, AddsViewer
  <2>. QED BY <1>3, <2>1 DEF LooksRunning, AddsViewer
<1>4. ASSUME NEW v \in Viewers, GetComponentOutput(v)
      PROVE  sentTo'[c] = sentTo[c]
    BY <1>4 DEF GetComponentOutput
<1>. QED BY <1>1, <1>2, <1>3, <1>4 DEF ComponentSteps

LEMMA PartsApart ==
    /\ TerminalSteps => UNCHANGED <<cmpVars, consoleVars>>
    /\ ComponentSteps => UNCHANGED <<termVars, consoleVars>>
    /\ ConsoleSteps => UNCHANGED <<termVars, sentTo, cmpVars>>
<1>1. TerminalSteps => UNCHANGED <<cmpVars, consoleVars>>
  <2>. USE DEF Elsewhere
  <2>1. CreateTerminal \/ CancelRun \/ WatchesRun => UNCHANGED <<cmpVars, consoleVars>>
    BY DEF CreateTerminal, CancelRun, WatchesRun
  <2>2. \A k : KillsTerminal(k) => UNCHANGED <<cmpVars, consoleVars>>
    BY DEF KillsTerminal
  <2>3. \A c : LinkLapses(c) \/ LinkForgotten(c) \/ StreamTerminal(c) \/ ConnectTerminal(c) \/ StreamsTyping(c) => UNCHANGED <<cmpVars, consoleVars>>
    BY DEF LinkLapses, LinkForgotten, StreamTerminal, ConnectTerminal, StreamsTyping
  <2>4. \A c : WriteTerm(c) \/ WaitTerm(c) \/ ExitByClient(c) \/ KeepHistory(c) => UNCHANGED <<cmpVars, consoleVars>>
    BY DEF WriteTerm, WaitTerm, ExitByClient, KeepHistory
  <2>5. \A c : StreamsWatching(c) \/ ReadTerm(c) \/ ShowWatchers(c) => UNCHANGED <<cmpVars, consoleVars>>
    BY DEF StreamsWatching, ReadTerm, ShowWatchers
  <2>. QED BY <2>1, <2>2, <2>3, <2>4, <2>5 DEF TerminalSteps
<1>2. ComponentSteps => UNCHANGED <<termVars, consoleVars>>
  <2>. USE DEF NotComponents
  <2>1. ComponentStarts \/ ComponentRuns \/ ComponentPrints => UNCHANGED <<termVars, consoleVars>>
    BY DEF ComponentStarts, ComponentRuns, ComponentPrints
  <2>2. ComponentFinishes \/ LooksRunning \/ AddsViewer => UNCHANGED <<termVars, consoleVars>>
    BY DEF ComponentFinishes, LooksRunning, AddsViewer
  <2>3. \A v : GetComponentOutput(v) \/ TakesViewer(v) => UNCHANGED <<termVars, consoleVars>>
    BY DEF GetComponentOutput, TakesViewer
  <2>. QED BY <2>1, <2>2, <2>3 DEF ComponentSteps
<1>3. ConsoleSteps => UNCHANGED <<termVars, sentTo, cmpVars>>
  <2>. USE DEF NotConsoles
  <2>1. \A k, p : CreateConsole(k, p) => UNCHANGED <<termVars, sentTo, cmpVars>>
    BY DEF CreateConsole
  <2>2. \A k : ConsoleExits(k) \/ Reaped(k) \/ DropsPty(k) \/ WsConsole(k) \/ KillsConsole(k) \/ ForgetsConsole(k) => UNCHANGED <<termVars, sentTo, cmpVars>>
    BY DEF ConsoleExits, Reaped, DropsPty, WsConsole, KillsConsole, ForgetsConsole
  <2>. QED BY <2>1, <2>2 DEF ConsoleSteps
<1>. QED BY <1>1, <1>2, <1>3

\* Each part's invariant looks at its own variables, and at what its own
\* clients have been sent.
LEMMA TermFrame ==
    ASSUME TermInv, UNCHANGED termVars, sentTo' \in [TermClients \cup Viewers -> SUBSET Nat],
           \A c \in TermClients : sentTo'[c] = sentTo[c]
    PROVE  TermInv'
<1>1. UNCHANGED <<client, inHand, roTerms, printed, history, lapsed, cut, rwTerm>>
    BY DEF termVars
<1>2. InHandChunks' = InHandChunks
    BY <1>1 DEF InHandChunks
<1>. QED BY <1>1, <1>2 DEF TermInv, HandHolds

LEMMA OutputFrame ==
    ASSUME OutputInv, UNCHANGED cmpVars, sentTo' \in [TermClients \cup Viewers -> SUBSET Nat],
           \A v \in Viewers : sentTo'[v] = sentTo[v]
    PROVE  OutputInv'
<1>1. UNCHANGED <<cmp, late, marked, output, ws, socketAt, viewer, raced>>
    BY DEF cmpVars
<1>2. Chunks(output)' = Chunks(output)
    BY <1>1 DEF Chunks
<1>. QED BY <1>1, <1>2 DEF OutputInv, OutputTypes, ViewerServed

LEMMA ConsolesFrame ==
    ASSUME ConsolesInv, UNCHANGED consoleVars
    PROVE  ConsolesInv'
BY DEF ConsolesInv, consoleVars, PtyOf

LEMMA OutputsNext ==
    ASSUME OutputsInv, [TerminalsNext]_terminalsVars
    PROVE  OutputsInv'
<1>0. TermInv /\ OutputInv /\ ConsolesInv /\ sentTo \in [TermClients \cup Viewers -> SUBSET Nat]
    BY DEF OutputsInv, TermInv
<1>1. CASE TerminalSteps
  <2>1. TermInv'
    BY <1>0, <1>1, TerminalStepsInv
  <2>2. sentTo' \in [TermClients \cup Viewers -> SUBSET Nat]
    BY <2>1 DEF TermInv
  <2>3. OutputInv'
    BY <1>0, <1>1, <2>2, PartsApart, ViewersApart, OutputFrame
  <2>4. ConsolesInv'
    BY <1>0, <1>1, PartsApart, ConsolesFrame
  <2>. QED BY <2>1, <2>3, <2>4 DEF OutputsInv
<1>2. CASE ComponentSteps
  <2>1. OutputInv'
    BY <1>0, <1>2, ComponentStepsInv
  <2>2. sentTo' \in [TermClients \cup Viewers -> SUBSET Nat]
    BY <2>1 DEF OutputInv, OutputTypes
  <2>3. TermInv'
    BY <1>0, <1>2, <2>2, PartsApart, ClientsApart, TermFrame
  <2>4. ConsolesInv'
    BY <1>0, <1>2, PartsApart, ConsolesFrame
  <2>. QED BY <2>1, <2>3, <2>4 DEF OutputsInv
<1>3. CASE ConsoleSteps
  <2>1. ConsolesInv'
    BY <1>0, <1>3, ConsoleStepsInv
  <2>2. UNCHANGED termVars /\ UNCHANGED cmpVars /\ sentTo' = sentTo
    BY <1>3, PartsApart
  <2>. QED BY <1>0, <2>1, <2>2, TermFrame, OutputFrame DEF OutputsInv
<1>4. CASE UNCHANGED terminalsVars
  <2>1. UNCHANGED termVars /\ UNCHANGED cmpVars /\ UNCHANGED consoleVars /\ sentTo' = sentTo
    BY <1>4 DEF terminalsVars
  <2>. QED BY <1>0, <2>1, TermFrame, OutputFrame, ConsolesFrame DEF OutputsInv
<1>. QED BY <1>1, <1>2, <1>3, <1>4 DEF TerminalsNext

LEMMA OutputsInvShown ==
    ASSUME OutputsInv
    PROVE  OutputsShown
<1>1. TerminalShared
    BY TermInvShared DEF OutputsInv
<1>2. StreamsShown
    BY DEF OutputsInv, OutputInv, ViewerServed, StreamsShown
<1>3. ConsolesReachable
    BY DEF OutputsInv, ConsolesInv, ConsolesReachable
<1>. QED BY <1>1, <1>2, <1>3 DEF OutputsShown

\* What programs print reaches those who look at it, and what is typed the
\* program it is for (terminalWsHandler, initTerminal, processWebSockets,
\* processComponents, CreateConsole, WsConsole), whatever comes between: but
\* for what the exposure variables record.
THEOREM OutputsReachThose == TerminalsSpec => []OutputsShown
<1>1. TerminalsInit => OutputsInv
    BY OutputsInit
<1>2. OutputsInv /\ [TerminalsNext]_terminalsVars => OutputsInv'
    BY OutputsNext
<1>3. OutputsInv => OutputsShown
    BY OutputsInvShown
<1>. QED BY <1>1, <1>2, <1>3, PTL DEF TerminalsSpec

----------------------------------------------------------------------------
(* Induction over a set of numbers, from the order on them.                *)

LessThan == {p \in Nat \X Nat : p[1] < p[2]}

LEMMA LeastNumber ==
    ASSUME NEW T, T \subseteq Nat, T # {}
    PROVE  \E x \in T : \A y \in T : x <= y
<1>1. IsWellFoundedOn(LessThan, Nat)
    BY NatLessThanWellFounded, Zenon DEF OpToRel, LessThan
<1>2. PICK x \in T : \A y \in T : ~(<<y, x>> \in LessThan)
    BY <1>1, WFMin, Zenon
<1>3. \A y \in T : ~(y < x)
    BY <1>2 DEF LessThan
<1>. QED BY <1>3

LEMMA NumbersInduct ==
    ASSUME NEW S, 0 \in S, \A i \in Nat : i \in S => i + 1 \in S
    PROVE  Nat \subseteq S
<1>. SUFFICES ASSUME Nat \ S # {} PROVE FALSE
    OBVIOUS
<1>1. PICK x \in Nat \ S : \A y \in Nat \ S : x <= y
    BY LeastNumber
<1>2. x # 0 /\ x - 1 \in Nat /\ x - 1 \notin Nat \ S
    BY <1>1
<1>. QED BY <1>1, <1>2

----------------------------------------------------------------------------
(* The settings of VMs. Both parts of SettingsConsistent need what an      *)
(* update or a capture is about to do: while no two requests overlapped    *)
(* and none failed, the specification that an update will save says of     *)
(* every VM what minimega has, but for the labels it is about to set; and  *)
(* the position a capture was resolved to is wired as the interface it was *)
(* asked for, because an interface of a VM that was not moved is on its    *)
(* own VLAN or on none.                                                    *)

SpecRecord == [size : Nat \ {0}, tags : TagMaps]
Specs == [Nodes -> SpecRecord]
UpdateLabels == {"get", "check", "net", "clear", "tag", "save", "write"}

LiveRecord(v) ==
    \/ live[v] = NotLaunched
    \/ /\ live[v] = [size |-> live[v].size, tags |-> live[v].tags, nets |-> live[v].nets]
       /\ live[v].size \in Nat \ {0} /\ live[v].tags \in TagMaps
       /\ live[v].nets = [i \in Positions(v) |-> live[v].nets[i]]

IsUpdate(u) ==
    /\ u = [at |-> u.at, todo |-> u.todo, change |-> u.change, copy |-> u.copy, tags |-> u.tags, up |-> u.up]
    /\ u.at \in UpdateLabels /\ u.change \in SettingChanges /\ u.up \in BOOLEAN
    /\ u.at # "get" => u.copy \in Specs
    /\ u.at # "get" /\ Head(u.todo) \in Nodes => u.tags = NoChange \/ u.tags \in TagMaps
    /\ u.at \in {"clear", "tag"} /\ Head(u.todo) \in Nodes => u.tags \in TagMaps

IsCapture(u) == u = [at |-> "capture", vm |-> u.vm, pos |-> u.pos, name |-> u.name]

SettingsTyped ==
    /\ stored = [up |-> stored.up, spec |-> stored.spec] /\ stored.up \in BOOLEAN /\ stored.spec \in Specs
    /\ live = [v \in Nodes |-> live[v]] /\ \A v \in Nodes : LiveRecord(v)
    /\ starting = NoChange \/ starting \in Specs
    /\ user = [r \in SettingUsers |-> user[r]]
    /\ \A r \in SettingUsers : user[r] = Rested \/ IsCapture(user[r]) \/ IsUpdate(user[r])
    /\ crossed \in BOOLEAN /\ setFaults \in Nat

\* Captures.
Wired ==
    \A v \in Nodes : Launched(v) /\ v \notin moved =>
        \A i \in Positions(v) : live[v].nets[i] \in {"disconnected", IfacesOf(v)[WiredAs[v][i]].vlan}

NameIsRight(v, pos, name) ==
    (name # Unnamed /\ \A i, j \in Positions(v) : i # j => IfacesOf(v)[i].vlan # IfacesOf(v)[j].vlan) =>
        IfacesOf(v)[WiredAs[v][pos]].name = name

CapturesAsked == \A r \in SettingUsers : user[r].at = "capture" => NameIsRight(user[r].vm, user[r].pos, user[r].name)

CapturesInv == Wired /\ CapturesAsked /\ CapturesNamed

\* Updates.
Updating(r) == user[r].at \in UpdateLabels
SameTags(v) == live[v].tags = stored.spec[v].tags

Doing(r) ==
    /\ user[r].at \in {"get", "check", "net", "clear"} => (stored.up => \A v \in Nodes : SameTags(v))
    /\ user[r].at \in {"check", "net", "clear", "tag"} => user[r].copy = stored.spec
    /\ user[r].at \in {"net", "clear", "tag"} => stored.up
    /\ user[r].at = "tag" =>
        \A v \in Nodes : IF v = Target(r) THEN \A k \in TagKeys : live[v].tags[k] \in {Untagged[k], user[r].tags[k]}
                         ELSE SameTags(v)
    /\ user[r].at \in {"save", "write"} /\ stored.up =>
        \A v \in Nodes : user[r].copy[v].tags = live[v].tags /\ user[r].copy[v].size = stored.spec[v].size
    /\ user[r].at = "write" => user[r].up = stored.up

Agreeing ==
    /\ \A q, r \in SettingUsers : Updating(q) /\ Updating(r) => q = r
    /\ starting # NoChange => ~stored.up /\ starting = stored.spec /\ \A r \in SettingUsers : ~Updating(r)
    /\ ~stored.up => \A v \in Nodes : live[v] = NotLaunched
    /\ stored.up => \A v \in Nodes : live[v] # NotLaunched /\ live[v].size \in {stored.spec[v].size, RedeploySize}
    /\ stored.up /\ (\A r \in SettingUsers : ~Updating(r)) => \A v \in Nodes : SameTags(v)
    /\ \A r \in SettingUsers : Updating(r) => Doing(r)

UpdatesInv == ~crossed /\ setFaults = 0 => Agreeing

SettingsInv == SettingsTyped /\ CapturesInv /\ UpdatesInv

LEMMA SettingsEnough == SettingsInv => SettingsConsistent
<1>. SUFFICES ASSUME SettingsInv PROVE SettingsConsistent
    OBVIOUS
<1>1. \A r \in SettingUsers : user[r].at \in {"rest", "capture"} => ~Updating(r)
    BY DEF Updating, UpdateLabels
<1>2. SettingsAgree
    BY <1>1 DEF SettingsInv, UpdatesInv, Agreeing, SettingsAgree, SameTags
<1>. QED BY <1>2 DEF SettingsInv, CapturesInv, SettingsConsistent

LEMMA UntaggedIs == Untagged \in TagMaps
BY SettingsAssumption DEF TagMaps

LEMMA ChangedTags == ASSUME NEW c \in SettingChanges, c.tags # NoChange PROVE c.tags \in TagMaps
<1>1. c.tags = [k \in TagKeys |-> c.tags[k]]
    BY SettingsAssumption
<1>2. \A k \in TagKeys : c.tags[k] \in {d.tags[j] : d \in {e \in SettingChanges : e.tags # NoChange}, j \in TagKeys}
    OBVIOUS
<1>. QED BY <1>1, <1>2 DEF TagMaps

\* A VM that is launched has a size, one that is not has none.
LEMMA LaunchedHasSize ==
    ASSUME SettingsTyped, NEW v \in Nodes
    PROVE  /\ Launched(v) <=> live[v].size # 0
           /\ Launched(v) => /\ live[v] = [size |-> live[v].size, tags |-> live[v].tags, nets |-> live[v].nets]
                             /\ live[v].size \in Nat \ {0} /\ live[v].tags \in TagMaps
                             /\ live[v].nets = [i \in Positions(v) |-> live[v].nets[i]]
BY DEF SettingsTyped, LiveRecord, Launched, NotLaunched

LEMMA SettingsBegin == SettingsInit => SettingsInv
<1>. SUFFICES ASSUME SettingsInit PROVE SettingsInv
    OBVIOUS
<1>1. stored.up = FALSE /\ stored.spec = [v \in Nodes |-> [size |-> 1, tags |-> Untagged]]
    BY DEF SettingsInit
<1>2. stored.spec \in Specs
    BY <1>1, UntaggedIs DEF Specs, SpecRecord
<1>3. \A r \in SettingUsers : user[r] = Rested /\ user[r].at = "rest"
    BY DEF SettingsInit, Rested
<1>4. SettingsTyped
    BY <1>1, <1>2, <1>3 DEF SettingsInit, SettingsTyped, LiveRecord
<1>5. CapturesInv
    BY <1>3 DEF SettingsInit, CapturesInv, Wired, CapturesAsked, CapturesNamed, Launched
<1>6. \A r \in SettingUsers : ~Updating(r)
    BY <1>3 DEF Updating, UpdateLabels
<1>7. UpdatesInv
    BY <1>1, <1>6 DEF SettingsInit, UpdatesInv, Agreeing
<1>. QED BY <1>4, <1>5, <1>7 DEF SettingsInv

\* What is said of updates is not about where interfaces are connected, nor
\* about a redeploy's size, nor about captures.
LEMMA AgreeingKept ==
    ASSUME SettingsInv, SettingsTyped', UNCHANGED <<stored, starting, crossed>>, setFaults' >= setFaults,
           \A r \in SettingUsers : user'[r] = user[r] \/ (~Updating(r) /\ ~Updating(r)'),
           \A v \in Nodes : live'[v] = live[v] \/
               (/\ live[v] # NotLaunched /\ live'[v] # NotLaunched
                /\ live'[v].tags = live[v].tags /\ live'[v].size \in {live[v].size, RedeploySize})
    PROVE  UpdatesInv'
<1>. SUFFICES ASSUME ~crossed, setFaults = 0
              PROVE  Agreeing'
    BY DEF UpdatesInv, SettingsInv, SettingsTyped
<1>1. Agreeing
    BY DEF SettingsInv, UpdatesInv
<1>2. \A r \in SettingUsers : Updating(r)' => Updating(r) /\ user'[r] = user[r]
    BY DEF Updating
<1>3. \A r \in SettingUsers : Updating(r) => Updating(r)'
    BY DEF Updating
<1>4. \A v \in Nodes : live'[v].tags = live[v].tags /\ (live'[v] = NotLaunched <=> live[v] = NotLaunched)
    OBVIOUS
<1>5. \A v \in Nodes : live'[v].size \in {live[v].size, RedeploySize}
    OBVIOUS
<1>6. \A v \in Nodes : SameTags(v)' <=> SameTags(v)
    BY <1>4 DEF SameTags
<1>7. ASSUME NEW r \in SettingUsers, Updating(r)'
      PROVE  Doing(r)'
    BY <1>1, <1>2, <1>4, <1>6, <1>7 DEF Agreeing, Doing, Target
<1>. QED BY <1>1, <1>2, <1>3, <1>4, <1>5, <1>6, <1>7 DEF Agreeing

LEMMA CapturesKept ==
    ASSUME SettingsInv, UNCHANGED <<moved, captures>>,
           \A r \in SettingUsers : user'[r].at = "capture" => user'[r] = user[r],
           \A v \in Nodes : Launched(v)' => Launched(v) /\ live'[v].nets = live[v].nets
    PROVE  CapturesInv'
<1>1. Wired'
    BY DEF SettingsInv, CapturesInv, Wired
<1>2. CapturesAsked'
    BY DEF SettingsInv, CapturesInv, CapturesAsked, NameIsRight
<1>3. CapturesNamed'
    BY DEF SettingsInv, CapturesInv, CapturesNamed
<1>. QED BY <1>1, <1>2, <1>3 DEF CapturesInv

\* A request goes on to u.
LEMMA UserTyped ==
    ASSUME SettingsInv, NEW r \in SettingUsers, NEW u, u = Rested \/ IsCapture(u) \/ IsUpdate(u), user' = [user EXCEPT ![r] = u]
    PROVE  /\ user'[r] = u /\ \A q \in SettingUsers : q # r => user'[q] = user[q]
           /\ user' = [q \in SettingUsers |-> user'[q]]
           /\ \A q \in SettingUsers : user'[q] = Rested \/ IsCapture(user'[q]) \/ IsUpdate(user'[q])
<1>1. user = [q \in SettingUsers |-> user[q]]
    BY DEF SettingsInv, SettingsTyped
<1>2. user'[r] = u /\ \A q \in SettingUsers : q # r => user'[q] = user[q]
    BY <1>1
<1>3. user' = [q \in SettingUsers |-> user'[q]]
    BY <1>1
<1>4. ASSUME NEW q \in SettingUsers
      PROVE  user'[q] = Rested \/ IsCapture(user'[q]) \/ IsUpdate(user'[q])
    BY <1>2, Zenon DEF SettingsInv, SettingsTyped
<1>. QED BY <1>2, <1>3, <1>4

LEMMA NotUpdating ==
    ASSUME NEW r \in SettingUsers, user[r].at \in {"rest", "capture"}
    PROVE  ~Updating(r)
BY DEF Updating, UpdateLabels

LEMMA RestedIs == Rested.at = "rest"
BY DEF Rested

LEMMA UpdateCaptures ==
    ASSUME SettingsInv, NEW r \in SettingUsers, NEW u, u = Rested \/ IsUpdate(u), user' = [user EXCEPT ![r] = u],
           UNCHANGED <<moved, captures>>, \A v \in Nodes : Launched(v)' => Launched(v) /\ live'[v].nets = live[v].nets
    PROVE  CapturesInv'
<1>1. user'[r] = u /\ \A q \in SettingUsers : q # r => user'[q] = user[q]
    BY UserTyped
<1>2. u.at # "capture"
    BY RestedIs DEF IsUpdate, UpdateLabels
<1>. QED BY <1>1, <1>2, CapturesKept

\* The request r of an update goes on while nothing else changes but, with
\* it, the tags minimega has, and what is stored.
LEMMA UpdateGoesOn ==
    ASSUME SettingsInv, NEW r \in SettingUsers, Updating(r), NEW u, u = Rested \/ IsUpdate(u), user' = [user EXCEPT ![r] = u],
           UNCHANGED <<starting, crossed, setFaults>>, CapturesInv',
           stored' = [up |-> stored'.up, spec |-> stored'.spec], stored'.up \in BOOLEAN, stored'.spec \in Specs,
           live' = [v \in Nodes |-> live'[v]], \A v \in Nodes : LiveRecord(v)',
           Agreeing => /\ stored'.up = stored.up /\ (~stored.up => live' = live)
                       /\ stored.up => \A v \in Nodes : live'[v] # NotLaunched /\ live'[v].size = live[v].size
                                                        /\ stored'.spec[v].size = stored.spec[v].size
                       /\ u = Rested => (stored.up => \A v \in Nodes : SameTags(v)')
                       /\ u # Rested => Doing(r)'
    PROVE  SettingsInv'
<1>1. user'[r] = u /\ \A q \in SettingUsers : q # r => user'[q] = user[q]
    BY UserTyped
<1>2. SettingsTyped'
    BY UserTyped DEF SettingsInv, SettingsTyped
<1>4. UpdatesInv'
  <2>. SUFFICES ASSUME ~crossed, setFaults = 0
                PROVE  Agreeing'
      BY DEF UpdatesInv
  <2>1. Agreeing
      BY DEF SettingsInv, UpdatesInv
  <2>2. starting = NoChange /\ \A q \in SettingUsers : q # r => ~Updating(q)
      BY <2>1 DEF Agreeing
  <2>3. \A q \in SettingUsers : q # r => ~Updating(q)'
      BY <1>1, <2>2 DEF Updating
  <2>4. Updating(r)' <=> u # Rested
    <3>1. u = Rested => ~Updating(r)'
        BY <1>1, RestedIs DEF Updating, UpdateLabels
    <3>2. u # Rested => Updating(r)'
        BY <1>1 DEF Updating, IsUpdate
    <3>. QED BY <3>1, <3>2
  <2>5. starting' = NoChange
      BY <2>2
  <2>6. ~stored'.up => \A v \in Nodes : live'[v] = NotLaunched
      BY <2>1 DEF Agreeing
  <2>7. stored'.up => \A v \in Nodes : live'[v] # NotLaunched /\ live'[v].size \in {stored'.spec[v].size, RedeploySize}
      BY <2>1 DEF Agreeing
  <2>8. stored'.up /\ (\A q \in SettingUsers : ~Updating(q)') => \A v \in Nodes : SameTags(v)'
      BY <2>1, <2>4
  <2>9. \A q \in SettingUsers : Updating(q)' => Doing(q)'
      BY <2>1, <2>3, <2>4
  <2>. QED BY <2>3, <2>5, <2>6, <2>7, <2>8, <2>9 DEF Agreeing
<1>. QED BY <1>2, <1>4 DEF SettingsInv

LEMMA StoredAlone ==
    ASSUME SettingsInv, UNCHANGED stored
    PROVE  stored' = [up |-> stored'.up, spec |-> stored'.spec] /\ stored'.up \in BOOLEAN /\ stored'.spec \in Specs
BY DEF SettingsInv, SettingsTyped

LEMMA LiveAlone ==
    ASSUME SettingsInv, UNCHANGED live
    PROVE  /\ live' = [v \in Nodes |-> live'[v]]
           /\ \A v \in Nodes : LiveRecord(v)' /\ (Launched(v)' => Launched(v) /\ live'[v].nets = live[v].nets)
BY DEF SettingsInv, SettingsTyped, LiveRecord, Launched

\* The same when nothing else changes.
LEMMA UpdateAlone ==
    ASSUME SettingsInv, NEW r \in SettingUsers, Updating(r), NEW u, u = Rested \/ IsUpdate(u), user' = [user EXCEPT ![r] = u],
           UNCHANGED <<stored, live, captures, starting, moved, crossed, setFaults>>,
           Agreeing => /\ u = Rested => (stored.up => \A v \in Nodes : SameTags(v))
                       /\ u # Rested => Doing(r)'
    PROVE  SettingsInv'
<1>1. \A v \in Nodes : SameTags(v)' <=> SameTags(v)
    BY DEF SameTags
<1>2. Agreeing /\ stored.up => \A v \in Nodes : live'[v] # NotLaunched
    BY DEF Agreeing
<1>3. CapturesInv'
    BY LiveAlone, UpdateCaptures
<1>. QED BY <1>1, <1>2, <1>3, StoredAlone, LiveAlone, UpdateGoesOn

LEMMA Labels ==
    ASSUME NEW r, NEW label \in {"check", "net", "clear", "tag", "save", "write", "get"}, user[r].at = label
    PROVE  Updating(r)
BY DEF Updating, UpdateLabels

LEMMA UpdateTyped ==
    ASSUME SettingsInv, NEW r \in SettingUsers, Updating(r)
    PROVE  IsUpdate(user[r])
BY RestedIs DEF SettingsInv, SettingsTyped, Updating, UpdateLabels, IsCapture

LEMMA MergedTags ==
    ASSUME NEW c \in SettingChanges, NEW old \in TagMaps
    PROVE  MergesTags(c, old) = NoChange \/ MergesTags(c, old) \in TagMaps
<1>1. CASE c.tags # NoChange /\ c.append
  <2>1. c.tags \in TagMaps
      BY <1>1, ChangedTags
  <2>2. MergesTags(c, old) = [k \in TagKeys |-> IF c.tags[k] = Untagged[k] THEN old[k] ELSE c.tags[k]]
      BY <1>1 DEF MergesTags
  <2>. QED BY <2>1, <2>2 DEF TagMaps
<1>2. CASE ~(c.tags # NoChange /\ c.append)
    BY <1>2, ChangedTags DEF MergesTags
<1>. QED BY <1>1, <1>2

\* The VM an update is at may be none of the topology, for all that is known
\* of it here: then nothing of it is changed.
LEMMA SettingsReads ==
    ASSUME SettingsInv, NEW r \in SettingUsers, ReadsSettings(r)
    PROVE  SettingsInv'
<1>1. Updating(r) /\ user[r].at = "get"
    BY DEF ReadsSettings, Updating, UpdateLabels
<1>2. IsUpdate(user[r])
    BY <1>1, UpdateTyped
<1>3. PICK t : t = MergesTags(user[r].change, stored.spec[Target(r)].tags)
    OBVIOUS
<1>4. PICK u : u = [user[r] EXCEPT !.at = "check", !.copy = stored.spec, !.tags = t]
    OBVIOUS
<1>5. user' = [user EXCEPT ![r] = u]
    BY <1>3, <1>4 DEF ReadsSettings, SettingsInv, SettingsTyped
<1>6. u = [at |-> "check", todo |-> user[r].todo, change |-> user[r].change, copy |-> stored.spec, tags |-> t, up |-> user[r].up]
    BY <1>2, <1>4 DEF IsUpdate
<1>7. Target(r) \in Nodes => t = NoChange \/ t \in TagMaps
  <2>1. user[r].change \in SettingChanges
      BY <1>2 DEF IsUpdate
  <2>2. Target(r) \in Nodes => stored.spec[Target(r)].tags \in TagMaps
      BY DEF SettingsInv, SettingsTyped, Specs, SpecRecord
  <2>. QED BY <1>3, <2>1, <2>2, MergedTags
<1>8. IsUpdate(u) /\ u # Rested
  <2>1. u.at = "check" /\ u.copy = stored.spec /\ u.tags = t /\ u.todo = user[r].todo /\ u.change = user[r].change /\ u.up = user[r].up
      BY <1>6
  <2>2. u.copy \in Specs
      BY <2>1 DEF SettingsInv, SettingsTyped
  <2>3. u.up \in BOOLEAN /\ u.change \in SettingChanges
      BY <1>2, <2>1 DEF IsUpdate
  <2>. QED BY <1>6, <1>7, <2>1, <2>2, <2>3, RestedIs DEF IsUpdate, Target, UpdateLabels
<1>9. UNCHANGED <<stored, live, captures, starting, moved, crossed, setFaults>>
    BY DEF ReadsSettings, SetCounts
<1>10. Agreeing => Doing(r)'
  <2>1. user'[r] = u /\ u.at = "check" /\ u.copy = stored.spec
      BY <1>5, <1>6, <1>8, UserTyped
  <2>2. Agreeing => (stored.up => \A v \in Nodes : SameTags(v))
      BY <1>1 DEF Agreeing, Doing
  <2>. QED BY <1>9, <2>1, <2>2 DEF Doing, SameTags
<1>. QED BY <1>1, <1>5, <1>8, <1>9, <1>10, UpdateAlone
LEMMA SettingsCheck ==
    ASSUME SettingsInv, NEW r \in SettingUsers, ChecksRunning(r)
    PROVE  SettingsInv'
<1>1. Updating(r) /\ user[r].at = "check"
    BY DEF ChecksRunning, Updating, UpdateLabels
<1>2. IsUpdate(user[r])
    BY <1>1, UpdateTyped
<1>3. UNCHANGED <<stored, live, captures, starting, moved, crossed, setFaults>>
    BY DEF ChecksRunning, SetCounts
<1>4. user[r].copy \in Specs /\ (Target(r) \in Nodes => user[r].tags = NoChange \/ user[r].tags \in TagMaps)
    BY <1>1, <1>2 DEF IsUpdate, Target
<1>5. Agreeing => user[r].copy = stored.spec /\ (stored.up => \A v \in Nodes : SameTags(v))
    BY <1>1 DEF Agreeing, Doing
<1>6. user = [q \in SettingUsers |-> user[q]]
    BY DEF SettingsInv, SettingsTyped
<1>7. CASE UpdateFails(r)
    BY <1>1, <1>3, <1>5, <1>7, UpdateAlone DEF UpdateFails
<1>8. ASSUME NEW label \in {"net", "clear"}, user' = [user EXCEPT ![r].at = label], stored.up, label = "clear" => user[r].tags # NoChange
      PROVE  SettingsInv'
  <2>1. PICK u : u = [user[r] EXCEPT !.at = label]
      OBVIOUS
  <2>2. user' = [user EXCEPT ![r] = u]
      BY <1>6, <1>8, <2>1
  <2>3. u = [at |-> label, todo |-> user[r].todo, change |-> user[r].change, copy |-> user[r].copy, tags |-> user[r].tags, up |-> user[r].up]
      BY <1>2, <2>1 DEF IsUpdate
  <2>4. u.at = label /\ u.copy = user[r].copy /\ u.tags = user[r].tags /\ u.todo = user[r].todo /\ u.change = user[r].change /\ u.up = user[r].up
      BY <2>3
  <2>5. IsUpdate(u) /\ u # Rested
      BY <1>2, <1>4, <1>8, <2>3, <2>4, RestedIs DEF IsUpdate, Target, UpdateLabels
  <2>6. user'[r] = u
      BY <2>2, <2>5, UserTyped
  <2>7. Agreeing => Doing(r)'
      BY <1>3, <1>5, <1>8, <2>4, <2>6 DEF Doing, SameTags
  <2>. QED BY <1>1, <1>3, <2>2, <2>5, <2>7, UpdateAlone
<1>9. ASSUME user' = [user EXCEPT ![r].at = "save", ![r].copy = Changed(r)], ~stored.up
      PROVE  SettingsInv'
  <2>1. PICK u : u = [user[r] EXCEPT !.at = "save", !.copy = Changed(r)]
      OBVIOUS
  <2>2. user' = [user EXCEPT ![r] = u]
      BY <1>6, <1>9, <2>1
  <2>3. u = [at |-> "save", todo |-> user[r].todo, change |-> user[r].change, copy |-> Changed(r), tags |-> user[r].tags, up |-> user[r].up]
      BY <1>2, <2>1 DEF IsUpdate
  <2>4. u.at = "save" /\ u.copy = Changed(r) /\ u.tags = user[r].tags /\ u.todo = user[r].todo /\ u.change = user[r].change /\ u.up = user[r].up
      BY <2>3
  <2>5. Changed(r) \in Specs
    <3>1. PICK new : new = [size |-> IF user[r].change.size = NoChange THEN user[r].copy[Target(r)].size ELSE user[r].change.size,
                            tags |-> IF user[r].tags = NoChange THEN user[r].copy[Target(r)].tags ELSE user[r].tags]
        OBVIOUS
    <3>2. Changed(r) = [user[r].copy EXCEPT ![Target(r)] = new]
        BY <1>4, <3>1 DEF Changed, Specs
    <3>3. user[r].change.size # NoChange => user[r].change.size \in Nat \ {0}
        BY <1>2, SettingsAssumption DEF IsUpdate
    <3>4. Target(r) \in Nodes => new \in SpecRecord
        BY <1>4, <3>1, <3>3 DEF Specs, SpecRecord
    <3>. QED BY <1>4, <3>2, <3>4 DEF Specs
  <2>6. IsUpdate(u) /\ u # Rested
      BY <1>2, <1>4, <2>3, <2>4, <2>5, RestedIs DEF IsUpdate, Target, UpdateLabels
  <2>7. user'[r] = u
      BY <2>2, <2>6, UserTyped
  <2>8. Doing(r)'
      BY <1>3, <1>9, <2>4, <2>7 DEF Doing
  <2>. QED BY <1>1, <1>3, <2>2, <2>6, <2>8, UpdateAlone
<1>. QED BY <1>7, <1>8, <1>9 DEF ChecksRunning

\* The next VM, or the end: the specification and minimega agree here.
LEMMA NextOfUpdate ==
    ASSUME SettingsInv, NEW r \in SettingUsers, Updating(r), NextTarget(r)
    PROVE  \E u : (u = Rested \/ (IsUpdate(u) /\ u.at = "get")) /\ user' = [user EXCEPT ![r] = u]
<1>1. IsUpdate(user[r]) /\ user = [q \in SettingUsers |-> user[q]]
    BY UpdateTyped DEF SettingsInv, SettingsTyped
<1>2. CASE Len(user[r].todo) = 1
    BY <1>1, <1>2 DEF NextTarget
<1>3. CASE Len(user[r].todo) # 1
  <2>1. PICK u : u = [user[r] EXCEPT !.at = "get", !.todo = Tail(user[r].todo)]
      OBVIOUS
  <2>2. user' = [user EXCEPT ![r] = u]
      BY <1>1, <1>3, <2>1 DEF NextTarget
  <2>3. u = [at |-> "get", todo |-> Tail(user[r].todo), change |-> user[r].change, copy |-> user[r].copy, tags |-> user[r].tags, up |-> user[r].up]
      BY <1>1, <2>1 DEF IsUpdate
  <2>4. IsUpdate(u) /\ u.at = "get"
      BY <1>1, <2>3 DEF IsUpdate, UpdateLabels
  <2>. QED BY <2>2, <2>4
<1>. QED BY <1>2, <1>3

\* An interface is connected elsewhere.
LEMMA Reconnects ==
    ASSUME SettingsInv, NEW v, NEW pos, NEW vlan, Launched(v), Reconnected(v, pos, vlan)
    PROVE  /\ live' = [w \in Nodes |-> live'[w]] /\ Wired'
           /\ \A w \in Nodes : /\ LiveRecord(w)' /\ live'[w].tags = live[w].tags /\ live'[w].size = live[w].size
                               /\ (live'[w] = NotLaunched <=> live[w] = NotLaunched)
<1>1. live = [w \in Nodes |-> live[w]]
    BY DEF SettingsInv, SettingsTyped
<1>2. CASE v \notin Nodes
  <2>1. live' = live /\ moved \subseteq moved'
      BY <1>1, <1>2 DEF Reconnected
  <2>. QED BY <2>1, LiveAlone DEF SettingsInv, CapturesInv, Wired, Launched
<1>3. CASE v \in Nodes
  <2>1. PICK l : l = live[v]
      OBVIOUS
  <2>2. /\ l = [size |-> l.size, tags |-> l.tags, nets |-> l.nets] /\ l.size \in Nat \ {0} /\ l.tags \in TagMaps
        /\ l.nets = [i \in Positions(v) |-> l.nets[i]]
      BY <1>3, <2>1, LaunchedHasSize DEF SettingsInv
  <2>3. PICK m : m = [l EXCEPT !.nets[pos] = vlan]
      OBVIOUS
  <2>4. PICK nets : nets = [l.nets EXCEPT ![pos] = vlan]
      OBVIOUS
  <2>5. m = [size |-> l.size, tags |-> l.tags, nets |-> nets]
      BY <2>2, <2>3, <2>4
  <2>6. live' = [live EXCEPT ![v] = m]
      BY <1>1, <2>1, <2>3 DEF Reconnected
  <2>7. live'[v] = m /\ \A w \in Nodes : w # v => live'[w] = live[w]
      BY <1>1, <1>3, <2>6
  <2>8. nets = [i \in Positions(v) |-> nets[i]] /\ \A i \in Positions(v) : nets[i] = IF i = pos THEN vlan ELSE l.nets[i]
      BY <2>2, <2>4
  <2>9. live' = [w \in Nodes |-> live'[w]]
      BY <1>1, <2>6
  <2>10. m.size = l.size /\ m.tags = l.tags /\ m.nets = nets /\ m # NotLaunched /\ l # NotLaunched
      BY <2>2, <2>5 DEF NotLaunched
  <2>11. LiveRecord(v)'
      BY <2>2, <2>5, <2>7, <2>8, <2>10 DEF LiveRecord
  <2>12. \A w \in Nodes : w # v => LiveRecord(w)'
      BY <2>7 DEF SettingsInv, SettingsTyped, LiveRecord
  <2>13. Wired'
    <3>1. moved \subseteq moved'
        BY DEF Reconnected
    <3>2. ASSUME NEW w \in Nodes, w # v, Launched(w)', w \notin moved', NEW i \in Positions(w)
          PROVE  live'[w].nets[i] \in {"disconnected", IfacesOf(w)[WiredAs[w][i]].vlan}
        BY <2>7, <3>1, <3>2 DEF SettingsInv, CapturesInv, Wired, Launched
    <3>3. ASSUME v \notin moved', NEW i \in Positions(v)
          PROVE  live'[v].nets[i] \in {"disconnected", IfacesOf(v)[WiredAs[v][i]].vlan}
      <4>1. vlan \in {"disconnected", IfacesOf(v)[WiredAs[v][pos]].vlan}
          BY <3>3 DEF Reconnected
      <4>2. l.nets[i] \in {"disconnected", IfacesOf(v)[WiredAs[v][i]].vlan}
          BY <1>3, <2>1, <3>1, <3>3 DEF SettingsInv, CapturesInv, Wired
      <4>. QED BY <2>7, <2>8, <2>10, <4>1, <4>2
    <3>. QED BY <3>2, <3>3 DEF Wired
  <2>. QED BY <2>1, <2>7, <2>9, <2>10, <2>11, <2>12, <2>13
<1>. QED BY <1>2, <1>3

\* An update of r that goes to label, all else of it as it was.
LEMMA GoesTo ==
    ASSUME SettingsInv, NEW r \in SettingUsers, Updating(r), user[r].at # "get", NEW label \in UpdateLabels \ {"get"},
           user' = [user EXCEPT ![r].at = label], label \notin {"clear", "tag"} \/ (Target(r) \in Nodes => user[r].tags \in TagMaps)
    PROVE  \E u : /\ IsUpdate(u) /\ u # Rested /\ user' = [user EXCEPT ![r] = u] /\ user'[r] = u
                  /\ u.at = label /\ u.copy = user[r].copy /\ u.tags = user[r].tags /\ u.todo = user[r].todo /\ u.up = user[r].up
<1>1. IsUpdate(user[r]) /\ user = [q \in SettingUsers |-> user[q]]
    BY UpdateTyped DEF SettingsInv, SettingsTyped
<1>2. PICK u : u = [user[r] EXCEPT !.at = label]
    OBVIOUS
<1>3. user' = [user EXCEPT ![r] = u]
    BY <1>1, <1>2
<1>4. u = [at |-> label, todo |-> user[r].todo, change |-> user[r].change, copy |-> user[r].copy, tags |-> user[r].tags, up |-> user[r].up]
    BY <1>1, <1>2 DEF IsUpdate
<1>5. u.at = label /\ u.copy = user[r].copy /\ u.tags = user[r].tags /\ u.todo = user[r].todo /\ u.change = user[r].change /\ u.up = user[r].up
    BY <1>4
<1>6. u.copy \in Specs /\ u.change \in SettingChanges /\ u.up \in BOOLEAN
    BY <1>1, <1>5 DEF IsUpdate
<1>7. Head(u.todo) \in Nodes => u.tags = NoChange \/ u.tags \in TagMaps
    BY <1>1, <1>5 DEF IsUpdate
<1>8. IsUpdate(u) /\ u # Rested
    BY <1>4, <1>5, <1>6, <1>7, RestedIs DEF IsUpdate, Target, UpdateLabels
<1>9. user'[r] = u
    BY <1>1, <1>3
<1>. QED BY <1>3, <1>5, <1>8, <1>9

LEMMA SettingsConnect ==
    ASSUME SettingsInv, NEW r \in SettingUsers, Connects(r)
    PROVE  SettingsInv'
<1>1. Updating(r) /\ user[r].at = "net"
    BY DEF Connects, Updating, UpdateLabels
<1>2. UNCHANGED <<stored, captures, starting, crossed, setFaults>>
    BY DEF Connects, SetCounts
<1>3. Agreeing => stored.up /\ user[r].copy = stored.spec /\ \A v \in Nodes : SameTags(v)
    BY <1>1 DEF Agreeing, Doing
<1>4. CASE UpdateFails(r) /\ UNCHANGED <<live, moved>>
    BY <1>1, <1>2, <1>3, <1>4, UpdateAlone DEF UpdateFails
<1>5. ASSUME Launched(Target(r)), Reconnected(Target(r), user[r].change.net.pos, user[r].change.net.vlan),
             NEW u, u = Rested \/ (IsUpdate(u) /\ u.at \in {"get", "clear"}), user' = [user EXCEPT ![r] = u],
             u.at = "clear" => u.copy = user[r].copy
      PROVE  SettingsInv'
  <2>1. /\ live' = [w \in Nodes |-> live'[w]] /\ Wired'
        /\ \A w \in Nodes : /\ LiveRecord(w)' /\ live'[w].tags = live[w].tags /\ live'[w].size = live[w].size
                            /\ (live'[w] = NotLaunched <=> live[w] = NotLaunched)
      BY <1>5, Reconnects
  <2>2. user'[r] = u /\ \A q \in SettingUsers : q # r => user'[q] = user[q]
      BY <1>5, UserTyped
  <2>3. CapturesInv'
    <3>1. u.at # "capture"
        BY <1>5, RestedIs
    <3>2. CapturesAsked' /\ CapturesNamed'
        BY <1>2, <2>2, <3>1 DEF SettingsInv, CapturesInv, CapturesAsked, CapturesNamed, NameIsRight
    <3>. QED BY <2>1, <3>2 DEF CapturesInv
  <2>4. Agreeing => \A w \in Nodes : SameTags(w)'
      BY <1>2, <1>3, <2>1 DEF SameTags
  <2>5. Agreeing => (u # Rested => Doing(r)')
    <3>1. u # Rested => u.at \in {"get", "clear"}
        BY <1>5
    <3>. QED BY <1>2, <1>3, <1>5, <2>2, <2>4, <3>1 DEF Doing
  <2>6. Agreeing => \A w \in Nodes : live'[w] # NotLaunched
      BY <1>3, <2>1 DEF Agreeing
  <2>. QED BY <1>1, <1>2, <1>3, <1>5, <2>1, <2>3, <2>4, <2>5, <2>6, StoredAlone, UpdateGoesOn
<1>6. CASE /\ Launched(Target(r)) /\ Reconnected(Target(r), user[r].change.net.pos, user[r].change.net.vlan)
           /\ user[r].tags # NoChange /\ user' = [user EXCEPT ![r].at = "clear"]
  <2>1. Target(r) \in Nodes => user[r].tags \in TagMaps
      BY <1>1, <1>6, UpdateTyped DEF IsUpdate, Target
  <2>2. PICK u : /\ IsUpdate(u) /\ user' = [user EXCEPT ![r] = u] /\ u.at = "clear" /\ u.copy = user[r].copy
    <3>1. "clear" \in UpdateLabels \ {"get"} /\ user[r].at # "get"
        BY <1>1 DEF UpdateLabels
    <3>2. user' = [user EXCEPT ![r].at = "clear"]
        BY <1>6
    <3>3. \E u : /\ IsUpdate(u) /\ u # Rested /\ user' = [user EXCEPT ![r] = u] /\ user'[r] = u
                 /\ u.at = "clear" /\ u.copy = user[r].copy /\ u.tags = user[r].tags /\ u.todo = user[r].todo /\ u.up = user[r].up
        BY <1>1, <2>1, <3>1, <3>2, GoesTo
    <3>. QED BY <3>3, Zenon
  <2>. QED BY <1>5, <1>6, <2>2
<1>7. CASE Launched(Target(r)) /\ Reconnected(Target(r), user[r].change.net.pos, user[r].change.net.vlan) /\ NextTarget(r)
  <2>1. PICK u : (u = Rested \/ (IsUpdate(u) /\ u.at = "get")) /\ user' = [user EXCEPT ![r] = u]
      BY <1>1, <1>7, NextOfUpdate
  <2>. QED BY <1>5, <1>7, <2>1, RestedIs
<1>. QED BY <1>4, <1>6, <1>7 DEF Connects

\* The tags of one VM are set in minimega.
LEMMA TagsSet ==
    ASSUME SettingsInv, NEW v, Launched(v), NEW t, v \in Nodes => t \in TagMaps, live' = [live EXCEPT ![v].tags = t]
    PROVE  /\ live' = [w \in Nodes |-> live'[w]]
           /\ \A w \in Nodes : /\ LiveRecord(w)' /\ live'[w].size = live[w].size /\ live'[w].nets = live[w].nets
                               /\ (live'[w] = NotLaunched <=> live[w] = NotLaunched)
                               /\ live'[w].tags = IF w = v THEN t ELSE live[w].tags
<1>1. live = [w \in Nodes |-> live[w]]
    BY DEF SettingsInv, SettingsTyped
<1>2. CASE v \notin Nodes
  <2>1. live' = live
      BY <1>1, <1>2
  <2>. QED BY <1>2, <2>1, LiveAlone
<1>3. CASE v \in Nodes
  <2>1. PICK l : l = live[v]
      OBVIOUS
  <2>2. /\ l = [size |-> l.size, tags |-> l.tags, nets |-> l.nets] /\ l.size \in Nat \ {0} /\ l.tags \in TagMaps
        /\ l.nets = [i \in Positions(v) |-> l.nets[i]]
      BY <1>3, <2>1, LaunchedHasSize DEF SettingsInv
  <2>3. PICK m : m = [l EXCEPT !.tags = t]
      OBVIOUS
  <2>4. m = [size |-> l.size, tags |-> t, nets |-> l.nets]
      BY <2>2, <2>3
  <2>5. live' = [live EXCEPT ![v] = m]
      BY <1>1, <2>1, <2>3
  <2>6. live'[v] = m /\ (\A w \in Nodes : w # v => live'[w] = live[w]) /\ live' = [w \in Nodes |-> live'[w]]
      BY <1>1, <1>3, <2>5
  <2>7. m.size = l.size /\ m.tags = t /\ m.nets = l.nets
      BY <2>4
  <2>8. m # NotLaunched /\ l # NotLaunched
      BY <2>2, <2>7 DEF NotLaunched
  <2>9. LiveRecord(v)'
      BY <1>3, <2>2, <2>4, <2>6, <2>7 DEF LiveRecord
  <2>10. \A w \in Nodes : w # v => LiveRecord(w)'
      BY <2>6 DEF SettingsInv, SettingsTyped, LiveRecord
  <2>. QED BY <2>1, <2>6, <2>7, <2>8, <2>9, <2>10
<1>. QED BY <1>2, <1>3

LEMMA SettingsClear ==
    ASSUME SettingsInv, NEW r \in SettingUsers, ClearsTags(r)
    PROVE  SettingsInv'
<1>1. Updating(r) /\ user[r].at = "clear"
    BY DEF ClearsTags, Updating, UpdateLabels
<1>2. UNCHANGED <<stored, captures, starting, moved, crossed, setFaults>>
    BY DEF ClearsTags, SetCounts
<1>3. Agreeing => stored.up /\ user[r].copy = stored.spec /\ \A v \in Nodes : SameTags(v)
    BY <1>1 DEF Agreeing, Doing
<1>4. CASE UpdateFails(r) /\ UNCHANGED live
    BY <1>1, <1>2, <1>3, <1>4, UpdateAlone DEF UpdateFails
<1>5. CASE Launched(Target(r)) /\ live' = [live EXCEPT ![Target(r)].tags = Untagged] /\ user' = [user EXCEPT ![r].at = "tag"]
  <2>1. Target(r) \in Nodes => user[r].tags \in TagMaps
      BY <1>1, UpdateTyped DEF IsUpdate, Target
  <2>2. PICK u : /\ IsUpdate(u) /\ u # Rested /\ user' = [user EXCEPT ![r] = u] /\ user'[r] = u
                 /\ u.at = "tag" /\ u.copy = user[r].copy /\ u.tags = user[r].tags /\ u.todo = user[r].todo
    <3>1. "tag" \in UpdateLabels \ {"get"} /\ user[r].at # "get"
        BY <1>1 DEF UpdateLabels
    <3>2. user' = [user EXCEPT ![r].at = "tag"]
        BY <1>5
    <3>3. \E u : /\ IsUpdate(u) /\ u # Rested /\ user' = [user EXCEPT ![r] = u] /\ user'[r] = u
                 /\ u.at = "tag" /\ u.copy = user[r].copy /\ u.tags = user[r].tags /\ u.todo = user[r].todo /\ u.up = user[r].up
        BY <1>1, <2>1, <3>1, <3>2, GoesTo
    <3>. QED BY <3>3, Zenon
  <2>3. PICK v : v = Target(r)
      OBVIOUS
  <2>4. /\ live' = [w \in Nodes |-> live'[w]]
        /\ \A w \in Nodes : /\ LiveRecord(w)' /\ live'[w].size = live[w].size /\ live'[w].nets = live[w].nets
                            /\ (live'[w] = NotLaunched <=> live[w] = NotLaunched)
                            /\ live'[w].tags = IF w = v THEN Untagged ELSE live[w].tags
    <3>1. Launched(v) /\ live' = [live EXCEPT ![v].tags = Untagged]
        BY <1>5, <2>3
    <3>. QED BY <3>1, TagsSet, UntaggedIs
  <2>5. CapturesInv'
      BY <1>2, <2>2, <2>4, UpdateCaptures DEF Launched
  <2>6. Target(r)' = v
      BY <2>2, <2>3 DEF Target
  <2>7. Agreeing => Doing(r)'
      BY <1>2, <1>3, <2>2, <2>4, <2>6 DEF Doing, SameTags
  <2>8. Agreeing => \A w \in Nodes : live'[w] # NotLaunched
      BY <1>3, <2>4 DEF Agreeing
  <2>. QED BY <1>1, <1>2, <1>3, <2>2, <2>4, <2>5, <2>7, <2>8, StoredAlone, UpdateGoesOn
<1>. QED BY <1>4, <1>5 DEF ClearsTags

LEMMA SettingsTag ==
    ASSUME SettingsInv, NEW r \in SettingUsers, SetsTag(r)
    PROVE  SettingsInv'
<1>1. Updating(r) /\ user[r].at = "tag"
    BY DEF SetsTag, Updating, UpdateLabels
<1>2. UNCHANGED <<stored, captures, starting, moved, crossed, setFaults>>
    BY DEF SetsTag, SetCounts
<1>3. PICK v : v = Target(r)
    OBVIOUS
<1>4. PICK t : t = user[r].tags
    OBVIOUS
<1>5. v \in Nodes => t \in TagMaps
    BY <1>1, <1>3, <1>4, UpdateTyped DEF IsUpdate, Target
<1>6. Agreeing => /\ stored.up /\ user[r].copy = stored.spec /\ (\A w \in Nodes : live[w] # NotLaunched)
                  /\ \A w \in Nodes : IF w = v THEN \A k \in TagKeys : live[w].tags[k] \in {Untagged[k], t[k]} ELSE SameTags(w)
    BY <1>1, <1>3, <1>4 DEF Agreeing, Doing
<1>7. CASE ~Launched(Target(r)) /\ UpdateFails(r) /\ UNCHANGED live
  <2>1. Agreeing => \A w \in Nodes : SameTags(w)
      BY <1>3, <1>6, <1>7 DEF Launched
  <2>. QED BY <1>1, <1>2, <1>7, <2>1, UpdateAlone DEF UpdateFails
<1>8. ASSUME NEW k \in TagKeys, Launched(v), live' = [live EXCEPT ![v].tags[k] = t[k]], UNCHANGED user
      PROVE  SettingsInv'
  <2>1. PICK s : s = [live[v].tags EXCEPT ![k] = t[k]]
      OBVIOUS
  <2>2. live' = [live EXCEPT ![v].tags = s]
      BY <1>8, <2>1
  <2>3. v \in Nodes => s \in TagMaps /\ \A j \in TagKeys : s[j] = IF j = k THEN t[j] ELSE live[v].tags[j]
    <3>1. v \in Nodes => live[v].tags \in TagMaps
        BY <1>8, LaunchedHasSize DEF SettingsInv
    <3>. QED BY <1>5, <2>1, <3>1 DEF TagMaps
  <2>4. /\ live' = [w \in Nodes |-> live'[w]]
        /\ \A w \in Nodes : /\ LiveRecord(w)' /\ live'[w].size = live[w].size /\ live'[w].nets = live[w].nets
                            /\ (live'[w] = NotLaunched <=> live[w] = NotLaunched)
                            /\ live'[w].tags = IF w = v THEN s ELSE live[w].tags
      BY <1>8, <2>2, <2>3, TagsSet
  <2>5. PICK u : u = user[r]
      OBVIOUS
  <2>6. IsUpdate(u) /\ u # Rested /\ user' = [user EXCEPT ![r] = u]
      BY <1>1, <1>8, <2>5, UpdateTyped, RestedIs DEF SettingsInv, SettingsTyped
  <2>7. CapturesInv'
      BY <1>2, <2>4, <2>6, UpdateCaptures DEF Launched
  <2>8. Agreeing => Doing(r)'
    <3>1. Target(r)' = v /\ user'[r] = user[r]
        BY <1>3, <1>8 DEF Target
    <3>2. Agreeing => \A w \in Nodes : IF w = v THEN \A j \in TagKeys : live'[w].tags[j] \in {Untagged[j], t[j]} ELSE SameTags(w)'
        BY <1>2, <1>6, <2>3, <2>4 DEF SameTags
    <3>. QED BY <1>1, <1>2, <1>4, <1>6, <3>1, <3>2 DEF Doing
  <2>9. Agreeing => \A w \in Nodes : live'[w] # NotLaunched
      BY <1>6, <2>4
  <2>. QED BY <1>1, <1>2, <1>6, <2>4, <2>6, <2>7, <2>8, <2>9, StoredAlone, UpdateGoesOn
<1>9. CASE Launched(v) /\ Unset(r) = {} /\ UNCHANGED live /\ user' = [user EXCEPT ![r].at = "save", ![r].copy = Labelled(r)]
  <2>1. IsUpdate(user[r]) /\ user = [q \in SettingUsers |-> user[q]]
      BY <1>1, UpdateTyped DEF SettingsInv, SettingsTyped
  <2>2. PICK c : c = Labelled(r)
      OBVIOUS
  <2>3. user[r].copy \in Specs
      BY <1>1, <2>1 DEF IsUpdate
  <2>4. c \in Specs /\ \A w \in Nodes : c[w].size = user[r].copy[w].size /\ c[w].tags = IF w = v THEN t ELSE user[r].copy[w].tags
    <3>1. PICK old : old = user[r].copy
        OBVIOUS
    <3>2. c = [old EXCEPT ![v].tags = t]
        BY <1>3, <1>4, <2>2, <3>1 DEF Labelled
    <3>3. old \in [Nodes -> SpecRecord]
        BY <2>3, <3>1 DEF Specs
    <3>4. CASE v \notin Nodes
      <4>1. c = old
          BY <3>2, <3>3, <3>4
      <4>. QED BY <3>1, <3>3, <3>4, <4>1 DEF Specs
    <3>5. CASE v \in Nodes
      <4>1. PICK o : o = old[v]
          OBVIOUS
      <4>2. PICK n : n = [o EXCEPT !.tags = t]
          OBVIOUS
      <4>3. o \in SpecRecord /\ n \in SpecRecord /\ n.size = o.size /\ n.tags = t
          BY <1>5, <3>3, <3>5, <4>1, <4>2 DEF SpecRecord
      <4>4. c = [old EXCEPT ![v] = n]
          BY <3>2, <4>1, <4>2
      <4>. QED BY <3>1, <3>3, <3>5, <4>1, <4>3, <4>4 DEF Specs
    <3>. QED BY <3>4, <3>5
  <2>5. PICK u : u = [user[r] EXCEPT !.at = "save", !.copy = c]
      OBVIOUS
  <2>6. user' = [user EXCEPT ![r] = u]
      BY <1>9, <2>1, <2>2, <2>5
  <2>7. u = [at |-> "save", todo |-> user[r].todo, change |-> user[r].change, copy |-> c, tags |-> t, up |-> user[r].up]
      BY <1>4, <2>1, <2>5 DEF IsUpdate
  <2>8. u.at = "save" /\ u.copy = c /\ u.tags = t /\ u.todo = user[r].todo /\ u.change = user[r].change /\ u.up = user[r].up
      BY <2>7
  <2>9. IsUpdate(u) /\ u # Rested
      BY <1>3, <1>5, <2>1, <2>4, <2>7, <2>8, RestedIs DEF IsUpdate, Target, UpdateLabels
  <2>10. user'[r] = u
      BY <2>1, <2>6
  <2>11. Agreeing => \A w \in Nodes : c[w].tags = live[w].tags /\ c[w].size = stored.spec[w].size
    <3>1. ASSUME Agreeing, v \in Nodes
          PROVE  live[v].tags = t
      <4>1. \A k \in TagKeys : live[v].tags[k] = t[k] \/ t[k] = Untagged[k]
          BY <1>3, <1>4, <1>9 DEF Unset
      <4>2. \A k \in TagKeys : live[v].tags[k] \in {Untagged[k], t[k]}
          BY <1>6, <3>1
      <4>3. \A k \in TagKeys : live[v].tags[k] = t[k]
          BY <4>1, <4>2
      <4>4. live[v].tags \in TagMaps
          BY <1>9, <3>1, LaunchedHasSize DEF SettingsInv
      <4>. QED BY <1>5, <3>1, <4>3, <4>4 DEF TagMaps
    <3>. QED BY <1>6, <2>4, <3>1 DEF SameTags
  <2>12. Agreeing => Doing(r)'
      BY <1>2, <1>6, <1>9, <2>8, <2>10, <2>11 DEF Doing
  <2>. QED BY <1>1, <1>2, <1>9, <2>6, <2>9, <2>12, UpdateAlone
<1>10. CASE ~Launched(Target(r))
    BY <1>7, <1>10 DEF SetsTag
<1>11. ASSUME Launched(v)
       PROVE  SettingsInv'
  <2>1. \/ \E k \in Unset(r) : live' = [live EXCEPT ![Target(r)].tags[k] = user[r].tags[k]] /\ UNCHANGED user
        \/ Unset(r) = {} /\ UNCHANGED live /\ user' = [user EXCEPT ![r].at = "save", ![r].copy = Labelled(r)]
      BY <1>3, <1>11 DEF SetsTag
  <2>2. CASE \E k \in Unset(r) : live' = [live EXCEPT ![Target(r)].tags[k] = user[r].tags[k]] /\ UNCHANGED user
    <3>1. PICK k \in Unset(r) : live' = [live EXCEPT ![Target(r)].tags[k] = user[r].tags[k]] /\ UNCHANGED user
        BY <2>2
    <3>2. k \in TagKeys /\ live' = [live EXCEPT ![v].tags[k] = t[k]]
        BY <1>3, <1>4, <3>1 DEF Unset
    <3>. QED BY <1>8, <1>11, <3>1, <3>2
  <2>. QED BY <1>9, <1>11, <2>1, <2>2
<1>. QED BY <1>3, <1>10, <1>11

LEMMA SettingsSaveReads ==
    ASSUME SettingsInv, NEW r \in SettingUsers, SaveReads(r)
    PROVE  SettingsInv'
<1>1. Updating(r) /\ user[r].at = "save"
    BY DEF SaveReads, Updating, UpdateLabels
<1>2. IsUpdate(user[r]) /\ user = [q \in SettingUsers |-> user[q]]
    BY <1>1, UpdateTyped DEF SettingsInv, SettingsTyped
<1>3. PICK u : u = [user[r] EXCEPT !.at = "write", !.up = stored.up]
    OBVIOUS
<1>4. user' = [user EXCEPT ![r] = u]
    BY <1>2, <1>3 DEF SaveReads
<1>5. u = [at |-> "write", todo |-> user[r].todo, change |-> user[r].change, copy |-> user[r].copy, tags |-> user[r].tags, up |-> stored.up]
    BY <1>2, <1>3 DEF IsUpdate
<1>6. u.at = "write" /\ u.copy = user[r].copy /\ u.tags = user[r].tags /\ u.todo = user[r].todo /\ u.change = user[r].change /\ u.up = stored.up
    BY <1>5
<1>7. user[r].copy \in Specs /\ (Head(user[r].todo) \in Nodes => user[r].tags = NoChange \/ user[r].tags \in TagMaps)
    BY <1>1, <1>2 DEF IsUpdate
<1>8. stored.up \in BOOLEAN
    BY DEF SettingsInv, SettingsTyped
<1>9. IsUpdate(u) /\ u # Rested
    BY <1>2, <1>5, <1>6, <1>7, <1>8, RestedIs DEF IsUpdate, UpdateLabels
<1>10. user'[r] = u
    BY <1>2, <1>4
<1>11. UNCHANGED <<stored, live, captures, starting, moved, crossed, setFaults>>
    BY DEF SaveReads, SetCounts
<1>12. Agreeing => Doing(r)'
    BY <1>1, <1>6, <1>10, <1>11 DEF Agreeing, Doing
<1>. QED BY <1>1, <1>4, <1>9, <1>11, <1>12, UpdateAlone

LEMMA SettingsSaveWrites ==
    ASSUME SettingsInv, NEW r \in SettingUsers, SaveWrites(r)
    PROVE  SettingsInv'
<1>1. Updating(r) /\ user[r].at = "write"
    BY DEF SaveWrites, Updating, UpdateLabels
<1>2. UNCHANGED <<live, captures, starting, moved, crossed, setFaults>> /\ NextTarget(r)
    BY DEF SaveWrites, SetCounts
<1>3. PICK u : (u = Rested \/ (IsUpdate(u) /\ u.at = "get")) /\ user' = [user EXCEPT ![r] = u]
    BY <1>1, <1>2, NextOfUpdate
<1>4. stored' = [up |-> user[r].up, spec |-> user[r].copy]
    BY DEF SaveWrites
<1>5. user[r].up \in BOOLEAN /\ user[r].copy \in Specs
    BY <1>1, UpdateTyped DEF IsUpdate
<1>6. stored'.up = user[r].up /\ stored'.spec = user[r].copy
    BY <1>4
<1>7. CapturesInv'
    BY <1>2, <1>3, LiveAlone, UpdateCaptures
<1>8. Agreeing => user[r].up = stored.up /\ (stored.up => \A v \in Nodes : SameTags(v)' /\ stored'.spec[v].size = stored.spec[v].size)
    BY <1>1, <1>2, <1>6 DEF Agreeing, Doing, SameTags
<1>9. user'[r] = u
    BY <1>3, UserTyped
<1>10. Agreeing => (u # Rested => Doing(r)')
    BY <1>3, <1>6, <1>8, <1>9 DEF Doing
<1>11. Agreeing /\ stored.up => \A v \in Nodes : live'[v] # NotLaunched /\ live'[v].size = live[v].size
    BY <1>2 DEF Agreeing
<1>. QED BY <1>1, <1>2, <1>3, <1>4, <1>5, <1>6, <1>7, <1>8, <1>10, <1>11, LiveAlone, UpdateGoesOn

\* A fault: what is said of updates ends.
LEMMA SettingsFault ==
    ASSUME SettingsInv, NEW r \in SettingUsers, SettingFails(r)
    PROVE  SettingsInv'
<1>1. user' = [user EXCEPT ![r] = Rested] /\ UNCHANGED <<stored, live, captures, starting, moved, crossed>> /\ setFaults' = setFaults + 1
    BY DEF SettingFails, UpdateFails
<1>2. SettingsTyped'
    BY <1>1, UserTyped DEF SettingsInv, SettingsTyped, LiveRecord
<1>3. CapturesInv'
    BY <1>1, LiveAlone, UpdateCaptures
<1>4. setFaults' # 0
    BY <1>1 DEF SettingsInv, SettingsTyped
<1>. QED BY <1>2, <1>3, <1>4 DEF SettingsInv, UpdatesInv

LEMMA SettingsUpdate ==
    ASSUME SettingsInv, NEW r \in SettingUsers, NEW vs, NEW c \in SettingChanges, BeginsUpdate(r, vs, c)
    PROVE  SettingsInv'
<1>1. PICK u : u = [at |-> "get", todo |-> vs, change |-> c, copy |-> NoChange, tags |-> NoChange, up |-> FALSE]
    OBVIOUS
<1>2. user[r] = Rested /\ user' = [user EXCEPT ![r] = u] /\ UNCHANGED <<stored, live, captures, starting, moved, setFaults>>
    BY <1>1 DEF BeginsUpdate
<1>3. u.at = "get" /\ IsUpdate(u)
    BY <1>1 DEF IsUpdate, UpdateLabels
<1>4. crossed' \in BOOLEAN /\ (~crossed' => ~crossed /\ Others(r) = {} /\ starting = NoChange)
    BY DEF BeginsUpdate, SettingsInv, SettingsTyped
<1>5. SettingsTyped'
    BY <1>2, <1>3, <1>4, UserTyped DEF SettingsInv, SettingsTyped, LiveRecord
<1>6. CapturesInv'
    BY <1>2, <1>3, LiveAlone, UpdateCaptures
<1>7. user'[r] = u /\ \A q \in SettingUsers : q # r => user'[q] = user[q]
    BY <1>2, <1>3, UserTyped
<1>8. ASSUME ~crossed', setFaults = 0
      PROVE  Agreeing'
  <2>1. \A q \in SettingUsers : ~Updating(q)
      BY <1>2, <1>4, <1>8, RestedIs DEF Others, Updating, UpdateLabels
  <2>2. Agreeing
      BY <1>4, <1>8 DEF SettingsInv, UpdatesInv
  <2>3. \A q \in SettingUsers : q # r => ~Updating(q)'
      BY <1>7, <2>1 DEF Updating
  <2>4. \A v \in Nodes : SameTags(v)' <=> SameTags(v)
      BY <1>2 DEF SameTags
  <2>5. Doing(r)' /\ Updating(r)'
      BY <1>3, <1>7, <1>2, <2>1, <2>2, <2>4 DEF Doing, Agreeing, Updating, UpdateLabels
  <2>6. starting' = NoChange
      BY <1>2, <1>4, <1>8
  <2>. QED BY <1>2, <2>2, <2>3, <2>4, <2>5, <2>6 DEF Agreeing
<1>9. UpdatesInv'
    BY <1>2, <1>8 DEF UpdatesInv
<1>. QED BY <1>5, <1>6, <1>9 DEF SettingsInv

LEMMA SettingsStartReads ==
    ASSUME SettingsInv, StartReadsSpec
    PROVE  SettingsInv'
<1>1. ~stored.up /\ starting' = stored.spec /\ UNCHANGED <<stored, live, captures, user, moved, setFaults>>
    BY DEF StartReadsSpec
<1>2. crossed' \in BOOLEAN /\ (~crossed' => ~crossed /\ \A r \in SettingUsers : user[r].at \in {"rest", "capture"})
    BY DEF StartReadsSpec, SettingsInv, SettingsTyped
<1>3. SettingsTyped'
    BY <1>1, <1>2 DEF SettingsInv, SettingsTyped, LiveRecord
<1>4. CapturesInv'
    BY <1>1, LiveAlone, CapturesKept
<1>5. ASSUME ~crossed', setFaults = 0
      PROVE  Agreeing'
  <2>1. \A r \in SettingUsers : ~Updating(r)
      BY <1>2, <1>5, NotUpdating
  <2>2. Agreeing
      BY <1>2, <1>5 DEF SettingsInv, UpdatesInv
  <2>3. \A r \in SettingUsers : ~Updating(r)'
      BY <1>1, <2>1 DEF Updating
  <2>. QED BY <1>1, <2>2, <2>3 DEF Agreeing
<1>6. UpdatesInv'
    BY <1>1, <1>5 DEF UpdatesInv
<1>. QED BY <1>3, <1>4, <1>6 DEF SettingsInv

LEMMA SettingsLaunch ==
    ASSUME SettingsInv, StartLaunches
    PROVE  SettingsInv'
<1>1. /\ starting # NoChange /\ live' = [v \in Nodes |-> Boots(v, starting[v])] /\ stored' = [up |-> TRUE, spec |-> starting]
      /\ starting' = NoChange /\ UNCHANGED <<captures, user, moved, crossed, setFaults>>
    BY DEF StartLaunches, SetCounts
<1>2. starting \in Specs /\ stored'.up = TRUE /\ stored'.spec = starting
    BY <1>1 DEF SettingsInv, SettingsTyped
<1>3. ASSUME NEW v \in Nodes
      PROVE  /\ LiveRecord(v)' /\ live'[v] # NotLaunched /\ live'[v].size = starting[v].size /\ live'[v].tags = starting[v].tags
             /\ live'[v].nets = [i \in Positions(v) |-> IfacesOf(v)[WiredAs[v][i]].vlan]
  <2>1. starting[v].size \in Nat \ {0} /\ starting[v].tags \in TagMaps
      BY <1>2 DEF Specs, SpecRecord
  <2>2. PICK nets : nets = [i \in Positions(v) |-> IfacesOf(v)[WiredAs[v][i]].vlan]
      OBVIOUS
  <2>3. live'[v] = [size |-> starting[v].size, tags |-> starting[v].tags, nets |-> nets]
      BY <1>1, <2>2 DEF Boots
  <2>4. live'[v].size = starting[v].size /\ live'[v].tags = starting[v].tags /\ live'[v].nets = nets
      BY <2>3
  <2>5. live'[v] # NotLaunched
      BY <2>1, <2>4 DEF NotLaunched
  <2>6. nets = [i \in Positions(v) |-> nets[i]]
      BY <2>2
  <2>. QED BY <2>1, <2>2, <2>3, <2>4, <2>5, <2>6 DEF LiveRecord
<1>4. SettingsTyped'
    BY <1>1, <1>2, <1>3 DEF SettingsInv, SettingsTyped
<1>5. CapturesInv'
  <2>1. Wired'
    <3>1. ASSUME NEW v \in Nodes, NEW i \in Positions(v)
          PROVE  live'[v].nets[i] = IfacesOf(v)[WiredAs[v][i]].vlan
        BY <1>3
    <3>. QED BY <3>1 DEF Wired
  <2>2. CapturesAsked' /\ CapturesNamed'
      BY <1>1 DEF SettingsInv, CapturesInv, CapturesAsked, CapturesNamed
  <2>. QED BY <2>1, <2>2 DEF CapturesInv
<1>6. UpdatesInv'
  <2>1. ASSUME Agreeing
        PROVE  \A r \in SettingUsers : ~Updating(r)'
      BY <1>1, <2>1 DEF Agreeing, Updating
  <2>2. ASSUME Agreeing
        PROVE  Agreeing'
      BY <1>1, <1>2, <1>3, <2>1, <2>2 DEF Agreeing, SameTags
  <2>. QED BY <1>1, <2>2 DEF SettingsInv, UpdatesInv
<1>. QED BY <1>4, <1>5, <1>6 DEF SettingsInv

LEMMA SettingsEnd ==
    ASSUME SettingsInv, EndsExperiment
    PROVE  SettingsInv'
<1>1. /\ stored.up /\ stored' = [stored EXCEPT !.up = FALSE] /\ live' = [v \in Nodes |-> NotLaunched]
      /\ captures' = {} /\ moved' = {} /\ UNCHANGED <<starting, user, setFaults>>
    BY DEF EndsExperiment
<1>2. crossed' \in BOOLEAN /\ (~crossed' => ~crossed /\ \A r \in SettingUsers : user[r].at \in {"rest", "capture"})
    BY DEF EndsExperiment, SettingsInv, SettingsTyped
<1>3. stored' = [up |-> FALSE, spec |-> stored.spec]
    BY <1>1 DEF SettingsInv, SettingsTyped
<1>4. stored'.up = FALSE /\ stored'.spec = stored.spec
    BY <1>3
<1>5. \A v \in Nodes : live'[v] = NotLaunched
    BY <1>1
<1>6. SettingsTyped'
    BY <1>1, <1>2, <1>3, <1>4, <1>5 DEF SettingsInv, SettingsTyped, LiveRecord
<1>7. CapturesInv'
    BY <1>1, <1>5 DEF SettingsInv, CapturesInv, Wired, CapturesAsked, CapturesNamed, Launched
<1>8. ASSUME ~crossed', setFaults = 0
      PROVE  Agreeing'
  <2>1. \A r \in SettingUsers : ~Updating(r)
      BY <1>2, <1>8, NotUpdating
  <2>2. Agreeing
      BY <1>2, <1>8 DEF SettingsInv, UpdatesInv
  <2>3. \A r \in SettingUsers : ~Updating(r)'
      BY <1>1, <2>1 DEF Updating
  <2>. QED BY <1>1, <1>4, <1>5, <2>2, <2>3 DEF Agreeing
<1>9. UpdatesInv'
    BY <1>1, <1>8 DEF UpdatesInv
<1>. QED BY <1>6, <1>7, <1>9 DEF SettingsInv

LEMMA SettingsNet ==
    ASSUME SettingsInv, NEW v \in Nodes, NEW pos, NEW vlan, Launched(v), Reconnected(v, pos, vlan),
           UNCHANGED <<stored, captures, starting, user, crossed, setFaults>>
    PROVE  SettingsInv'
<1>1. /\ live' = [w \in Nodes |-> live'[w]] /\ Wired'
      /\ \A w \in Nodes : /\ LiveRecord(w)' /\ live'[w].tags = live[w].tags /\ live'[w].size = live[w].size
                          /\ (live'[w] = NotLaunched <=> live[w] = NotLaunched)
    BY Reconnects
<1>2. SettingsTyped'
    BY <1>1 DEF SettingsInv, SettingsTyped
<1>3. CapturesInv'
    BY <1>1 DEF SettingsInv, CapturesInv, CapturesAsked, CapturesNamed
<1>4. \A w \in Nodes : w # v => live'[w] = live[w]
    BY DEF Reconnected, SettingsInv, SettingsTyped
<1>5. live[v] # NotLaunched /\ live'[v] # NotLaunched
    BY <1>1 DEF Launched
<1>6. setFaults' >= setFaults
    BY DEF SettingsInv, SettingsTyped
<1>7. UpdatesInv'
    BY <1>1, <1>2, <1>4, <1>5, <1>6, AgreeingKept
<1>. QED BY <1>2, <1>3, <1>7 DEF SettingsInv

LEMMA SettingsRedeploy ==
    ASSUME SettingsInv, NEW v \in Nodes, Redeploy(v, RedeploySize)
    PROVE  SettingsInv'
<1>1. /\ Launched(v) /\ live' = [live EXCEPT ![v].size = RedeploySize] /\ captures' \subseteq captures
      /\ UNCHANGED <<stored, starting, user, moved, crossed, setFaults>>
    BY DEF Redeploy
<1>2. PICK l : l = live[v]
    OBVIOUS
<1>3. /\ l = [size |-> l.size, tags |-> l.tags, nets |-> l.nets] /\ l.size \in Nat \ {0} /\ l.tags \in TagMaps
      /\ l.nets = [i \in Positions(v) |-> l.nets[i]]
    BY <1>1, <1>2, LaunchedHasSize DEF SettingsInv
<1>4. PICK m : m = [l EXCEPT !.size = RedeploySize]
    OBVIOUS
<1>5. m = [size |-> RedeploySize, tags |-> l.tags, nets |-> l.nets]
    BY <1>3, <1>4
<1>6. live' = [live EXCEPT ![v] = m]
    BY <1>1, <1>2, <1>4 DEF SettingsInv, SettingsTyped
<1>7. live'[v] = m /\ (\A w \in Nodes : w # v => live'[w] = live[w]) /\ live' = [w \in Nodes |-> live'[w]]
    BY <1>6 DEF SettingsInv, SettingsTyped
<1>8. m.size = RedeploySize /\ m.tags = l.tags /\ m.nets = l.nets
    BY <1>5
<1>9. m # NotLaunched /\ l # NotLaunched
    BY <1>3, <1>8 DEF NotLaunched, RedeploySize
<1>10. LiveRecord(v)'
    BY <1>3, <1>5, <1>7, <1>8 DEF LiveRecord, RedeploySize
<1>11. \A w \in Nodes : w # v => LiveRecord(w)'
    BY <1>7 DEF SettingsInv, SettingsTyped, LiveRecord
<1>12. SettingsTyped'
    BY <1>1, <1>7, <1>10, <1>11 DEF SettingsInv, SettingsTyped
<1>13. CapturesInv'
  <2>1. Wired'
      BY <1>1, <1>2, <1>7, <1>8 DEF SettingsInv, CapturesInv, Wired, Launched
  <2>2. CapturesAsked' /\ CapturesNamed'
      BY <1>1 DEF SettingsInv, CapturesInv, CapturesAsked, CapturesNamed
  <2>. QED BY <2>1, <2>2 DEF CapturesInv
<1>14. setFaults' >= setFaults
    BY <1>1 DEF SettingsInv, SettingsTyped
<1>15. ASSUME NEW w \in Nodes
       PROVE  live'[w] = live[w] \/
               (/\ live[w] # NotLaunched /\ live'[w] # NotLaunched
                /\ live'[w].tags = live[w].tags /\ live'[w].size \in {live[w].size, RedeploySize})
    BY <1>2, <1>7, <1>8, <1>9
<1>16. UpdatesInv'
    BY <1>1, <1>12, <1>14, <1>15, AgreeingKept
<1>. QED BY <1>12, <1>13, <1>16 DEF SettingsInv

\* An interface that is found by a name is the one that has it.
LEMMA NameFound ==
    ASSUME SettingsInv, NEW v \in Nodes, Launched(v), v \notin moved, NEW name, NEW pos, pos = ResolveInterface(v, name),
           pos \in Positions(v), pos # 0, live[v].nets[pos] # "disconnected"
    PROVE  NameIsRight(v, pos, name)
<1>. SUFFICES ASSUME name # Unnamed, \A i, j \in Positions(v) : i # j => IfacesOf(v)[i].vlan # IfacesOf(v)[j].vlan
              PROVE  IfacesOf(v)[WiredAs[v][pos]].name = name
    BY DEF NameIsRight
<1>1. PICK w : w = WiredAs[v][pos]
    OBVIOUS
<1>2. w \in Positions(v)
    BY <1>1, SettingsAssumption
<1>3. live[v].nets[pos] = IfacesOf(v)[w].vlan
    BY <1>1 DEF SettingsInv, CapturesInv, Wired
<1>4. PICK named : named = {i \in Positions(v) : IfaceNames(v)[i] = name}
    OBVIOUS
<1>5. named # {} /\ pos = CHOOSE i \in named : \A j \in named : i <= j
    BY <1>4 DEF ResolveInterface
<1>6. IfaceNames(v)[pos] = NameByVLAN(v, IfacesOf(v)[w].vlan)
    BY <1>3 DEF IfaceNames
<1>7. {i \in Positions(v) : IfacesOf(v)[i].vlan = IfacesOf(v)[w].vlan} = {w}
    BY <1>2
<1>8. NameByVLAN(v, IfacesOf(v)[w].vlan) = IfacesOf(v)[w].name
  <2>1. (CHOOSE i \in {w} : \A j \in {w} : j <= i) = w
    <3>1. w <= w
        BY <1>2 DEF Positions
    <3>. QED BY <3>1
  <2>. QED BY <1>7, <2>1, Zenon DEF NameByVLAN
<1>9. pos \in named
  <2>1. named \subseteq Nat
      BY <1>4, SettingsAssumption DEF Positions
  <2>2. \E i \in named : \A j \in named : i <= j
      BY <1>5, <2>1, LeastNumber
  <2>. QED BY <1>5, <2>2
<1>. QED BY <1>1, <1>4, <1>6, <1>8, <1>9

LEMMA CaptureBegins ==
    ASSUME SettingsInv, NEW r \in SettingUsers, NEW v \in Nodes, NEW pos, NEW name, StartsCapture(r, v, pos, name),
           name = Unnamed \/ pos = ResolveInterface(v, name)
    PROVE  SettingsInv'
<1>1. PICK n : n = IF v \in moved THEN Unnamed ELSE name
    OBVIOUS
<1>2. PICK u : u = [at |-> "capture", vm |-> v, pos |-> pos, name |-> n]
    OBVIOUS
<1>3. u.at = "capture" /\ u.vm = v /\ u.pos = pos /\ u.name = n /\ IsCapture(u)
    BY <1>2 DEF IsCapture
<1>4. /\ user[r] = Rested /\ user' = [user EXCEPT ![r] = u] /\ Launched(v) /\ pos \in Positions(v)
      /\ live[v].nets[pos] # "disconnected" /\ UNCHANGED <<stored, live, captures, starting, moved, crossed, setFaults>>
    BY <1>1, <1>2 DEF StartsCapture
<1>5. user'[r] = u /\ \A q \in SettingUsers : q # r => user'[q] = user[q]
    BY <1>3, <1>4, UserTyped
<1>6. SettingsTyped'
    BY <1>3, <1>4, UserTyped DEF SettingsInv, SettingsTyped, LiveRecord
<1>7. NameIsRight(v, pos, n)
  <2>1. CASE n = Unnamed
      BY <2>1 DEF NameIsRight
  <2>2. CASE n # Unnamed
    <3>1. pos # 0
        BY <1>4, SettingsAssumption DEF Positions
    <3>. QED BY <1>1, <1>4, <2>2, <3>1, NameFound
  <2>. QED BY <2>1, <2>2
<1>8. CapturesInv'
  <2>1. CapturesAsked'
      BY <1>3, <1>5, <1>7 DEF SettingsInv, CapturesInv, CapturesAsked, NameIsRight
  <2>2. Wired' /\ CapturesNamed'
      BY <1>4 DEF SettingsInv, CapturesInv, Wired, CapturesNamed, Launched
  <2>. QED BY <2>1, <2>2 DEF CapturesInv
<1>9. \A q \in SettingUsers : user'[q] = user[q] \/ (~Updating(q) /\ ~Updating(q)')
    BY <1>3, <1>4, <1>5, RestedIs DEF Updating, UpdateLabels
<1>10. setFaults' >= setFaults
    BY <1>4 DEF SettingsInv, SettingsTyped
<1>11. UpdatesInv'
    BY <1>4, <1>6, <1>9, <1>10, AgreeingKept
<1>. QED BY <1>6, <1>8, <1>11 DEF SettingsInv

LEMMA CaptureMade ==
    ASSUME SettingsInv, NEW r \in SettingUsers, Capturing(r)
    PROVE  SettingsInv'
<1>1. /\ user[r].at = "capture" /\ user' = [user EXCEPT ![r] = Rested]
      /\ UNCHANGED <<stored, live, starting, moved, crossed, setFaults>>
    BY DEF Capturing, UpdateFails, SetCounts
<1>2. user'[r] = Rested /\ \A q \in SettingUsers : q # r => user'[q] = user[q]
    BY <1>1, UserTyped
<1>3. SettingsTyped'
    BY <1>1, UserTyped DEF SettingsInv, SettingsTyped, LiveRecord
<1>4. PICK c : c = [vm |-> user[r].vm, pos |-> user[r].pos, name |-> user[r].name]
    OBVIOUS
<1>5. captures' \subseteq captures \cup {c}
    BY <1>4 DEF Capturing
<1>6. c.vm = user[r].vm /\ c.pos = user[r].pos /\ c.name = user[r].name
    BY <1>4
<1>7. NameIsRight(c.vm, c.pos, c.name)
    BY <1>1, <1>6 DEF SettingsInv, CapturesInv, CapturesAsked
<1>8. CapturesNamed'
    BY <1>5, <1>7 DEF SettingsInv, CapturesInv, CapturesNamed, NameIsRight
<1>9. CapturesInv'
  <2>1. Wired' /\ CapturesAsked'
      BY <1>1, <1>2, RestedIs DEF SettingsInv, CapturesInv, Wired, CapturesAsked, Launched, NameIsRight
  <2>. QED BY <1>8, <2>1 DEF CapturesInv
<1>10. \A q \in SettingUsers : user'[q] = user[q] \/ (~Updating(q) /\ ~Updating(q)')
    BY <1>1, <1>2, RestedIs DEF Updating, UpdateLabels
<1>11. setFaults' >= setFaults
    BY <1>1 DEF SettingsInv, SettingsTyped
<1>12. UpdatesInv'
    BY <1>1, <1>3, <1>10, <1>11, AgreeingKept
<1>. QED BY <1>3, <1>9, <1>12 DEF SettingsInv

\* Captures end, or others are made that are named after no interface.
LEMMA CapturesChange ==
    ASSUME SettingsInv, UNCHANGED <<stored, live, starting, user, moved, crossed, setFaults>>,
           \A c \in captures' : c \in captures \/ c.name = Unnamed
    PROVE  SettingsInv'
<1>1. SettingsTyped'
    BY DEF SettingsInv, SettingsTyped, LiveRecord
<1>2. CapturesInv'
    BY DEF SettingsInv, CapturesInv, Wired, CapturesAsked, CapturesNamed, Launched
<1>3. setFaults' >= setFaults
    BY DEF SettingsInv, SettingsTyped
<1>4. UpdatesInv'
    BY <1>1, <1>3, AgreeingKept
<1>. QED BY <1>1, <1>2, <1>4 DEF SettingsInv

LEMMA CapturesStop ==
    ASSUME SettingsInv, NEW gone, StopsCaptures(gone)
    PROVE  SettingsInv'
BY CapturesChange DEF StopsCaptures

LEMMA CapturesOfSubnet ==
    ASSUME SettingsInv, NEW vs, NEW lans, CapturesSubnet(vs, lans)
    PROVE  SettingsInv'
<1>1. \A c \in captures' : c \in captures \/ c.name = Unnamed
    BY DEF CapturesSubnet
<1>. QED BY <1>1, CapturesChange DEF CapturesSubnet

LEMMA SettingsKept == SettingsInv /\ [SettingsNext]_settingVars => SettingsInv'
<1>. SUFFICES ASSUME SettingsInv, [SettingsNext]_settingVars
              PROVE  SettingsInv'
    OBVIOUS
<1>1. CASE \E r \in SettingUsers, c \in SettingChanges :
             \/ UpdateVMs(r, c)
             \/ \E v \in Nodes : UpdateVM(r, v, c) \/ \E k \in TagKeys : SetCmd(r, v, k, c)
  <2>1. PICK r \in SettingUsers, c \in SettingChanges : \E vs : BeginsUpdate(r, vs, c)
      BY <1>1 DEF UpdateVMs, UpdateVM, SetCmd
  <2>. QED BY <2>1, SettingsUpdate
<1>2. CASE \E r \in SettingUsers : SettingStep(r)
    BY <1>2, SettingsReads, SettingsCheck, SettingsConnect, SettingsClear, SettingsTag, SettingsSaveReads,
       SettingsSaveWrites, CaptureMade, SettingsFault DEF SettingStep
<1>3. CASE StartReadsSpec \/ StartLaunches \/ EndsExperiment
    BY <1>3, SettingsStartReads, SettingsLaunch, SettingsEnd
<1>4. CASE \E gone : StopsCaptures(gone)
    BY <1>4, CapturesStop
<1>5. CASE \E v \in Nodes : Redeploy(v, RedeploySize)
    BY <1>5, SettingsRedeploy
<1>6. CASE \E v \in Nodes : \E pos, vlan : NetDisconnectCmd(v, pos) \/ NetConnectCmd(v, pos, vlan)
    BY <1>6, SettingsNet DEF NetDisconnectCmd, NetConnectCmd
<1>7. CASE \E r \in SettingUsers, v \in Nodes : \E pos, name : StartCapturePost(r, v, pos) \/ StartCaptureCmd(r, v, name)
    BY <1>7, CaptureBegins DEF StartCapturePost, StartCaptureCmd
<1>8. CASE \E vs, lans : CapturesSubnet(vs, lans)
    BY <1>8, CapturesOfSubnet
<1>9. CASE UNCHANGED settingVars
    BY <1>9, CapturesChange DEF settingVars
<1>. QED BY <1>1, <1>2, <1>3, <1>4, <1>5, <1>6, <1>7, <1>8, <1>9
     DEF SettingsNext, StopAllCmd, StopCapturesDelete, StopCapturesCmd, StartSubnetPost, StartSubnetCmd,
         StopSubnetPost, StopSubnetCmd, StopsSubnet

\* The stored experiment and minimega agree about the VMs' tags and sizes
\* when no update and no start or stop overlapped and none failed; and a
\* capture is on the interface it was asked for.
THEOREM SettingsStayConsistent == SettingsSpec => []SettingsConsistent
<1>1. SettingsInit => SettingsInv
    BY SettingsBegin
<1>2. SettingsInv /\ [SettingsNext]_settingVars => SettingsInv'
    BY SettingsKept
<1>. QED BY <1>1, <1>2, SettingsEnough, PTL DEF SettingsSpec

----------------------------------------------------------------------------
(* Induction over the subsets of a finite set.                             *)

\* Of the subsets of a finite set, one holds what all smaller ones imply.
LEMMA SubsetsInduct ==
    ASSUME NEW S, IsFiniteSet(S), NEW P,
           \A s \in SUBSET S : (\A u \in SUBSET s : u # s => u \in P) => s \in P
    PROVE  SUBSET S \subseteq P
<1>. SUFFICES ASSUME NEW b \in SUBSET S, b \notin P PROVE FALSE
    OBVIOUS
<1>. DEFINE Sizes == {Cardinality(s) : s \in (SUBSET S) \ P}
<1>1. \A s \in SUBSET S : IsFiniteSet(s) /\ Cardinality(s) \in Nat
    BY FS_Subset, FS_CardinalityType
<1>2. Sizes \subseteq Nat /\ Sizes # {}
    BY <1>1
<1>. HIDE DEF Sizes
<1>3. PICK k \in Sizes : \A j \in Sizes : k <= j
    BY <1>2, LeastNumber
<1>4. PICK s \in (SUBSET S) \ P : k = Cardinality(s)
    BY <1>3 DEF Sizes
<1>5. \A u \in SUBSET s : u # s => u \in P
  <2>. SUFFICES ASSUME NEW u \in SUBSET s, u # s, u \notin P PROVE FALSE
      OBVIOUS
  <2>1. Cardinality(u) \in Sizes
      BY DEF Sizes
  <2>2. Cardinality(u) < Cardinality(s)
      BY <1>1, FS_Subset
  <2>. QED BY <1>1, <1>2, <1>3, <1>4, <2>1, <2>2
<1>. QED BY <1>4, <1>5

----------------------------------------------------------------------------
(* Sums. Total goes through a set in the order in which CHOOSE takes its   *)
(* elements; the order does not matter.                                    *)

Chosen(s) == CHOOSE x \in s : TRUE
Sums(f, S, g) ==
    /\ g \in [SUBSET S -> Nat]
    /\ \A s \in SUBSET S : g[s] = IF s = {} THEN 0 ELSE f[Chosen(s)] + g[s \ {Chosen(s)}]

LEMMA ChosenIs == \A s : s # {} => Chosen(s) \in s
BY DEF Chosen

LEMMA SumsExist ==
    ASSUME NEW S, IsFiniteSet(S), NEW f, \A x \in S : f[x] \in Nat
    PROVE  \E g : Sums(f, S, g)
<1>1. \A s \in SUBSET S : IsFiniteSet(s) /\ Cardinality(s) \in Nat
    BY FS_Subset, FS_CardinalityType
<1>2. \A s \in SUBSET S : s # {} =>
        /\ Chosen(s) \in S /\ s \ {Chosen(s)} \in SUBSET S
        /\ Cardinality(s \ {Chosen(s)}) = Cardinality(s) - 1
    BY <1>1, ChosenIs, FS_RemoveElement
<1>. DEFINE Upto(g, k) == \A s \in SUBSET S : Cardinality(s) <= k =>
                g[s] = IF s = {} THEN 0 ELSE f[Chosen(s)] + g[s \ {Chosen(s)}]
            T == {k \in Nat : \E g \in [SUBSET S -> Nat] : Upto(g, k)}
<1>3. 0 \in T
  <2>1. PICK g : g = [s \in SUBSET S |-> 0]
      OBVIOUS
  <2>2. \A s \in SUBSET S : Cardinality(s) <= 0 => s = {}
      BY <1>1, FS_EmptySet
  <2>. QED BY <2>1, <2>2
<1>4. \A k \in Nat : k \in T => k + 1 \in T
  <2>. SUFFICES ASSUME NEW k \in Nat, k \in T PROVE k + 1 \in T
      OBVIOUS
  <2>1. PICK g \in [SUBSET S -> Nat] : Upto(g, k)
      OBVIOUS
  <2>. DEFINE h == [s \in SUBSET S |->
                     IF s = {} THEN 0 ELSE IF Cardinality(s) <= k THEN g[s] ELSE f[Chosen(s)] + g[s \ {Chosen(s)}]]
  <2>2. h \in [SUBSET S -> Nat]
      BY <1>2
  <2>3. \A s \in SUBSET S : s # {} /\ Cardinality(s) <= k => h[s] = g[s]
      OBVIOUS
  <2>4. g[{}] = 0 /\ h[{}] = 0
      BY <2>1, <1>1, FS_EmptySet
  <2>5. \A s \in SUBSET S : Cardinality(s) <= k => h[s] = g[s]
      BY <2>3, <2>4
  <2>6. \A s \in SUBSET S : s # {} => h[s] = f[Chosen(s)] + g[s \ {Chosen(s)}]
      BY <2>1, <2>3
  <2>. HIDE DEF h
  <2>7. \A s \in SUBSET S : s # {} /\ Cardinality(s) <= k + 1 => h[s \ {Chosen(s)}] = g[s \ {Chosen(s)}]
      BY <1>1, <1>2, <2>5
  <2>8. Upto(h, k + 1)
      BY <2>4, <2>6, <2>7
  <2>. HIDE DEF Upto
  <2>9. \E i \in [SUBSET S -> Nat] : Upto(i, k + 1)
      BY <2>2, <2>8
  <2>10. k + 1 \in Nat
      OBVIOUS
  <2>. QED BY <2>9, <2>10, Zenon
<1>. HIDE DEF T
<1>5. Cardinality(S) \in T
    BY <1>1, <1>3, <1>4, NumbersInduct
<1>6. PICK g \in [SUBSET S -> Nat] : Upto(g, Cardinality(S))
    BY <1>5 DEF T
<1>7. \A s \in SUBSET S : Cardinality(s) <= Cardinality(S)
    BY FS_Subset
<1>. QED BY <1>6, <1>7 DEF Sums

LEMMA SumsUnique ==
    ASSUME NEW S, IsFiniteSet(S), NEW f, NEW g, NEW h, Sums(f, S, g), Sums(f, S, h)
    PROVE  g = h
<1>. DEFINE P == {s \in SUBSET S : g[s] = h[s]}
<1>1. \A s \in SUBSET S : (\A u \in SUBSET s : u # s => u \in P) => s \in P
  <2>. SUFFICES ASSUME NEW s \in SUBSET S, \A u \in SUBSET s : u # s => u \in P PROVE g[s] = h[s]
      OBVIOUS
  <2>1. CASE s = {}
      BY <2>1 DEF Sums
  <2>2. CASE s # {}
    <3>1. Chosen(s) \in s /\ s \ {Chosen(s)} \in SUBSET s /\ s \ {Chosen(s)} # s
        BY <2>2, ChosenIs
    <3>2. g[s \ {Chosen(s)}] = h[s \ {Chosen(s)}]
        BY <3>1
    <3>. QED BY <2>2, <3>2 DEF Sums
  <2>. QED BY <2>1, <2>2
<1>. HIDE DEF P
<1>2. SUBSET S \subseteq P
    BY <1>1, SubsetsInduct
<1>. QED BY <1>2 DEF P, Sums

LEMMA SumsAdd ==
    ASSUME NEW S, IsFiniteSet(S), NEW f, \A x \in S : f[x] \in Nat, NEW g, Sums(f, S, g),
           NEW t \in SUBSET S, NEW y \in S \ t
    PROVE  g[t \cup {y}] = f[y] + g[t]
<1>. DEFINE P == {s \in SUBSET S : \A x \in S \ s : g[s \cup {x}] = f[x] + g[s]}
<1>1. \A s \in SUBSET S : (\A u \in SUBSET s : u # s => u \in P) => s \in P
  <2>. SUFFICES ASSUME NEW s \in SUBSET S, \A u \in SUBSET s : u # s => u \in P, NEW x \in S \ s
                PROVE  g[s \cup {x}] = f[x] + g[s]
      OBVIOUS
  <2>1. PICK c : c = Chosen(s \cup {x})
      OBVIOUS
  <2>2. c \in s \cup {x} /\ g[s \cup {x}] = f[c] + g[(s \cup {x}) \ {c}]
      BY <2>1, ChosenIs DEF Sums
  <2>3. CASE c = x
    <3>1. (s \cup {x}) \ {c} = s
        BY <2>3
    <3>. QED BY <2>2, <2>3, <3>1
  <2>4. CASE c # x
    <3>1. c \in s /\ s \ {c} \in P
        BY <2>2, <2>4
    <3>2. (s \cup {x}) \ {c} = (s \ {c}) \cup {x} /\ s = (s \ {c}) \cup {c} /\ x \notin s \ {c} /\ c \notin s \ {c}
        BY <3>1, <2>4
    <3>3. g[(s \ {c}) \cup {x}] = f[x] + g[s \ {c}] /\ g[(s \ {c}) \cup {c}] = f[c] + g[s \ {c}]
        BY <3>1, <3>2
    <3>4. f[x] \in Nat /\ f[c] \in Nat /\ g[s \ {c}] \in Nat
        BY <3>1 DEF Sums
    <3>5. g[s \cup {x}] = f[c] + (f[x] + g[s \ {c}])
        BY <2>2, <3>2, <3>3
    <3>6. g[s] = f[c] + g[s \ {c}]
        BY <3>2, <3>3
    <3>. QED BY <3>4, <3>5, <3>6
  <2>. QED BY <2>3, <2>4
<1>. HIDE DEF P
<1>2. SUBSET S \subseteq P
    BY <1>1, SubsetsInduct
<1>. QED BY <1>2 DEF P

LEMMA TotalIs ==
    ASSUME NEW S, IsFiniteSet(S), NEW f, \A x \in S : f[x] \in Nat, NEW g, Sums(f, S, g),
           NEW s \in SUBSET S
    PROVE  Total(f, s) = g[s]
<1>1. IsFiniteSet(s)
    BY FS_Subset
<1>. DEFINE Eq(it) == it = [u \in SUBSET s |-> IF u = {} THEN 0
                              ELSE LET x == CHOOSE x \in u : TRUE IN f[x] + it[u \ {x}]]
<1>2. Total(f, s) = (CHOOSE it : Eq(it))[s]
    BY DEF Total, MapThenSumSet, MapThenFoldSet
<1>3. PICK h : h = [u \in SUBSET s |-> g[u]]
    OBVIOUS
<1>4. \A u \in SUBSET s : u \ {Chosen(u)} \in SUBSET s
    OBVIOUS
<1>5. \A u \in SUBSET s : h[u] = g[u] /\ g[u] = IF u = {} THEN 0 ELSE f[Chosen(u)] + g[u \ {Chosen(u)}]
    BY <1>3 DEF Sums
<1>6. Eq(h)
    BY <1>3, <1>4, <1>5 DEF Chosen
<1>. HIDE DEF Eq
<1>7. PICK it : it = CHOOSE i : Eq(i)
    OBVIOUS
<1>8. Eq(it)
    BY <1>6, <1>7, Zenon
<1>9. it = [u \in SUBSET s |-> it[u]] /\ \A u \in SUBSET s : it[u] = IF u = {} THEN 0 ELSE f[Chosen(u)] + it[u \ {Chosen(u)}]
    BY <1>8 DEF Eq, Chosen
<1>. DEFINE P == {u \in SUBSET s : it[u] = g[u]}
<1>10. \A u \in SUBSET s : (\A v \in SUBSET u : v # u => v \in P) => u \in P
  <2>. SUFFICES ASSUME NEW u \in SUBSET s, \A v \in SUBSET u : v # u => v \in P PROVE it[u] = g[u]
      OBVIOUS
  <2>1. CASE u = {}
      BY <2>1, <1>5, <1>9
  <2>2. CASE u # {}
    <3>1. Chosen(u) \in u /\ u \ {Chosen(u)} \in SUBSET u /\ u \ {Chosen(u)} # u
        BY <2>2, ChosenIs
    <3>2. it[u \ {Chosen(u)}] = g[u \ {Chosen(u)}]
        BY <3>1
    <3>. QED BY <2>2, <3>2, <1>5, <1>9
  <2>. QED BY <2>1, <2>2
<1>. HIDE DEF P
<1>11. SUBSET s \subseteq P
    BY <1>1, <1>10, SubsetsInduct
<1>12. it[s] = g[s]
    BY <1>11 DEF P
<1>. QED BY <1>2, <1>7, <1>12

\* What a total is.
LEMMA TotalEmpty == ASSUME NEW f PROVE Total(f, {}) = 0
<1>1. PICK g : Sums(f, {}, g)
    BY FS_EmptySet, SumsExist
<1>2. g[{}] = 0
    BY <1>1 DEF Sums
<1>. QED BY <1>1, <1>2, FS_EmptySet, TotalIs

LEMMA TotalNat ==
    ASSUME NEW S, IsFiniteSet(S), NEW f, \A x \in S : f[x] \in Nat
    PROVE  Total(f, S) \in Nat
<1>1. PICK g : Sums(f, S, g)
    BY SumsExist
<1>2. Total(f, S) = g[S] /\ S \in SUBSET S
    BY <1>1, TotalIs
<1>. QED BY <1>1, <1>2 DEF Sums

LEMMA TotalAdd ==
    ASSUME NEW S, IsFiniteSet(S), NEW f, \A x \in S : f[x] \in Nat, NEW t \in SUBSET S, NEW y \in S \ t
    PROVE  Total(f, t \cup {y}) = f[y] + Total(f, t)
<1>1. PICK g : Sums(f, S, g)
    BY SumsExist
<1>2. t \cup {y} \in SUBSET S
    OBVIOUS
<1>. QED BY <1>1, <1>2, TotalIs, SumsAdd

LEMMA TotalGrows ==
    ASSUME NEW S, IsFiniteSet(S), NEW f, \A x \in S : f[x] \in Nat, NEW t \in SUBSET S
    PROVE  Total(f, t) <= Total(f, S)
<1>1. \A s \in SUBSET S : IsFiniteSet(s) /\ Total(f, s) \in Nat
    BY FS_Subset, TotalNat
<1>. DEFINE P == {r \in SUBSET (S \ t) : Total(f, t) <= Total(f, t \cup r)}
<1>2. \A r \in SUBSET (S \ t) : (\A u \in SUBSET r : u # r => u \in P) => r \in P
  <2>. SUFFICES ASSUME NEW r \in SUBSET (S \ t), \A u \in SUBSET r : u # r => u \in P
                PROVE  Total(f, t) <= Total(f, t \cup r)
      OBVIOUS
  <2>1. CASE r = {}
    <3>1. t \cup r = t
        BY <2>1
    <3>2. Total(f, t) \in Nat
        BY <1>1
    <3>3. Total(f, t \cup r) = Total(f, t)
        BY <3>1, Zenon
    <3>. QED BY <3>2, <3>3
  <2>2. CASE r # {}
    <3>1. PICK y \in r : TRUE
        BY <2>2
    <3>2. Total(f, t) <= Total(f, t \cup (r \ {y}))
        BY <3>1
    <3>3. t \cup r = (t \cup (r \ {y})) \cup {y} /\ t \cup (r \ {y}) \in SUBSET S /\ y \in S \ (t \cup (r \ {y}))
        BY <3>1
    <3>4. Total(f, t \cup r) = f[y] + Total(f, t \cup (r \ {y}))
        BY <3>3, TotalAdd
    <3>. QED BY <1>1, <3>2, <3>3, <3>4
  <2>. QED BY <2>1, <2>2
<1>. HIDE DEF P
<1>3. IsFiniteSet(S \ t)
    BY FS_Subset
<1>4. SUBSET (S \ t) \subseteq P
  <2>1. PICK D : D = S \ t
      OBVIOUS
  <2>2. \A r \in SUBSET D : (\A u \in SUBSET r : u # r => u \in P) => r \in P
      BY <1>2, <2>1
  <2>3. IsFiniteSet(D)
      BY <1>3, <2>1
  <2>4. SUBSET D \subseteq P
      BY ONLY <2>2, <2>3, SubsetsInduct
  <2>. QED BY <2>1, <2>4
<1>5. S = t \cup (S \ t)
    OBVIOUS
<1>. QED BY <1>4, <1>5 DEF P

----------------------------------------------------------------------------
(* The listing of images. What is known at any moment of a listing under   *)
(* way, of the last one and of every answer is right of the ticks from its *)
(* beginning: an image that could not be listed at one of them may be left *)
(* out, one that could at none of them may not be in.                      *)

ImagesShown ==
    /\ tick \in 0 .. LastTick
    /\ shown = [t \in 0 .. LastTick |-> [some |-> shown[t].some, all |-> shown[t].all]]
    /\ shown[tick].all \subseteq Listable /\ Listable \subseteq shown[tick].some

SoundOver(began, ended, images) ==
    /\ images \subseteq ImageFiles
    /\ \A n \in images : \E t \in began .. ended : n \in shown[t].some
FullOver(began, ended, images) ==
    \A n \in ImageFiles : (\A t \in began .. ended : n \in shown[t].all) => n \in images
FreshOver(began, ended, images) == SoundOver(began, ended, images) /\ FullOver(began, ended, images)

IsListing(l) == l = [began |-> l.began, todo |-> l.todo, found |-> l.found]

ListerRight ==
    /\ lister = [busy |-> lister.busy, now |-> lister.now, hasLast |-> lister.hasLast,
                 last |-> lister.last, lastAt |-> lister.lastAt]
    /\ IsListing(lister.now)
    /\ lister.busy =>
        /\ lister.now.began \in 0 .. tick
        /\ SoundOver(lister.now.began, tick, lister.now.found)
        /\ FullOver(lister.now.began, tick, lister.now.found \cup lister.now.todo)
    /\ lister.hasLast =>
        /\ lister.lastAt \in 0 .. tick /\ lister.last.began \in 0 .. lister.lastAt
        /\ FreshOver(lister.last.began, lister.lastAt, lister.last.found)

AnswerRight(q) ==
    /\ q.at \in {"idle", "waiting", "answered", "refused"}
    /\ q.at = "waiting" => q.asked \in 0 .. tick
    /\ q.at = "answered" =>
        /\ q.asked \in 0 .. tick /\ q.ended \in 0 .. tick /\ q.began \in 0 .. q.ended
        /\ q.asked - q.ended < TTL
        /\ FreshOver(q.began, q.ended, q.images)

AnswersRight ==
    /\ asker = [a \in Askers \cup {"preflight"} |-> asker[a]]
    /\ \A a \in Askers \cup {"preflight"} : AnswerRight(asker[a])

ListingInv == ImagesShown /\ ListerRight /\ AnswersRight

ListingVars == <<files, tick, shown, lister, asker>>

LEMMA ResolvesThere == ASSUME NEW f PROVE \A n \in ResolvesIn(f) : n \in ImageFiles /\ f[n].there
<1>. SUFFICES ASSUME NEW n \in ResolvesIn(f) PROVE n \in ImageFiles /\ f[n].there
    OBVIOUS
<1>1. PICK S : S = {m \in ImageFiles : f[m].there}
    OBVIOUS
<1>2. S \in SUBSET ImageFiles /\ \A m \in ImageFiles : f[m].there /\ (f[m].backing = Nowhere \/ f[m].backing \in S) => m \in S
    BY <1>1
<1>. QED BY <1>1, <1>2 DEF ResolvesIn

LEMMA ListableThere == \A n \in Listable : n \in ImageFiles /\ files[n].there
BY ResolvesThere DEF Listable

\* What is right of some ticks stays so: what they show is only added to.
LEMMA FreshStays ==
    ASSUME ImagesShown, tick' \in 0 .. LastTick, \A t \in 0 .. tick : shown[t].some \subseteq shown'[t].some /\ shown'[t].all \subseteq shown[t].all,
           NEW b, NEW e, NEW e1, b \in 0 .. tick, e \in b .. tick, e1 \in Int, e <= e1, NEW i
    PROVE  /\ SoundOver(b, e, i) => SoundOver(b, e1, i)'
           /\ FullOver(b, e, i) => FullOver(b, e1, i)'
<1>1. b \in Nat /\ e \in Nat /\ tick \in Nat
    BY DEF ImagesShown
<1>2. \A t \in b .. e : t \in b .. e1 /\ t \in 0 .. tick
    BY <1>1
<1>3. ASSUME SoundOver(b, e, i) PROVE SoundOver(b, e1, i)'
    BY <1>2, <1>3 DEF SoundOver
<1>4. ASSUME FullOver(b, e, i) PROVE FullOver(b, e1, i)'
    BY <1>2, <1>4 DEF FullOver
<1>. QED BY <1>3, <1>4

Everyone == Askers \cup {"preflight"}

LEMMA AnswerStays ==
    ASSUME ImagesShown, tick' \in 0 .. LastTick, tick' >= tick,
           \A t \in 0 .. tick : shown[t].some \subseteq shown'[t].some /\ shown'[t].all \subseteq shown[t].all,
           NEW q, AnswerRight(q), NEW r, r = q
    PROVE  AnswerRight(r)'
<1>1. tick \in Nat /\ tick' \in Nat
    BY DEF ImagesShown
<1>2. CASE q.at = "answered"
  <2>1. q.ended \in 0 .. tick /\ q.began \in 0 .. q.ended /\ FreshOver(q.began, q.ended, q.images)
      BY <1>2 DEF AnswerRight
  <2>2. q.began \in 0 .. tick /\ q.ended \in q.began .. tick /\ q.ended \in Int
      BY <1>1, <2>1
  <2>3. PICK b, e, i : b = q.began /\ e = q.ended /\ i = q.images
      OBVIOUS
  <2>4. b \in 0 .. tick /\ e \in b .. tick /\ e \in Int /\ e <= e
      BY <1>1, <2>2, <2>3
  <2>5. (SoundOver(b, e, i) => SoundOver(b, e, i)') /\ (FullOver(b, e, i) => FullOver(b, e, i)')
      BY <2>4, FreshStays
  <2>6. SoundOver(q.began, q.ended, q.images)' /\ FullOver(q.began, q.ended, q.images)'
      BY <2>1, <2>3, <2>5 DEF FreshOver
  <2>. QED BY <1>1, <1>2, <2>1, <2>6 DEF AnswerRight, FreshOver
<1>. QED BY <1>1, <1>2 DEF AnswerRight

LEMMA ListingGrows ==
    ASSUME ListingInv, ImagesShown', tick' >= tick, UNCHANGED <<lister, asker>>,
           \A t \in 0 .. tick : shown[t].some \subseteq shown'[t].some /\ shown'[t].all \subseteq shown[t].all
    PROVE  ListingInv'
<1>1. tick \in Nat /\ tick' \in Nat /\ tick' \in 0 .. LastTick /\ ImagesShown
    BY DEF ListingInv, ImagesShown
<1>2. ListerRight'
  <2>1. lister.busy =>
            /\ SoundOver(lister.now.began, tick, lister.now.found)'
            /\ FullOver(lister.now.began, tick, lister.now.found \cup lister.now.todo)'
    <3>. SUFFICES ASSUME lister.busy
                  PROVE  /\ SoundOver(lister.now.began, tick, lister.now.found)'
                         /\ FullOver(lister.now.began, tick, lister.now.found \cup lister.now.todo)'
        OBVIOUS
    <3>1. PICK b, i, j, e, e1 : /\ b = lister.now.began /\ i = lister.now.found /\ e = tick /\ e1 = tick'
                                /\ j = lister.now.found \cup lister.now.todo
        OBVIOUS
    <3>2. b \in 0 .. tick /\ SoundOver(b, e, i) /\ FullOver(b, e, j) /\ e \in b .. tick /\ e1 \in Int /\ e <= e1
        BY <1>1, <3>1 DEF ListingInv, ListerRight
    <3>3. SoundOver(b, e1, i)' /\ FullOver(b, e1, j)'
        BY <1>1, <3>2, FreshStays
    <3>. QED BY <3>1, <3>3 DEF SoundOver, FullOver
  <2>2. lister.hasLast => FreshOver(lister.last.began, lister.lastAt, lister.last.found)'
    <3>. SUFFICES ASSUME lister.hasLast PROVE FreshOver(lister.last.began, lister.lastAt, lister.last.found)'
        OBVIOUS
    <3>1. PICK b, e, i : b = lister.last.began /\ e = lister.lastAt /\ i = lister.last.found
        OBVIOUS
    <3>2. b \in 0 .. tick /\ e \in b .. tick /\ e \in Int /\ FreshOver(b, e, i)
        BY <1>1, <3>1 DEF ListingInv, ListerRight
    <3>3. SoundOver(b, e, i) /\ FullOver(b, e, i) /\ e <= e
        BY <3>2 DEF FreshOver
    <3>4. SoundOver(b, e, i)' /\ FullOver(b, e, i)'
        BY <1>1, <3>2, <3>3, FreshStays
    <3>. QED BY <3>1, <3>4 DEF FreshOver, SoundOver, FullOver
  <2>. QED BY <1>1, <2>1, <2>2 DEF ListingInv, ListerRight, IsListing, FreshOver, SoundOver, FullOver
<1>3. AnswersRight'
  <2>1. ASSUME NEW a \in Everyone PROVE AnswerRight(asker[a])'
    <3>1. PICK q : q = asker[a]
        OBVIOUS
    <3>2. AnswerRight(q)
        BY <3>1 DEF ListingInv, AnswersRight, Everyone
    <3>3. AnswerRight(q)'
        BY <1>1, <3>2, AnswerStays
    <3>. QED BY <3>1, <3>3
  <2>. QED BY <2>1 DEF ListingInv, AnswersRight, Everyone
<1>. QED BY <1>2, <1>3 DEF ListingInv

LEMMA ListingSame ==
    ASSUME ListingInv, UNCHANGED ListingVars
    PROVE  ListingInv'
BY DEF ListingInv, ListingVars, ImagesShown, Listable, ListerRight, IsListing, AnswersRight, AnswerRight, SoundOver, FullOver, FreshOver

LEMMA FilesListing ==
    ASSUME ListingInv, NEW f, ChangesFiles(f)
    PROVE  ListingInv'
<1>1. PICK now : now = ResolvesIn(f)
    OBVIOUS
<1>2. shown' = [shown EXCEPT ![tick] = [some |-> @.some \cup now, all |-> @.all \cap now]] /\ tick' = tick
      /\ UNCHANGED <<lister, asker>> /\ Listable' = now
    BY <1>1 DEF ChangesFiles, Sees, Listable
<1>3. tick \in 0 .. LastTick /\ \A t \in 0 .. LastTick : /\ shown'[t].some = IF t = tick THEN shown[t].some \cup now ELSE shown[t].some
                                 /\ shown'[t].all = IF t = tick THEN shown[t].all \cap now ELSE shown[t].all
    BY <1>2 DEF ListingInv, ImagesShown
<1>4. shown' = [t \in 0 .. LastTick |-> [some |-> shown'[t].some, all |-> shown'[t].all]]
  <2>1. PICK s : s = shown
      OBVIOUS
  <2>2. PICK k : k = tick
      OBVIOUS
  <2>3. s = [t \in 0 .. LastTick |-> [some |-> s[t].some, all |-> s[t].all]] /\ shown' = [s EXCEPT ![k] = [some |-> @.some \cup now, all |-> @.all \cap now]]
      BY <1>2, <2>1, <2>2 DEF ListingInv, ImagesShown
  <2>. QED BY <2>3
<1>5. ImagesShown'
    BY <1>2, <1>3, <1>4 DEF ImagesShown
<1>6. tick \in Nat /\ LastTick \in Nat /\ 0 .. tick \subseteq 0 .. LastTick
    BY <1>3, PlacementAssumption
<1>7. \A t \in 0 .. tick : shown[t].some \subseteq shown'[t].some /\ shown'[t].all \subseteq shown[t].all
    BY <1>3, <1>6
<1>. QED BY <1>2, <1>5, <1>6, <1>7, ListingGrows

LEMMA TicksListing ==
    ASSUME ListingInv, Ticks
    PROVE  ListingInv'
<1>1. PICK now : now = Listable
    OBVIOUS
<1>2. shown' = [shown EXCEPT ![tick + 1] = [some |-> now, all |-> now]] /\ tick' = tick + 1 /\ tick < LastTick
      /\ UNCHANGED <<lister, asker>> /\ Listable' = now
    BY <1>1 DEF Ticks, Listable, listing
<1>3. tick \in Nat /\ LastTick \in Nat /\ tick + 1 \in 0 .. LastTick /\ 0 .. tick \subseteq 0 .. LastTick /\ tick + 1 \notin 0 .. tick
    BY <1>2, PlacementAssumption DEF ListingInv, ImagesShown
<1>4. shown' = [t \in 0 .. LastTick |-> [some |-> shown'[t].some, all |-> shown'[t].all]]
      /\ \A t \in 0 .. LastTick : shown'[t] = IF t = tick + 1 THEN [some |-> now, all |-> now] ELSE shown[t]
  <2>1. PICK s : s = shown
      OBVIOUS
  <2>2. PICK k : k = tick + 1
      OBVIOUS
  <2>3. s = [t \in 0 .. LastTick |-> [some |-> s[t].some, all |-> s[t].all]] /\ shown' = [s EXCEPT ![k] = [some |-> now, all |-> now]]
      BY <1>2, <2>1, <2>2 DEF ListingInv, ImagesShown
  <2>4. \A t \in 0 .. LastTick : shown'[t] = IF t = k THEN [some |-> now, all |-> now] ELSE s[t]
      BY <2>3
  <2>5. shown' = [t \in 0 .. LastTick |-> [some |-> shown'[t].some, all |-> shown'[t].all]]
      BY <2>3
  <2>. QED BY <2>1, <2>2, <2>4, <2>5
<1>5. ImagesShown'
    BY <1>2, <1>3, <1>4 DEF ImagesShown
<1>6. \A t \in 0 .. tick : shown[t].some \subseteq shown'[t].some /\ shown'[t].all \subseteq shown[t].all
    BY <1>3, <1>4
<1>. QED BY <1>2, <1>3, <1>5, <1>6, ListingGrows

LEMMA AskerChanges ==
    ASSUME AnswersRight, NEW a \in Everyone, NEW r, asker' = [asker EXCEPT ![a] = r], AnswerRight(r)',
           UNCHANGED <<tick, shown>>
    PROVE  AnswersRight'
<1>1. \A b \in Everyone : asker'[b] = IF b = a THEN r ELSE asker[b]
    BY DEF AnswersRight, Everyone
<1>2. ASSUME NEW b \in Everyone PROVE AnswerRight(asker[b])'
  <2>1. PICK q : q = asker'[b]
      OBVIOUS
  <2>2. AnswerRight(q)'
    <3>1. CASE b = a
        BY <1>1, <2>1, <3>1
    <3>2. CASE b # a
      <4>1. AnswerRight(q)
          BY <1>1, <2>1, <3>2 DEF AnswersRight, Everyone
      <4>. QED BY <4>1 DEF AnswerRight, SoundOver, FullOver, FreshOver
    <3>. QED BY <3>1, <3>2
  <2>. QED BY <2>1, <2>2
<1>. QED BY <1>2 DEF AnswersRight, Everyone

LEMMA AsksListing ==
    ASSUME ListingInv, NEW a \in Everyone, Asks(a), UNCHANGED <<tick, files, shown>>
    PROVE  ListingInv'
<1>1. ImagesShown' /\ tick \in Nat /\ tick \in 0 .. LastTick
    BY DEF ListingInv, ImagesShown, Listable
<1>2. CASE lister.hasLast /\ tick - lister.lastAt < TTL
  <2>1. PICK r : r = [at |-> "answered", asked |-> tick, began |-> lister.last.began, ended |-> lister.lastAt, images |-> lister.last.found]
      OBVIOUS
  <2>2. asker' = [asker EXCEPT ![a] = r] /\ lister' = lister
      BY <1>2, <2>1 DEF Asks
  <2>3. AnswerRight(r)'
      BY <1>1, <1>2, <2>1 DEF ListingInv, ListerRight, AnswerRight, SoundOver, FullOver, FreshOver
  <2>4. AnswersRight'
      BY <2>2, <2>3, AskerChanges DEF ListingInv
  <2>5. ListerRight'
      BY <2>2 DEF ListingInv, ListerRight, IsListing, SoundOver, FullOver, FreshOver
  <2>. QED BY <1>1, <2>4, <2>5 DEF ListingInv
<1>3. CASE ~(lister.hasLast /\ tick - lister.lastAt < TTL)
  <2>1. PICK r : r = [at |-> "waiting", asked |-> tick]
      OBVIOUS
  <2>2. asker' = [asker EXCEPT ![a] = r]
        /\ lister' = IF lister.busy THEN lister
                     ELSE [lister EXCEPT !.busy = TRUE, !.now = [began |-> tick, todo |-> {n \in ImageFiles : files[n].there}, found |-> {}]]
      BY <1>3, <2>1 DEF Asks
  <2>3. AnswerRight(r)'
      BY <1>1, <2>1 DEF AnswerRight
  <2>4. AnswersRight'
      BY <2>2, <2>3, AskerChanges DEF ListingInv
  <2>5. ListerRight'
    <3>1. CASE lister.busy
        BY <2>2, <3>1 DEF ListingInv, ListerRight, IsListing, SoundOver, FullOver, FreshOver
    <3>2. CASE ~lister.busy
      <4>1. PICK l, w : l = lister /\ w = [began |-> tick, todo |-> {n \in ImageFiles : files[n].there}, found |-> {}]
          OBVIOUS
      <4>2. lister' = [l EXCEPT !.busy = TRUE, !.now = w] /\ l = [busy |-> l.busy, now |-> l.now, hasLast |-> l.hasLast, last |-> l.last, lastAt |-> l.lastAt]
          BY <2>2, <3>2, <4>1 DEF ListingInv, ListerRight
      <4>3. lister' = [busy |-> TRUE, now |-> w, hasLast |-> l.hasLast, last |-> l.last, lastAt |-> l.lastAt]
          BY <4>2
      <4>4. IsListing(w) /\ w.began = tick /\ w.found = {} /\ w.todo = {n \in ImageFiles : files[n].there}
          BY <4>1 DEF IsListing
      <4>5. SoundOver(tick, tick, {})
          BY DEF SoundOver
      <4>6. FullOver(tick, tick, w.found \cup w.todo)
        <5>1. \A n \in shown[tick].all : n \in w.todo
            BY <4>4, ListableThere DEF ListingInv, ImagesShown
        <5>. QED BY <1>1, <5>1 DEF FullOver
      <4>7. /\ lister.hasLast =>
                /\ lister.lastAt \in 0 .. tick /\ lister.last.began \in 0 .. lister.lastAt
                /\ FreshOver(lister.last.began, lister.lastAt, lister.last.found)'
          BY <4>1, <4>3 DEF ListingInv, ListerRight, FreshOver, SoundOver, FullOver
      <4>8. lister'.busy = TRUE /\ lister'.now = w /\ lister'.hasLast = lister.hasLast /\ lister'.last = lister.last /\ lister'.lastAt = lister.lastAt
          BY <4>1, <4>3
      <4>9. lister' = [busy |-> lister'.busy, now |-> lister'.now, hasLast |-> lister'.hasLast, last |-> lister'.last, lastAt |-> lister'.lastAt]
          BY <4>3
      <4>10. SoundOver(lister.now.began, tick, lister.now.found)' /\ FullOver(lister.now.began, tick, lister.now.found \cup lister.now.todo)'
          BY <4>4, <4>5, <4>6, <4>8 DEF SoundOver, FullOver
      <4>. QED BY <1>1, <4>4, <4>7, <4>8, <4>9, <4>10 DEF ListerRight, IsListing, FreshOver, SoundOver, FullOver
    <3>. QED BY <3>1, <3>2
  <2>. QED BY <1>1, <2>4, <2>5 DEF ListingInv
<1>. QED BY <1>2, <1>3

LEMMA GivesUpListing ==
    ASSUME ListingInv, NEW a \in Everyone, GivesUp(a)
    PROVE  ListingInv'
<1>1. PICK r : r = [at |-> "refused"]
    OBVIOUS
<1>2. asker' = [asker EXCEPT ![a] = r] /\ UNCHANGED <<lister, tick, files, shown>>
    BY <1>1 DEF GivesUp, disks
<1>3. AnswerRight(r)'
    BY <1>1 DEF AnswerRight
<1>4. AnswersRight'
    BY <1>2, <1>3, AskerChanges DEF ListingInv
<1>5. ListerRight' /\ ImagesShown'
    BY <1>2 DEF ListingInv, ListerRight, IsListing, ImagesShown, Listable, FreshOver, SoundOver, FullOver
<1>. QED BY <1>4, <1>5 DEF ListingInv

LEMMA ResolveListing ==
    ASSUME ListingInv, NEW n \in ImageFiles, ResolveImage(n)
    PROVE  ListingInv'
<1>1. PICK l, w : l = lister /\ w = lister.now
    OBVIOUS
<1>2. PICK i, j : i = (IF n \in Listable THEN w.found \cup {n} ELSE w.found) /\ j = w.todo \ {n}
    OBVIOUS
<1>3. UNCHANGED <<tick, files, shown, asker>> /\ lister.busy /\ n \in lister.now.todo
    BY DEF ResolveImage, disks
<1>4. lister' = [l EXCEPT !.now = [began |-> w.began, todo |-> j, found |-> i]]
    BY <1>1, <1>2 DEF ResolveImage
<1>5. PICK v : v = [began |-> w.began, todo |-> j, found |-> i]
    OBVIOUS
<1>6. l = [busy |-> l.busy, now |-> l.now, hasLast |-> l.hasLast, last |-> l.last, lastAt |-> l.lastAt]
    BY <1>1 DEF ListingInv, ListerRight
<1>7. lister' = [busy |-> l.busy, now |-> v, hasLast |-> l.hasLast, last |-> l.last, lastAt |-> l.lastAt]
    BY <1>4, <1>5, <1>6
<1>8. lister'.busy = TRUE /\ lister'.now = v /\ lister'.hasLast = lister.hasLast /\ lister'.last = lister.last /\ lister'.lastAt = lister.lastAt
      /\ lister' = [busy |-> lister'.busy, now |-> lister'.now, hasLast |-> lister'.hasLast, last |-> lister'.last, lastAt |-> lister'.lastAt]
    BY <1>1, <1>3, <1>7 DEF ListingInv, ListerRight
<1>9. IsListing(v) /\ v.began = w.began /\ v.todo = j /\ v.found = i
    BY <1>5 DEF IsListing
<1>10. w.began \in 0 .. tick /\ SoundOver(w.began, tick, w.found) /\ FullOver(w.began, tick, w.found \cup w.todo) /\ tick \in w.began .. tick
    BY <1>1, <1>3 DEF ListingInv, ListerRight, ImagesShown
<1>11. SoundOver(w.began, tick, i)
    BY <1>2, <1>10 DEF SoundOver, ListingInv, ImagesShown
<1>12. FullOver(w.began, tick, i \cup j)
  <2>1. CASE n \in Listable
      BY <1>2, <1>10, <2>1 DEF FullOver
  <2>2. CASE n \notin Listable
    <3>1. n \notin shown[tick].all
        BY <2>2 DEF ListingInv, ImagesShown
    <3>. QED BY <1>2, <1>10, <2>2, <3>1 DEF FullOver
  <2>. QED BY <2>1, <2>2
<1>13. SoundOver(lister.now.began, tick, lister.now.found)' /\ FullOver(lister.now.began, tick, lister.now.found \cup lister.now.todo)'
    BY <1>3, <1>8, <1>9, <1>11, <1>12 DEF SoundOver, FullOver
<1>14. lister.hasLast =>
                /\ lister.lastAt \in 0 .. tick /\ lister.last.began \in 0 .. lister.lastAt
                /\ FreshOver(lister.last.began, lister.lastAt, lister.last.found)'
    BY <1>3, <1>8 DEF ListingInv, ListerRight, FreshOver, SoundOver, FullOver
<1>15. ListerRight'
    BY <1>3, <1>8, <1>9, <1>10, <1>13, <1>14 DEF ListerRight, IsListing, FreshOver, SoundOver, FullOver
<1>16. ImagesShown' /\ AnswersRight'
    BY <1>3 DEF ListingInv, ImagesShown, Listable, AnswersRight, AnswerRight, FreshOver, SoundOver, FullOver
<1>. QED BY <1>15, <1>16 DEF ListingInv

LEMMA FinishListing ==
    ASSUME ListingInv, NEW ok \in BOOLEAN, Finish(ok)
    PROVE  ListingInv'
<1>1. UNCHANGED <<tick, files, shown>> /\ lister.busy
    BY DEF Finish, disks
<1>2. ImagesShown' /\ tick \in Nat
    BY <1>1 DEF ListingInv, ImagesShown, Listable
<1>3. PICK l, w : l = lister /\ w = lister.now
    OBVIOUS
<1>4. l = [busy |-> l.busy, now |-> w, hasLast |-> l.hasLast, last |-> l.last, lastAt |-> l.lastAt] /\ IsListing(w)
      /\ w.began \in 0 .. tick /\ SoundOver(w.began, tick, w.found) /\ FullOver(w.began, tick, w.found \cup w.todo)
    BY <1>1, <1>3 DEF ListingInv, ListerRight
<1>5. ok => w.todo = {} /\ FreshOver(w.began, tick, w.found)
  <2>1. ok => w.todo = {}
      BY <1>3 DEF Finish
  <2>2. w.todo = {} => w.found \cup w.todo = w.found
      OBVIOUS
  <2>. QED BY <1>4, <2>1, <2>2 DEF FreshOver, FullOver
<1>6. ListerRight'
  <2>1. CASE ok
    <3>1. lister' = [busy |-> FALSE, now |-> NoListing, hasLast |-> TRUE, last |-> w, lastAt |-> tick]
        BY <1>3, <2>1 DEF Finish
    <3>2. lister'.busy = FALSE /\ lister'.now = NoListing /\ lister'.hasLast = TRUE /\ lister'.last = w /\ lister'.lastAt = tick
          /\ lister' = [busy |-> lister'.busy, now |-> lister'.now, hasLast |-> lister'.hasLast, last |-> lister'.last, lastAt |-> lister'.lastAt]
        BY <3>1
    <3>3. FreshOver(lister.last.began, lister.lastAt, lister.last.found)'
        BY <1>1, <1>5, <2>1, <3>2 DEF FreshOver, SoundOver, FullOver
    <3>. QED BY <1>1, <1>2, <1>4, <3>2, <3>3 DEF ListerRight, IsListing, NoListing
  <2>2. CASE ~ok
    <3>1. lister' = [l EXCEPT !.busy = FALSE, !.now = NoListing]
        BY <1>3, <2>2 DEF Finish
    <3>2. lister' = [busy |-> FALSE, now |-> NoListing, hasLast |-> l.hasLast, last |-> l.last, lastAt |-> l.lastAt]
        BY <1>4, <3>1
    <3>3. lister'.busy = FALSE /\ lister'.now = NoListing /\ lister'.hasLast = lister.hasLast /\ lister'.last = lister.last /\ lister'.lastAt = lister.lastAt
          /\ lister' = [busy |-> lister'.busy, now |-> lister'.now, hasLast |-> lister'.hasLast, last |-> lister'.last, lastAt |-> lister'.lastAt]
        BY <1>3, <3>2
    <3>4. lister.hasLast =>
                /\ lister.lastAt \in 0 .. tick /\ lister.last.began \in 0 .. lister.lastAt
                /\ FreshOver(lister.last.began, lister.lastAt, lister.last.found)'
        BY <1>1, <3>3 DEF ListingInv, ListerRight, FreshOver, SoundOver, FullOver
    <3>. QED BY <1>1, <3>3, <3>4 DEF ListerRight, IsListing, NoListing, FreshOver, SoundOver, FullOver
  <2>. QED BY <2>1, <2>2
<1>7. AnswersRight'
  <2>1. asker' = [a \in Everyone |-> IF asker[a].at = "waiting" THEN Answered(a, ok) ELSE asker[a]]
      BY DEF Finish, ListingInv, AnswersRight, Everyone
  <2>2. ASSUME NEW a \in Everyone PROVE AnswerRight(asker[a])'
    <3>1. PICK q, r : q = asker[a] /\ r = asker'[a]
        OBVIOUS
    <3>2. AnswerRight(q)
        BY <3>1 DEF ListingInv, AnswersRight, Everyone
    <3>3. CASE q.at # "waiting"
      <4>1. r = q
          BY <2>1, <3>1, <3>3
      <4>. QED BY <1>1, <3>1, <3>2, <4>1 DEF AnswerRight, FreshOver, SoundOver, FullOver
    <3>4. CASE q.at = "waiting" /\ ~ok
      <4>1. r = [at |-> "refused"]
          BY <2>1, <3>1, <3>4 DEF Answered
      <4>. QED BY <3>1, <4>1 DEF AnswerRight
    <3>5. CASE q.at = "waiting" /\ ok
      <4>1. r = [at |-> "answered", asked |-> q.asked, began |-> w.began, ended |-> tick, images |-> w.found]
          BY <1>3, <2>1, <3>1, <3>5 DEF Answered
      <4>2. q.asked \in 0 .. tick
          BY <3>2, <3>5 DEF AnswerRight
      <4>3. TTL \in Nat \ {0}
          BY PlacementAssumption
      <4>4. r.at = "answered" /\ r.asked \in 0 .. tick /\ r.ended = tick /\ r.began \in 0 .. tick /\ r.asked - r.ended < TTL /\ r.images = w.found /\ r.began = w.began
          BY <1>2, <1>4, <4>1, <4>2, <4>3
      <4>5. FreshOver(r.began, r.ended, r.images)'
          BY <1>1, <1>5, <3>5, <4>4 DEF FreshOver, SoundOver, FullOver
      <4>6. r.ended \in 0 .. tick /\ r.began \in 0 .. r.ended
          BY <1>2, <4>4
      <4>. QED BY <1>1, <3>1, <4>4, <4>5, <4>6 DEF AnswerRight
    <3>. QED BY <3>3, <3>4, <3>5
  <2>. QED BY <2>1, <2>2 DEF AnswersRight, Everyone
<1>. QED BY <1>2, <1>6, <1>7 DEF ListingInv

LEMMA AsksImagesListing ==
    ASSUME ListingInv, NEW a \in Everyone, AsksImages(a)
    PROVE  ListingInv'
BY AsksListing DEF AsksImages, disks

LEMMA DisksAskListing ==
    ASSUME ListingInv, DisksAsk
    PROVE  ListingInv'
<1>1. CASE "disks" \notin role
    BY <1>1, ListingSame DEF DisksAsk, Reads, disks, listing, ListingVars
<1>2. CASE "disks" \in role
    BY <1>2, AsksListing DEF DisksAsk, Reads, disks, Everyone
<1>. QED BY <1>1, <1>2

\* All other steps leave the listing alone.
LEMMA OthersListing ==
    ASSUME PlacementNext, ~DiskSteps, ~DisksAsk
    PROVE  UNCHANGED ListingVars
<1>. USE DEF ListingVars, disks, listing, preflight, cluster, scheduling
<1>1. CASE DisksPreflight
    BY <1>1 DEF DisksPreflight, PreflightDraft, DisksCheck, Reads, RunPreflightCheck, CheckTimesOut, Reported
<1>2. CASE PreflightSteps
  <2>1. CASE PreflightDraft \/ CapacityCheck \/ NetworkRange \/ AliasesInUse \/ MissingBridges \/ AppsDone \/ ConfigChanges
      BY <2>1 DEF PreflightDraft, CapacityCheck, NetworkRange, AliasesInUse, MissingBridges, AppsDone, ConfigChanges, Reads
  <2>2. CASE \E s \in Scenarios : AppsCheck(s)
      BY <2>2 DEF AppsCheck, Reads
  <2>3. CASE \E c \in Checks \ {"disks"} : RunPreflightCheck(c) \/ CheckTimesOut(c)
      BY <2>3 DEF RunPreflightCheck, CheckTimesOut, Reported
  <2>4. CASE \E x \in Rivals : RivalChanges(x)
      BY <2>4 DEF RivalChanges
  <2>. QED BY <1>2, <2>1, <2>2, <2>3, <2>4 DEF PreflightSteps
<1>3. CASE SchedulerSteps
  <2>1. CASE RoundRobin \/ SubnetCompute \/ Isolate \/ UserScheduler \/ Schedule
      BY <2>1 DEF RoundRobin, SubnetCompute, Isolate, UserScheduler, Schedule, BeginsPlacing, SchedulerOnly
  <2>2. CASE \E h \in MeshHosts : PlacesRobin(h) \/ PlacesBySubnet(h) \/ PlacesIsolated(h) \/ PlacesByUser(h)
      BY <2>2 DEF PlacesRobin, PlacesBySubnet, PlacesIsolated, PlacesByUser, Places, AllOn, SchedulerOnly
  <2>3. CASE \E x \in Rivals : RivalChanges(x)
      BY <2>3 DEF RivalChanges
  <2>. QED BY <1>3, <2>1, <2>2, <2>3 DEF SchedulerSteps
<1>. QED BY <1>1, <1>2, <1>3 DEF PlacementNext

LEMMA DisksListing ==
    ASSUME ListingInv, DiskSteps
    PROVE  ListingInv'
<1>1. CASE \E n \in ImageFiles : UploadDisk(n) \/ DeleteDisk(n)
    BY <1>1, FilesListing DEF UploadDisk, DeleteDisk
<1>2. CASE \E n \in ImageFiles : ResolveImage(n)
    BY <1>2, ResolveListing
<1>3. CASE \E n, m \in ImageFiles : SnapshotDisk(n, m) \/ RebaseDisk(n, m) \/ CloneDisk(n, m) \/ RenameDisk(n, m)
    BY <1>3, FilesListing DEF SnapshotDisk, RebaseDisk, CloneDisk, RenameDisk
<1>4. CASE \E a \in Everyone : AsksImages(a) \/ GivesUp(a)
    BY <1>4, AsksImagesListing, GivesUpListing
<1>5. CASE Finish(TRUE) \/ Finish(FALSE)
    BY <1>5, FinishListing
<1>6. CASE Ticks
    BY <1>6, TicksListing
<1>. QED BY <1>1, <1>2, <1>3, <1>4, <1>5, <1>6 DEF DiskSteps, Everyone

LEMMA ListingBegins == PlacementInit => ListingInv
<1>. SUFFICES ASSUME PlacementInit PROVE ListingInv
    OBVIOUS
<1>1. ImagesShown
  <2>1. PICK now : now = Listable
      OBVIOUS
  <2>2. tick = 0 /\ shown = [t \in 0 .. LastTick |-> [some |-> now, all |-> now]] /\ 0 \in 0 .. LastTick
      BY <2>1, PlacementAssumption DEF PlacementInit
  <2>. QED BY <2>1, <2>2 DEF ImagesShown
<1>2. ListerRight
    BY DEF PlacementInit, ListerRight, IsListing, NoListing
<1>3. AnswersRight
    BY DEF PlacementInit, AnswersRight, AnswerRight, NotAsking
<1>. QED BY <1>1, <1>2, <1>3 DEF ListingInv

LEMMA ListingStays ==
    ASSUME ListingInv, [PlacementNext]_placementVars
    PROVE  ListingInv'
<1>1. CASE DiskSteps
    BY <1>1, DisksListing
<1>2. CASE DisksAsk
    BY <1>2, DisksAskListing
<1>3. CASE ~DiskSteps /\ ~DisksAsk /\ PlacementNext
    BY <1>3, OthersListing, ListingSame
<1>4. CASE UNCHANGED placementVars
    BY <1>4, ListingSame DEF placementVars, ListingVars
<1>. QED BY <1>1, <1>2, <1>3, <1>4

LEMMA ListingIsFresh == ListingInv => ListingFresh
<1>. SUFFICES ASSUME ListingInv, NEW a \in Everyone, asker[a].at = "answered"
              PROVE  /\ asker[a].asked - asker[a].ended < TTL
                     /\ FreshOver(asker[a].began, asker[a].ended, asker[a].images)
    BY DEF ListingInv, AnswersRight, ListingFresh, FreshOver, SoundOver, FullOver, Everyone
<1>. QED BY DEF ListingInv, AnswersRight, AnswerRight, Everyone

----------------------------------------------------------------------------
(* Preflight. From the request on, what is so is held: so a check that has *)
(* noted nothing wrong so far has looked at what is held.                  *)

Clean(c) == check[c].notes \cap {"error", Unread} = {}
At(c) == check[c].at

RequestHeld ==
    /\ check = [c \in Checks |-> [at |-> check[c].at, notes |-> check[c].notes, todo |-> check[c].todo]]
    /\ verdict = [c \in Checks |-> verdict[c]]
    /\ (\E c \in Checks : At(c) = "idle") => hostsRead = {} /\ \A c \in Checks : At(c) = "idle" /\ verdict[c] = "none"
    /\ (\A c \in Checks : At(c) # "idle") => Facts \subseteq held

HostsTrue ==
    \/ hostsRead \in {{}, {NoHosts}}
    \/ \E hs : /\ hostsRead = {hs} /\ DOMAIN hs = MeshHosts
               /\ ~CapacityFails(hs, MeshHosts) => "capacity" \in held
               /\ \A h \in MeshHosts : hs[h].mem \in Nat

CapacityTrue == At("capacity") = "done" /\ Clean("capacity") => "capacity" \in held
NetworkTrue ==
    /\ At("network") \in {"aliases", "bridges", "done"} /\ Clean("network") => "range" \in held
    /\ At("network") \in {"bridges", "done"} /\ Clean("network") => "aliases" \in held
AppsTrue ==
    /\ At("apps") # "idle" /\ Clean("apps") => Scenarios \subseteq held \cup check["apps"].todo
    /\ At("apps") = "done" /\ Clean("apps") => Scenarios \subseteq held
DisksTrue ==
    At("disks") = "done" /\ Clean("disks") =>
        /\ asker["preflight"].at = "answered"
        /\ \A n \in Started : Devices[n].image # Nowhere => Devices[n].image \in asker["preflight"].images
NotesTrue == CapacityTrue /\ NetworkTrue /\ AppsTrue /\ DisksTrue

PassedInv ==
    /\ RequestHeld /\ HostsTrue /\ NotesTrue
    /\ \A c \in Checks : verdict[c] = "passed" => At(c) = "done" /\ Clean(c)

\* Only rivals run: so what runs on a host is finite.
RivalsKnown == running \subseteq Rivals

LEMMA MaxIs == ASSUME NEW a \in Int PROVE Max({a, 0}) \in Nat
<1>1. \E x \in {a, 0} : \A y \in {a, 0} : x >= y
    OBVIOUS
<1>2. PICK m : m = Max({a, 0})
    OBVIOUS
<1>3. m \in {a, 0} /\ \A y \in {a, 0} : m >= y
    BY <1>1, <1>2 DEF Max
<1>4. m >= 0 /\ m \in Int
    BY <1>3
<1>. QED BY <1>2, <1>4

\* What fits on some hosts, fits on more.
LEMMA MoreHostsFit ==
    ASSUME NEW hs, \A h \in MeshHosts : hs[h].mem \in Nat, NEW V \in SUBSET MeshHosts, CapacityFails(hs, MeshHosts)
    PROVE  CapacityFails(hs, V)
<1>1. CASE \E n \in Started : ~DeviceFit(n, MeshHosts)
    BY <1>1 DEF CapacityFails, DeviceFit
<1>2. CASE NeededMem > Total([h \in MeshHosts |-> Max({HostSize[h].mem - hs[h].mem, 0})], MeshHosts)
  <2>1. PICK f : f = [h \in MeshHosts |-> Max({HostSize[h].mem - hs[h].mem, 0})]
      OBVIOUS
  <2>2. \A h \in MeshHosts : HostSize[h].mem - hs[h].mem \in Int
      BY PlacementAssumption
  <2>3. \A h \in MeshHosts : f[h] \in Nat
      BY <2>1, <2>2, MaxIs
  <2>4. IsFiniteSet(MeshHosts) /\ IsFiniteSet(V)
      BY PlacementAssumption, FS_Subset
  <2>5. Total(f, V) <= Total(f, MeshHosts)
      BY <2>3, <2>4, TotalGrows
  <2>6. Total(f, V) \in Nat /\ Total(f, MeshHosts) \in Nat
      BY <2>3, <2>4, TotalNat
  <2>7. NeededMem \in Nat
    <3>1. PICK g : g = [n \in 1 .. Len(Devices) |-> Devices[n].mem]
        OBVIOUS
    <3>2. Started \subseteq 1 .. Len(Devices) /\ Len(Devices) \in Nat
        BY PlacementAssumption DEF Started
    <3>3. IsFiniteSet(Started)
      <4>1. PICK k \in Nat : k = Len(Devices)
          BY <3>2
      <4>2. IsFiniteSet(1 .. k)
          BY FS_Interval
      <4>. QED BY <3>2, <4>1, <4>2, FS_Subset
    <3>4. \A n \in Started : g[n] \in Nat
        BY <3>1, <3>2, PlacementAssumption
    <3>5. Total(g, Started) \in Nat
        BY <3>3, <3>4, TotalNat
    <3>. QED BY <3>1, <3>5 DEF NeededMem, MemOf
  <2>8. NeededMem > Total(f, MeshHosts)
      BY <1>2, <2>1
  <2>9. NeededMem > Total(f, V)
      BY <2>5, <2>6, <2>7, <2>8
  <2>. QED BY <2>1, <2>9 DEF CapacityFails
<1>. QED BY <1>1, <1>2 DEF CapacityFails

LEMMA ClusterTyped == ASSUME RivalsKnown PROVE ClusterHosts \in [MeshHosts -> [cpus : Nat, mem : Nat, vms : Nat]]
<1>. SUFFICES ASSUME NEW h \in MeshHosts
              PROVE  /\ Total([x \in Rivals |-> RivalIs[x].cpus], On(h)) \in Nat
                     /\ Total([x \in Rivals |-> RivalIs[x].mem], On(h)) \in Nat
                     /\ Total([x \in Rivals |-> RivalIs[x].vms], On(h)) \in Nat
    BY DEF ClusterHosts
<1>1. On(h) \subseteq Rivals /\ IsFiniteSet(On(h))
    BY PlacementAssumption, FS_Subset DEF On, RivalsKnown
<1>2. PICK f, g, k : f = [x \in Rivals |-> RivalIs[x].cpus] /\ g = [x \in Rivals |-> RivalIs[x].mem] /\ k = [x \in Rivals |-> RivalIs[x].vms]
    OBVIOUS
<1>3. \A x \in On(h) : f[x] \in Nat /\ g[x] \in Nat /\ k[x] \in Nat
    BY <1>1, <1>2, PlacementAssumption
<1>. QED BY <1>1, <1>2, <1>3, TotalNat

LEMMA FactsSame == ASSUME UNCHANGED cluster PROVE Facts' = Facts /\ ClusterHosts' = ClusterHosts
<1>1. ClusterHosts' = ClusterHosts
    BY DEF cluster, ClusterHosts, On
<1>. QED BY <1>1 DEF cluster, Facts, CapacityFails, VLANRangeIssues, VLANsInUse

LEMMA FactsAre ==
    /\ ~CapacityFails(ClusterHosts, MeshHosts) => "capacity" \in Facts
    /\ ~VLANRangeIssues(vlanRange) => "range" \in Facts
    /\ Aliases \cap VLANsInUse = {} => "aliases" \in Facts
    /\ \A s \in Scenarios : scenarios[s] = "runs" => s \in Facts
<1>1. ~CapacityFails(ClusterHosts, MeshHosts) => "capacity" \in Facts
    BY DEF Facts
<1>2. ~VLANRangeIssues(vlanRange) => "range" \in Facts
    BY DEF Facts
<1>3. Aliases \cap VLANsInUse = {} => "aliases" \in Facts
    BY DEF Facts
<1>4. \A s \in Scenarios : scenarios[s] = "runs" => s \in Facts
    BY DEF Facts
<1>. QED BY <1>1, <1>2, <1>3, <1>4

LEMMA PassedSame ==
    ASSUME PassedInv, UNCHANGED <<check, hostsRead, verdict, held>>, UNCHANGED cluster,
           asker["preflight"].at = "answered" => asker'["preflight"] = asker["preflight"]
    PROVE  PassedInv'
<1>1. RequestHeld'
    BY FactsSame DEF PassedInv, RequestHeld, At
<1>2. HostsTrue'
    BY DEF PassedInv, HostsTrue, CapacityFails
<1>3. NotesTrue'
    BY DEF PassedInv, NotesTrue, CapacityTrue, NetworkTrue, AppsTrue, DisksTrue, At, Clean
<1>. QED BY <1>1, <1>2, <1>3 DEF PassedInv, At, Clean

\* What changes around the request is held from then on.
LEMMA PassedAround ==
    ASSUME PassedInv, UNCHANGED <<check, hostsRead, verdict, asker>>, held' = held \cup Facts'
    PROVE  PassedInv'
<1>1. RequestHeld'
    BY DEF PassedInv, RequestHeld, At
<1>2. HostsTrue'
    BY DEF PassedInv, HostsTrue, CapacityFails
<1>3. NotesTrue'
    BY DEF PassedInv, NotesTrue, CapacityTrue, NetworkTrue, AppsTrue, DisksTrue, At, Clean
<1>. QED BY <1>1, <1>2, <1>3 DEF PassedInv, At, Clean

LEMMA DraftPasses ==
    ASSUME PassedInv, PreflightDraft
    PROVE  PassedInv'
<1>1. \A c \in Checks : check[c] = Idle /\ verdict[c] = "none" /\ At(c) = "idle"
    BY DEF PreflightDraft, Idle, At
<1>2. check' = [c \in Checks |-> [at |-> "begin", notes |-> {}, todo |-> Scenarios]] /\ held' = Facts
      /\ UNCHANGED <<hostsRead, verdict>> /\ UNCHANGED cluster
    BY DEF PreflightDraft
<1>3. hostsRead = {}
    BY <1>1 DEF PassedInv, RequestHeld, Checks
<1>4. \A c \in Checks : check'[c].at = "begin" /\ check'[c].notes = {} /\ check'[c].todo = Scenarios
    BY <1>2
<1>5. RequestHeld'
    BY <1>1, <1>2, <1>4, FactsSame DEF PassedInv, RequestHeld, At
<1>6. HostsTrue'
    BY <1>2, <1>3 DEF HostsTrue
<1>7. NotesTrue'
    BY <1>4 DEF NotesTrue, CapacityTrue, NetworkTrue, AppsTrue, DisksTrue, At, Checks
<1>8. \A c \in Checks : verdict'[c] = "none"
    BY <1>1, <1>2
<1>. QED BY <1>5, <1>6, <1>7, <1>8 DEF PassedInv

\* A check that takes a note: the others are as they were.
LEMMA NotesPass ==
    ASSUME PassedInv, NEW c \in Checks, At(c) \notin {"idle", "done"}, NEW r, check' = [check EXCEPT ![c] = r],
           r = [at |-> r.at, notes |-> r.notes, todo |-> r.todo], r.at # "idle",
           UNCHANGED <<verdict, held>>, UNCHANGED cluster, HostsTrue',
           c # "disks" => UNCHANGED asker,
           c = "capacity" => CapacityTrue', c = "network" => NetworkTrue', c = "apps" => AppsTrue', c = "disks" => DisksTrue'
    PROVE  PassedInv'
<1>1. check = [d \in Checks |-> check[d]] /\ \A d \in Checks : check'[d] = IF d = c THEN r ELSE check[d]
    BY DEF PassedInv, RequestHeld
<1>2. \A d \in Checks : At(d) # "idle"
    BY DEF PassedInv, RequestHeld
<1>3. check' = [d \in Checks |-> [at |-> check'[d].at, notes |-> check'[d].notes, todo |-> check'[d].todo]]
  <2>1. PICK k : k = check
      OBVIOUS
  <2>2. k = [d \in Checks |-> [at |-> k[d].at, notes |-> k[d].notes, todo |-> k[d].todo]] /\ check' = [k EXCEPT ![c] = r]
      BY <2>1 DEF PassedInv, RequestHeld
  <2>. QED BY <2>2
<1>4. \A d \in Checks : check'[d].at # "idle"
    BY <1>1, <1>2 DEF At
<1>5. RequestHeld'
    BY <1>2, <1>3, <1>4, FactsSame DEF PassedInv, RequestHeld, At
<1>6. NotesTrue'
    BY <1>1 DEF PassedInv, NotesTrue, CapacityTrue, NetworkTrue, AppsTrue, DisksTrue, At, Clean, Checks
<1>7. \A d \in Checks : verdict'[d] = "passed" => d # c /\ At(d) = "done" /\ Clean(d)
    BY DEF PassedInv, At
<1>. QED BY <1>1, <1>5, <1>6, <1>7 DEF PassedInv, At, Clean

LEMMA HostsAreRead ==
    ASSUME PassedInv, RivalsKnown, \A c \in Checks : At(c) # "idle", hostsRead' \in SchedulableHosts, UNCHANGED held
    PROVE  HostsTrue' /\ hostsRead' # {} /\ (hostsRead' = {NoHosts} \/ \E hs : hostsRead' = {hs})
<1>1. CASE hostsRead' = {NoHosts}
    BY <1>1 DEF HostsTrue
<1>2. CASE hostsRead # {}
    BY <1>2 DEF SchedulableHosts, PassedInv, HostsTrue, CapacityFails
<1>3. CASE hostsRead' = {ClusterHosts}
  <2>1. PICK hs : hs = ClusterHosts
      OBVIOUS
  <2>2. hs \in [MeshHosts -> [cpus : Nat, mem : Nat, vms : Nat]]
      BY <2>1, ClusterTyped
  <2>3. ~CapacityFails(hs, MeshHosts) => "capacity" \in held
      BY <2>1, FactsAre DEF PassedInv, RequestHeld
  <2>4. hostsRead' = {hs} /\ DOMAIN hs = MeshHosts /\ \A h \in MeshHosts : hs[h].mem \in Nat
      BY <1>3, <2>1, <2>2
  <2>. QED BY <2>3, <2>4 DEF HostsTrue, CapacityFails
<1>. QED BY <1>1, <1>2, <1>3 DEF SchedulableHosts, HostsRead

LEMMA NobodyIdle ==
    ASSUME PassedInv, NEW c \in Checks, At(c) # "idle"
    PROVE  \A d \in Checks : At(d) # "idle"
BY DEF PassedInv, RequestHeld

LEMMA NotesAre ==
    ASSUME PassedInv, NEW c \in Checks, NEW label, NEW notes, Notes(c, label, notes), label # "idle"
    PROVE  \E r : /\ check' = [check EXCEPT ![c] = r] /\ r = [at |-> r.at, notes |-> r.notes, todo |-> r.todo]
                  /\ r.at = label /\ r.notes = check[c].notes \cup notes /\ r.todo = check[c].todo
                  /\ check'[c] = r
<1>1. PICK k, q : k = check /\ q = check[c]
    OBVIOUS
<1>2. k = [d \in Checks |-> [at |-> k[d].at, notes |-> k[d].notes, todo |-> k[d].todo]] /\ q = k[c]
    BY <1>1 DEF PassedInv, RequestHeld
<1>3. q = [at |-> q.at, notes |-> q.notes, todo |-> q.todo]
    BY <1>2
<1>4. PICK r : r = [at |-> label, notes |-> q.notes \cup notes, todo |-> q.todo]
    OBVIOUS
<1>5. check' = [k EXCEPT ![c] = [at |-> label, notes |-> @.notes \cup notes, todo |-> @.todo]]
    BY <1>1 DEF Notes
<1>6. check' = [k EXCEPT ![c] = r]
    BY <1>2, <1>4, <1>5
<1>7. check'[c] = r
    BY <1>2, <1>6
<1>. QED BY <1>1, <1>4, <1>6, <1>7

LEMMA CapacityPasses ==
    ASSUME PassedInv, RivalsKnown, CapacityCheck
    PROVE  PassedInv'
<1>1. At("capacity") = "begin" /\ "capacity" \in Checks /\ UNCHANGED <<verdict, held>> /\ UNCHANGED cluster /\ UNCHANGED asker
    BY DEF CapacityCheck, At, Checks, Reads, listing
<1>2. \A d \in Checks : At(d) # "idle"
    BY <1>1, NobodyIdle
<1>3. CASE "hosts" \notin role
  <2>1. Notes("capacity", "done", {Unread}) /\ UNCHANGED hostsRead
      BY <1>3 DEF CapacityCheck
  <2>2. PICK r : /\ check' = [check EXCEPT !["capacity"] = r] /\ r = [at |-> r.at, notes |-> r.notes, todo |-> r.todo]
                 /\ r.at = "done" /\ r.notes = check["capacity"].notes \cup {Unread} /\ check'["capacity"] = r
      BY <1>1, <2>1, NotesAre
  <2>3. CapacityTrue'
      BY <2>2 DEF CapacityTrue, Clean
  <2>4. HostsTrue'
      BY <1>1, <2>1 DEF PassedInv, HostsTrue, CapacityFails
  <2>. QED BY <1>1, <2>2, <2>3, <2>4, NotesPass
<1>4. CASE "hosts" \in role
  <2>1. PICK notes : /\ Notes("capacity", "done", notes)
                     /\ notes = IF Visible(hostsRead') = {} THEN {Unread}
                                ELSE IF CapacityFails(CHOOSE hs \in hostsRead' : TRUE, Visible(hostsRead')) THEN {"error"} ELSE {}
      BY <1>4 DEF CapacityCheck
  <2>2. hostsRead' \in SchedulableHosts
      BY <1>4 DEF CapacityCheck
  <2>3. HostsTrue' /\ hostsRead' # {}
      BY <1>1, <1>2, <2>2, HostsAreRead
  <2>4. PICK r : /\ check' = [check EXCEPT !["capacity"] = r] /\ r = [at |-> r.at, notes |-> r.notes, todo |-> r.todo]
                 /\ r.at = "done" /\ r.notes = check["capacity"].notes \cup notes /\ check'["capacity"] = r
    <3>1. Notes("capacity", "done", notes)
        BY <2>1
    <3>. QED BY <1>1, <3>1, NotesAre
  <2>5. ASSUME notes = {} PROVE "capacity" \in held
    <3>1. PICK now : now = hostsRead'
        OBVIOUS
    <3>2. Visible(now) # {} /\ ~CapacityFails(CHOOSE hs \in now : TRUE, Visible(now))
        BY <2>1, <2>5, <3>1
    <3>3. now # {NoHosts}
      <4>1. DOMAIN NoHosts = {}
          BY DEF NoHosts
      <4>. QED BY <3>2, <4>1 DEF Visible
    <3>4. PICK hs : now = {hs} /\ DOMAIN hs = MeshHosts /\ (~CapacityFails(hs, MeshHosts) => "capacity" \in held)
                    /\ \A h \in MeshHosts : hs[h].mem \in Nat
        BY <1>1, <2>3, <3>1, <3>3 DEF HostsTrue, CapacityFails
    <3>5. (CHOOSE k \in now : TRUE) = hs /\ Visible(now) \in SUBSET MeshHosts
        BY <3>4 DEF Visible
    <3>6. ~CapacityFails(hs, Visible(now))
        BY <3>2, <3>5
    <3>. QED BY <3>4, <3>5, <3>6, MoreHostsFit
  <2>6. CapacityTrue'
      BY <1>1, <2>1, <2>4, <2>5 DEF CapacityTrue, Clean
  <2>. QED BY <1>1, <2>3, <2>4, <2>6, NotesPass
<1>. QED BY <1>3, <1>4

LEMMA HostsStay == ASSUME HostsTrue, UNCHANGED <<hostsRead, held>> PROVE HostsTrue'
BY DEF HostsTrue, CapacityFails

LEMMA RangePasses ==
    ASSUME PassedInv, NetworkRange
    PROVE  PassedInv'
<1>1. At("network") = "begin" /\ "network" \in Checks /\ UNCHANGED <<verdict, held, hostsRead, asker>> /\ UNCHANGED cluster
    BY DEF NetworkRange, At, Checks, Reads, listing
<1>2. Facts \subseteq held
    BY <1>1, NobodyIdle DEF PassedInv, RequestHeld
<1>3. PICK notes : /\ Notes("network", "aliases", notes)
                   /\ notes = IF ExperimentRange = {} THEN {Unread}
                              ELSE IF \E r \in ExperimentRange : VLANRangeIssues(r) THEN {"error"} ELSE {}
    BY DEF NetworkRange
<1>4. PICK r : /\ check' = [check EXCEPT !["network"] = r] /\ r = [at |-> r.at, notes |-> r.notes, todo |-> r.todo]
               /\ r.at = "aliases" /\ r.notes = check["network"].notes \cup notes /\ check'["network"] = r
    BY <1>1, <1>3, NotesAre
<1>5. ASSUME notes = {} PROVE "range" \in held
    BY <1>2, <1>3, <1>5, FactsAre DEF ExperimentRange
<1>6. NetworkTrue'
    BY <1>1, <1>3, <1>4, <1>5 DEF NetworkTrue, Clean, At
<1>7. HostsTrue'
    BY <1>1, HostsStay DEF PassedInv
<1>. QED BY <1>1, <1>4, <1>6, <1>7, NotesPass

LEMMA AliasesPass ==
    ASSUME PassedInv, AliasesInUse
    PROVE  PassedInv'
<1>1. At("network") = "aliases" /\ "network" \in Checks /\ UNCHANGED <<verdict, held, hostsRead, asker>> /\ UNCHANGED cluster
    BY DEF AliasesInUse, At, Checks, Reads, listing
<1>2. Facts \subseteq held
    BY <1>1, NobodyIdle DEF PassedInv, RequestHeld
<1>3. PICK notes : /\ Notes("network", "bridges", notes)
                   /\ notes = IF Aliases = {} THEN {} ELSE IF "experiments" \notin role THEN {Unread}
                              ELSE IF Aliases \cap VLANsInUse # {} THEN {"error"} ELSE {}
    BY DEF AliasesInUse
<1>4. PICK r : /\ check' = [check EXCEPT !["network"] = r] /\ r = [at |-> r.at, notes |-> r.notes, todo |-> r.todo]
               /\ r.at = "bridges" /\ r.notes = check["network"].notes \cup notes /\ check'["network"] = r
    BY <1>1, <1>3, NotesAre
<1>5. ASSUME notes = {} PROVE "aliases" \in held
    BY <1>2, <1>3, <1>5, FactsAre
<1>6. Clean("network")' => notes = {} /\ Clean("network")
    BY <1>3, <1>4 DEF Clean
<1>7. NetworkTrue'
    BY <1>1, <1>4, <1>5, <1>6 DEF PassedInv, NotesTrue, NetworkTrue, At
<1>8. HostsTrue'
    BY <1>1, HostsStay DEF PassedInv
<1>. QED BY <1>1, <1>4, <1>7, <1>8, NotesPass

LEMMA BridgesPass ==
    ASSUME PassedInv, RivalsKnown, MissingBridges
    PROVE  PassedInv'
<1>1. At("network") = "bridges" /\ "network" \in Checks /\ UNCHANGED <<verdict, held, asker>> /\ UNCHANGED cluster
    BY DEF MissingBridges, At, Checks, Reads, listing
<1>2. \A d \in Checks : At(d) # "idle"
    BY <1>1, NobodyIdle
<1>3. PICK notes : Notes("network", "done", notes)
    BY DEF MissingBridges
<1>4. PICK r : /\ check' = [check EXCEPT !["network"] = r] /\ r = [at |-> r.at, notes |-> r.notes, todo |-> r.todo]
               /\ r.at = "done" /\ r.notes = check["network"].notes \cup notes /\ check'["network"] = r
    BY <1>1, <1>3, NotesAre
<1>5. Clean("network")' => Clean("network")
    BY <1>4 DEF Clean
<1>6. NetworkTrue'
    BY <1>1, <1>4, <1>5 DEF PassedInv, NotesTrue, NetworkTrue, At
<1>7. HostsTrue'
  <2>1. CASE "hosts" \notin role
    <3>1. UNCHANGED hostsRead
        BY <2>1 DEF MissingBridges
    <3>. QED BY <1>1, <3>1, HostsStay DEF PassedInv
  <2>2. CASE "hosts" \in role
    <3>1. hostsRead' \in SchedulableHosts
        BY <2>2 DEF MissingBridges
    <3>. QED BY <1>1, <1>2, <3>1, HostsAreRead
  <2>. QED BY <2>1, <2>2
<1>. QED BY <1>1, <1>4, <1>6, <1>7, NotesPass

LEMMA DisksAskPasses ==
    ASSUME PassedInv, DisksAsk
    PROVE  PassedInv'
<1>1. At("disks") = "begin" /\ "disks" \in Checks /\ UNCHANGED <<verdict, held, hostsRead>> /\ UNCHANGED cluster
    BY DEF DisksAsk, At, Checks, Reads
<1>2. HostsTrue'
    BY <1>1, HostsStay DEF PassedInv
<1>3. CASE "disks" \notin role
  <2>1. Notes("disks", "done", {Unread})
      BY <1>3 DEF DisksAsk
  <2>2. PICK r : /\ check' = [check EXCEPT !["disks"] = r] /\ r = [at |-> r.at, notes |-> r.notes, todo |-> r.todo]
                 /\ r.at = "done" /\ r.notes = check["disks"].notes \cup {Unread} /\ check'["disks"] = r
      BY <1>1, <2>1, NotesAre
  <2>3. DisksTrue'
      BY <2>2 DEF DisksTrue, Clean
  <2>. QED BY <1>1, <1>2, <2>2, <2>3, NotesPass
<1>4. CASE "disks" \in role
  <2>1. Notes("disks", "asked", {})
      BY <1>4 DEF DisksAsk
  <2>2. PICK r : /\ check' = [check EXCEPT !["disks"] = r] /\ r = [at |-> r.at, notes |-> r.notes, todo |-> r.todo]
                 /\ r.at = "asked" /\ check'["disks"] = r
      BY <1>1, <2>1, NotesAre
  <2>3. DisksTrue'
      BY <2>2 DEF DisksTrue, At
  <2>. QED BY <1>1, <1>2, <2>2, <2>3, NotesPass
<1>. QED BY <1>3, <1>4

LEMMA DisksCheckPasses ==
    ASSUME PassedInv, DisksCheck
    PROVE  PassedInv'
<1>1. At("disks") = "asked" /\ "disks" \in Checks /\ UNCHANGED <<verdict, held, hostsRead, asker>> /\ UNCHANGED cluster
      /\ asker["preflight"].at \in {"answered", "refused"}
    BY DEF DisksCheck, At, Checks, Reads, listing
<1>2. HostsTrue'
    BY <1>1, HostsStay DEF PassedInv
<1>3. PICK notes : /\ Notes("disks", "done", notes)
                   /\ notes = IF DiskImages(asker["preflight"]) = {} THEN {Unread}
                              ELSE IF \E n \in Started : ~ImageFits(n, DiskImages(asker["preflight"])) THEN {"error"} ELSE {}
    BY DEF DisksCheck
<1>4. PICK r : /\ check' = [check EXCEPT !["disks"] = r] /\ r = [at |-> r.at, notes |-> r.notes, todo |-> r.todo]
               /\ r.at = "done" /\ r.notes = check["disks"].notes \cup notes /\ check'["disks"] = r
  <2>1. Notes("disks", "done", notes)
      BY <1>3
  <2>. QED BY <1>1, <2>1, NotesAre
<1>5. ASSUME notes = {}
      PROVE  /\ asker["preflight"].at = "answered"
             /\ \A n \in Started : Devices[n].image # Nowhere => Devices[n].image \in asker["preflight"].images
    BY <1>1, <1>3, <1>5 DEF DiskImages, ImageFits
<1>6. Clean("disks")' => notes = {}
    BY <1>3, <1>4 DEF Clean
<1>7. DisksTrue'
    BY <1>1, <1>5, <1>6 DEF DisksTrue
<1>. QED BY <1>1, <1>2, <1>4, <1>7, NotesPass

LEMMA AppsPass ==
    ASSUME PassedInv, NEW s \in Scenarios, AppsCheck(s)
    PROVE  PassedInv'
<1>1. At("apps") = "begin" /\ "apps" \in Checks /\ UNCHANGED <<verdict, held, hostsRead, asker>> /\ UNCHANGED cluster
    BY DEF AppsCheck, At, Checks, Reads, listing
<1>2. HostsTrue' /\ Facts \subseteq held
    BY <1>1, HostsStay, NobodyIdle DEF PassedInv, RequestHeld
<1>3. PICK q, r : /\ q = check["apps"]
                  /\ r = [at |-> "begin", notes |-> q.notes \cup ScenarioIssue(s), todo |-> q.todo \ {s}]
    OBVIOUS
<1>4. check' = [check EXCEPT !["apps"] = r] /\ check'["apps"] = r
    BY <1>1, <1>3 DEF AppsCheck, PassedInv, RequestHeld
<1>5. r.at = "begin" /\ r.notes = q.notes \cup ScenarioIssue(s) /\ r.todo = q.todo \ {s} /\ r = [at |-> r.at, notes |-> r.notes, todo |-> r.todo]
    BY <1>3
<1>6. ScenarioIssue(s) \cap {"error", Unread} = {} => s \in held
  <2>1. ScenarioApps(s) = "runs" \/ ScenarioIssue(s) \in {{Unread}, {"error"}}
      BY DEF ScenarioIssue
  <2>2. ScenarioApps(s) = "runs" => scenarios[s] = "runs"
      BY DEF ScenarioApps, Unread
  <2>. QED BY <1>2, <2>1, <2>2, FactsAre
<1>7. Clean("apps")' => Clean("apps") /\ s \in held
    BY <1>3, <1>4, <1>5, <1>6 DEF Clean
<1>8. AppsTrue'
    BY <1>1, <1>3, <1>4, <1>5, <1>7 DEF PassedInv, NotesTrue, AppsTrue, At
<1>. QED BY <1>1, <1>2, <1>4, <1>5, <1>8, NotesPass

LEMMA AppsDonePasses ==
    ASSUME PassedInv, AppsDone
    PROVE  PassedInv'
<1>1. At("apps") = "begin" /\ "apps" \in Checks /\ UNCHANGED <<verdict, held, hostsRead, asker>> /\ UNCHANGED cluster
      /\ (check["apps"].todo = {} \/ ~MayList)
    BY DEF AppsDone, At, Checks, Reads, listing
<1>2. HostsTrue'
    BY <1>1, HostsStay DEF PassedInv
<1>3. PICK notes : Notes("apps", "done", notes) /\ notes = IF MayList \/ Scenarios = {} THEN {} ELSE {Unread}
    BY DEF AppsDone
<1>4. PICK r : /\ check' = [check EXCEPT !["apps"] = r] /\ r = [at |-> r.at, notes |-> r.notes, todo |-> r.todo]
               /\ r.at = "done" /\ r.notes = check["apps"].notes \cup notes /\ r.todo = check["apps"].todo /\ check'["apps"] = r
  <2>1. Notes("apps", "done", notes)
      BY <1>3
  <2>. QED BY <1>1, <2>1, NotesAre
<1>5. Clean("apps")' => Clean("apps") /\ (MayList \/ Scenarios = {})
    BY <1>3, <1>4 DEF Clean
<1>6. AppsTrue'
    BY <1>1, <1>4, <1>5 DEF PassedInv, NotesTrue, AppsTrue, At
<1>. QED BY <1>1, <1>2, <1>4, <1>6, NotesPass

LEMMA ReportsPass ==
    ASSUME PassedInv, NEW c \in Checks, RunPreflightCheck(c) \/ CheckTimesOut(c)
    PROVE  PassedInv'
<1>1. UNCHANGED <<check, hostsRead, held, asker>> /\ UNCHANGED cluster /\ At(c) # "idle"
    BY DEF RunPreflightCheck, CheckTimesOut, Reported, listing, At
<1>2. PICK v : verdict' = [verdict EXCEPT ![c] = v] /\ (v = "passed" => At(c) = "done" /\ Clean(c))
  <2>1. CASE RunPreflightCheck(c)
    <3>1. verdict' = [verdict EXCEPT ![c] = PreflightResult(check[c].notes)] /\ At(c) = "done"
        BY <2>1 DEF RunPreflightCheck, Reported, At
    <3>2. PreflightResult(check[c].notes) = "passed" => Clean(c)
        BY DEF PreflightResult, Clean
    <3>. QED BY <3>1, <3>2
  <2>2. CASE CheckTimesOut(c)
    <3>1. PICK v : v = "unavailable"
        OBVIOUS
    <3>2. verdict' = [verdict EXCEPT ![c] = v] /\ v # "passed"
        BY <2>2, <3>1 DEF CheckTimesOut, Reported
    <3>. QED BY <3>2
  <2>. QED BY <2>1, <2>2
<1>3. \A d \in Checks : At(d) # "idle"
    BY <1>1, NobodyIdle
<1>4. RequestHeld' /\ \A d \in Checks : verdict'[d] = IF d = c THEN v ELSE verdict[d]
    BY <1>1, <1>2, <1>3, FactsSame DEF PassedInv, RequestHeld, At
<1>5. HostsTrue'
    BY <1>1, HostsStay DEF PassedInv
<1>6. NotesTrue'
    BY <1>1 DEF PassedInv, NotesTrue, CapacityTrue, NetworkTrue, AppsTrue, DisksTrue, At, Clean
<1>. QED BY <1>1, <1>2, <1>4, <1>5, <1>6 DEF PassedInv, At, Clean

\* An answer is not taken back.
LEMMA AnswerKept ==
    ASSUME AnswersRight, DiskSteps, asker["preflight"].at = "answered"
    PROVE  asker'["preflight"] = asker["preflight"]
<1>1. CASE \E n \in ImageFiles : UploadDisk(n) \/ DeleteDisk(n) \/ ResolveImage(n)
    BY <1>1 DEF UploadDisk, DeleteDisk, ChangesFiles, ResolveImage
<1>2. CASE \E n, m \in ImageFiles : SnapshotDisk(n, m) \/ RebaseDisk(n, m) \/ CloneDisk(n, m) \/ RenameDisk(n, m)
    BY <1>2 DEF SnapshotDisk, RebaseDisk, CloneDisk, RenameDisk, ChangesFiles
<1>3. ASSUME NEW a \in Everyone, AsksImages(a) \/ GivesUp(a) PROVE asker'["preflight"] = asker["preflight"]
  <2>1. a # "preflight"
      BY <1>3, PlacementAssumption DEF AsksImages, GivesUp
  <2>2. PICK r : asker' = [asker EXCEPT ![a] = r]
      BY <1>3 DEF AsksImages, Asks, GivesUp
  <2>. QED BY <2>1, <2>2 DEF AnswersRight
<1>4. CASE Finish(TRUE) \/ Finish(FALSE)
    BY <1>4 DEF Finish, AnswersRight
<1>5. CASE Ticks
    BY <1>5 DEF Ticks, listing
<1>. QED BY <1>1, <1>2, <1>3, <1>4, <1>5 DEF DiskSteps, Everyone

LEMMA DisksApart == DiskSteps => UNCHANGED cluster /\ UNCHANGED preflight /\ UNCHANGED scheduling
<1>. SUFFICES ASSUME DiskSteps PROVE UNCHANGED cluster /\ UNCHANGED preflight /\ UNCHANGED scheduling
    OBVIOUS
<1>1. CASE \E n \in ImageFiles : UploadDisk(n) \/ DeleteDisk(n) \/ ResolveImage(n)
    BY <1>1 DEF UploadDisk, DeleteDisk, ChangesFiles, ResolveImage
<1>2. CASE \E n, m \in ImageFiles : SnapshotDisk(n, m) \/ RebaseDisk(n, m) \/ CloneDisk(n, m) \/ RenameDisk(n, m)
    BY <1>2 DEF SnapshotDisk, RebaseDisk, CloneDisk, RenameDisk, ChangesFiles
<1>3. CASE \E a \in Everyone : AsksImages(a) \/ GivesUp(a)
    BY <1>3 DEF AsksImages, GivesUp
<1>4. CASE Finish(TRUE) \/ Finish(FALSE) \/ Ticks
    BY <1>4 DEF Finish, Ticks
<1>. QED BY <1>1, <1>2, <1>3, <1>4 DEF DiskSteps, Everyone

LEMMA PassedStays ==
    ASSUME ListingInv, PassedInv, RivalsKnown, [PlacementNext]_placementVars
    PROVE  PassedInv'
<1>1. CASE DiskSteps
  <2>1. UNCHANGED <<check, hostsRead, verdict, held>> /\ UNCHANGED cluster
      BY <1>1, DisksApart DEF preflight
  <2>. QED BY <1>1, <2>1, AnswerKept, PassedSame DEF ListingInv
<1>2. CASE PreflightDraft
    BY <1>2, DraftPasses
<1>3. CASE DisksAsk \/ DisksCheck
    BY <1>3, DisksAskPasses, DisksCheckPasses
<1>4. CASE \E c \in Checks : RunPreflightCheck(c) \/ CheckTimesOut(c)
    BY <1>4, ReportsPass
<1>5. CASE CapacityCheck \/ NetworkRange \/ AliasesInUse \/ MissingBridges
    BY <1>5, CapacityPasses, RangePasses, AliasesPass, BridgesPass
<1>6. CASE AppsDone \/ \E s \in Scenarios : AppsCheck(s)
    BY <1>6, AppsPass, AppsDonePasses
<1>7. CASE ConfigChanges \/ \E x \in Rivals : RivalChanges(x)
    BY <1>7, PassedAround DEF ConfigChanges, RivalChanges, listing
<1>8. CASE RoundRobin \/ SubnetCompute \/ Isolate \/ UserScheduler \/ Schedule
    BY <1>8, PassedSame DEF RoundRobin, SubnetCompute, Isolate, UserScheduler, Schedule, BeginsPlacing, SchedulerOnly, preflight, listing
<1>9. CASE \E h \in MeshHosts : PlacesRobin(h) \/ PlacesBySubnet(h) \/ PlacesIsolated(h) \/ PlacesByUser(h)
    BY <1>9, PassedSame DEF PlacesRobin, PlacesBySubnet, PlacesIsolated, PlacesByUser, Places, AllOn, SchedulerOnly, preflight, listing
<1>10. CASE UNCHANGED placementVars
    BY <1>10, PassedSame DEF placementVars, cluster
<1>11. "disks" \in Checks
    BY DEF Checks
<1>. QED
    BY <1>1, <1>2, <1>3, <1>4, <1>5, <1>6, <1>7, <1>8, <1>9, <1>10, <1>11 DEF PlacementNext, DisksPreflight, PreflightSteps, SchedulerSteps

LEMMA PassedBegins == PlacementInit => PassedInv
<1>. SUFFICES ASSUME PlacementInit PROVE PassedInv
    OBVIOUS
<1>1. check = [c \in Checks |-> Idle] /\ verdict = [c \in Checks |-> "none"] /\ hostsRead = {}
    BY DEF PlacementInit
<1>2. \A c \in Checks : check[c] = Idle /\ At(c) = "idle" /\ verdict[c] = "none"
    BY <1>1 DEF At, Idle
<1>3. RequestHeld
    BY <1>1, <1>2 DEF RequestHeld, Idle, Checks
<1>4. NotesTrue
    BY <1>2 DEF NotesTrue, CapacityTrue, NetworkTrue, AppsTrue, DisksTrue, Checks
<1>. QED BY <1>1, <1>2, <1>3, <1>4 DEF PassedInv, HostsTrue

LEMMA PassedIsTrue == ListingInv /\ PassedInv => PassedWhenTrue
<1>. SUFFICES ASSUME ListingInv, PassedInv PROVE PassedWhenTrue
    OBVIOUS
<1>1. \A c \in Checks : verdict[c] = "passed" => At(c) = "done" /\ Clean(c)
    BY DEF PassedInv
<1>2. CapacityTrue /\ NetworkTrue /\ AppsTrue /\ DisksTrue
    BY DEF PassedInv, NotesTrue
<1>3. verdict["capacity"] = "passed" => "capacity" \in held
    BY <1>1, <1>2 DEF CapacityTrue, Checks
<1>4. verdict["network"] = "passed" => {"range", "aliases"} \subseteq held
    BY <1>1, <1>2 DEF NetworkTrue, Checks
<1>5. verdict["apps"] = "passed" => Scenarios \subseteq held
    BY <1>1, <1>2 DEF AppsTrue, Checks
<1>6. ASSUME verdict["disks"] = "passed", NEW n \in Started, Devices[n].image # Nowhere
      PROVE  \E t \in asker["preflight"].began .. asker["preflight"].ended : Devices[n].image \in shown[t].some
  <2>1. asker["preflight"].at = "answered" /\ Devices[n].image \in asker["preflight"].images
      BY <1>1, <1>2, <1>6 DEF DisksTrue, Checks
  <2>2. SoundOver(asker["preflight"].began, asker["preflight"].ended, asker["preflight"].images)
      BY <2>1 DEF ListingInv, AnswersRight, AnswerRight, FreshOver
  <2>. QED BY <2>1, <2>2 DEF SoundOver
<1>. QED BY <1>3, <1>4, <1>5, <1>6 DEF PassedWhenTrue

----------------------------------------------------------------------------
(* Schedulers. The copy of the hosts' use says what was read and what the  *)
(* plan adds; VMs are given hosts in their order, and where a VLAN was     *)
(* given a host one of its VMs is there.                                   *)

HostPlan == placing.plan
Given == {n \in Started : schedules[n] = Nowhere /\ HostPlan[n] # Nowhere}
Use == [cpus : Nat, mem : Nat, vms : Nat]

PlacingTyped ==
    /\ schedules = [n \in 1 .. Len(Devices) |-> schedules[n]]
    /\ placing.by # "none" =>
        /\ placing = [by |-> placing.by, at |-> placing.at, use |-> placing.use, read |-> placing.read,
                      vlans |-> placing.vlans, plan |-> placing.plan]
        /\ placing.by \in {"round-robin", "subnet-compute", "isolate", "user"} /\ placing.at \in {"placing", "done"}
        /\ placing.use \in [MeshHosts -> Use] /\ placing.read \in [MeshHosts -> Use]
        /\ HostPlan = [n \in 1 .. Len(Devices) |-> HostPlan[n]]

InOrder ==
    placing.by \in {"round-robin", "subnet-compute"} =>
        /\ placing.at = "placing"
        /\ \A n \in 1 .. Len(Devices) : HostPlan[n] # schedules[n] => n \in Given /\ HostPlan[n] \in MeshHosts
        /\ \A n \in Given, w \in Waiting : n < w

RobinEven ==
    placing.by = "round-robin" =>
        /\ \A h \in MeshHosts : placing.use[h].vms = placing.read[h].vms + Cardinality(PinnedTo(HostPlan, h))
        /\ \A n \in Given, h \in MeshHosts : placing.use[HostPlan[n]].vms <= placing.use[h].vms + 1

VLANsTogether ==
    placing.by = "subnet-compute" =>
        /\ \A h \in MeshHosts : placing.use[h].mem = placing.read[h].mem + MemOf(PinnedTo(HostPlan, h))
        /\ placing.vlans = [v \in VLANs |-> placing.vlans[v]]
        /\ \A v \in VLANs : placing.vlans[v] \in Seq(MeshHosts)
        /\ \A n \in Given : \E k \in 1 .. Len(placing.vlans[FirstVLAN(n)]) : placing.vlans[FirstVLAN(n)][k] = HostPlan[n]
        /\ \A v \in VLANs : \A k \in 1 .. Len(placing.vlans[v]) :
            \E n \in 1 .. Len(Devices) : FirstVLAN(n) = v /\ HostPlan[n] = placing.vlans[v][k]
        /\ \A n, m \in Given : m < n /\ FirstVLAN(m) = FirstVLAN(n) /\ HostPlan[m] # HostPlan[n] =>
            \/ placing.use[HostPlan[m]].mem + Devices[n].mem >= HostSize[HostPlan[m]].mem
            \/ \E k \in 1 .. Len(Devices) : k # m /\ k # n /\ FirstVLAN(k) = FirstVLAN(n) /\ HostPlan[k] = HostPlan[n]

Isolated ==
    placing.by = "isolate" =>
        /\ placing.use = placing.read
        /\ placing.at = "done" => \E h \in MeshHosts : placing.read[h].vms = 0 /\ \A n \in Started : HostPlan[n] = h

SchedulesInv == PlacingTyped /\ InOrder /\ RobinEven /\ VLANsTogether /\ Isolated

PlacementInv == ListingInv /\ PassedInv /\ SchedulesInv /\ RivalsKnown

LEMMA DevicesFinite ==
    /\ Len(Devices) \in Nat /\ IsFiniteSet(1 .. Len(Devices)) /\ Started \subseteq 1 .. Len(Devices)
    /\ \A n \in 1 .. Len(Devices) : Devices[n].mem \in Nat
<1>1. Len(Devices) \in Nat
    BY PlacementAssumption
<1>2. PICK k \in Nat : k = Len(Devices)
    BY <1>1
<1>3. IsFiniteSet(1 .. k)
    BY FS_Interval
<1>. QED BY <1>1, <1>2, <1>3, PlacementAssumption DEF Started

LEMMA NextIs ==
    ASSUME NEW W, W \subseteq 1 .. Len(Devices), W # {}
    PROVE  Min(W) \in W /\ \A w \in W : Min(W) <= w
<1>1. W \subseteq Nat
    BY DevicesFinite
<1>2. \E x \in W : \A y \in W : x <= y
    BY <1>1, LeastNumber
<1>. QED BY <1>2 DEF Min

IsPlan(plan) == plan = [n \in 1 .. Len(Devices) |-> plan[n]]

LEMMA PinnedCounts ==
    ASSUME NEW plan, IsPlan(plan), NEW g
    PROVE  Cardinality(PinnedTo(plan, g)) \in Nat /\ MemOf(PinnedTo(plan, g)) \in Nat
<1>1. PinnedTo(plan, g) \subseteq 1 .. Len(Devices)
    BY DEF PinnedTo, IsPlan
<1>2. IsFiniteSet(PinnedTo(plan, g))
    BY <1>1, DevicesFinite, FS_Subset
<1>3. PICK f : f = [n \in 1 .. Len(Devices) |-> Devices[n].mem]
    OBVIOUS
<1>4. \A n \in PinnedTo(plan, g) : f[n] \in Nat
    BY <1>1, <1>3, DevicesFinite
<1>5. Total(f, PinnedTo(plan, g)) \in Nat
    BY <1>2, <1>4, TotalNat
<1>. QED BY <1>2, <1>3, <1>5, FS_CardinalityType DEF MemOf

LEMMA MemAddsIn ==
    ASSUME NEW D, IsFiniteSet(D), \A n \in D : Devices[n].mem \in Nat, NEW t \in SUBSET D, NEW N \in D \ t
    PROVE  Total([n \in D |-> Devices[n].mem], t \cup {N}) = Devices[N].mem + Total([n \in D |-> Devices[n].mem], t)
<1>1. PICK f : f = [n \in D |-> Devices[n].mem]
    OBVIOUS
<1>2. \A n \in D : f[n] \in Nat
    BY <1>1
<1>3. Total(f, t \cup {N}) = f[N] + Total(f, t)
    BY <1>2, TotalAdd
<1>. QED BY <1>1, <1>3

LEMMA MemAdds ==
    ASSUME NEW t \in SUBSET (1 .. Len(Devices)), NEW N \in 1 .. Len(Devices), N \notin t
    PROVE  MemOf(t \cup {N}) = MemOf(t) + Devices[N].mem
<1>. SUFFICES ASSUME NEW D, D = 1 .. Len(Devices) PROVE MemOf(t \cup {N}) = MemOf(t) + Devices[N].mem
    OBVIOUS
<1>1. IsFiniteSet(D) /\ IsFiniteSet(t) /\ \A n \in D : Devices[n].mem \in Nat
    BY DevicesFinite, FS_Subset
<1>2. t \in SUBSET D /\ N \in D \ t
    OBVIOUS
<1>3. Total([n \in D |-> Devices[n].mem], t \cup {N}) = Devices[N].mem + Total([n \in D |-> Devices[n].mem], t)
    BY ONLY <1>1, <1>2, MemAddsIn
<1>4. Total([n \in D |-> Devices[n].mem], t) \in Nat
  <2>1. PICK f : f = [n \in D |-> Devices[n].mem]
      OBVIOUS
  <2>2. \A n \in t : f[n] \in Nat
      BY <1>1, <1>2, <2>1
  <2>3. Total(f, t) \in Nat
      BY <1>1, <2>2, TotalNat
  <2>. QED BY <2>1, <2>3
<1>. QED BY <1>1, <1>2, <1>3, <1>4 DEF MemOf

PutOn(plan, next, N, h) ==
    /\ IsPlan(plan) /\ N \in 1 .. Len(Devices) /\ plan[N] = Nowhere
    /\ next = [plan EXCEPT ![N] = h]

\* One more VM on a host counts there, and nowhere else.
LEMMA PlacedCounts ==
    ASSUME NEW plan, NEW next, NEW N, NEW h \in MeshHosts, NEW g \in MeshHosts, PutOn(plan, next, N, h)
    PROVE  /\ Cardinality(PinnedTo(next, g)) = IF g = h THEN Cardinality(PinnedTo(plan, g)) + 1 ELSE Cardinality(PinnedTo(plan, g))
           /\ MemOf(PinnedTo(next, g)) = IF g = h THEN MemOf(PinnedTo(plan, g)) + Devices[N].mem ELSE MemOf(PinnedTo(plan, g))
<1>1. N \notin PinnedTo(plan, g) /\ PinnedTo(plan, g) \subseteq 1 .. Len(Devices)
    BY PlacementAssumption DEF PinnedTo, PutOn, IsPlan
<1>2. CASE g # h
  <2>1. PinnedTo(next, g) = PinnedTo(plan, g)
      BY <1>1, <1>2 DEF PinnedTo, PutOn, IsPlan
  <2>. QED BY <1>2, <2>1
<1>3. CASE g = h
  <2>1. PinnedTo(next, g) = PinnedTo(plan, g) \cup {N}
      BY <1>3 DEF PinnedTo, PutOn, IsPlan
  <2>2. PICK t : t = PinnedTo(plan, g)
      OBVIOUS
  <2>3. IsFiniteSet(t) /\ N \notin t /\ t \in SUBSET (1 .. Len(Devices))
      BY <1>1, <2>2, DevicesFinite, FS_Subset
  <2>4. Cardinality(t \cup {N}) = Cardinality(t) + 1
      BY <2>3, FS_AddElement
  <2>5. MemOf(t \cup {N}) = MemOf(t) + Devices[N].mem
      BY <2>3, MemAdds DEF PutOn
  <2>. QED BY <1>3, <2>1, <2>2, <2>4, <2>5
<1>. QED BY <1>2, <1>3

LEMMA SchedulesSame == ASSUME SchedulesInv, UNCHANGED scheduling PROVE SchedulesInv'
<1>1. schedules' = schedules /\ placing' = placing
    BY DEF scheduling
<1>2. Given' = Given /\ Waiting' = Waiting /\ HostPlan' = HostPlan
    BY <1>1 DEF Given, Waiting, HostPlan
<1>3. PlacingTyped' /\ InOrder' /\ Isolated'
    BY <1>1, <1>2 DEF SchedulesInv, PlacingTyped, InOrder, Isolated
<1>4. RobinEven'
    BY <1>1, <1>2 DEF SchedulesInv, RobinEven, PinnedTo
<1>5. VLANsTogether'
    BY <1>1, <1>2 DEF SchedulesInv, VLANsTogether, PinnedTo
<1>. QED BY <1>3, <1>4, <1>5 DEF SchedulesInv

\* Whoever begins knows the hosts' use, and has given nothing.
LEMMA BeginsTyped ==
    ASSUME PlacingTyped, RivalsKnown, NEW by \in {"round-robin", "subnet-compute", "isolate", "user"},
           NEW use \in [MeshHosts -> Use], NEW vlans, BeginsPlacing(by, use, vlans)
    PROVE  /\ PlacingTyped' /\ InOrder' /\ Given' = {} /\ schedules' = schedules
           /\ placing'.by = by /\ placing'.at = "placing" /\ placing'.use = use /\ placing'.read = ClusterHosts
           /\ placing'.vlans = vlans /\ placing'.plan = schedules
<1>1. placing' = [by |-> by, at |-> "placing", use |-> use, read |-> ClusterHosts, vlans |-> vlans, plan |-> schedules]
      /\ schedules' = schedules
    BY DEF BeginsPlacing
<1>2. ClusterHosts \in [MeshHosts -> Use]
    BY ClusterTyped DEF Use
<1>3. Given' = {}
    BY <1>1 DEF Given, HostPlan
<1>4. PICK r : r = ClusterHosts
    OBVIOUS
<1>5. placing' = [by |-> by, at |-> "placing", use |-> use, read |-> r, vlans |-> vlans, plan |-> schedules] /\ r \in [MeshHosts -> Use]
    BY <1>1, <1>2, <1>4
<1>6. PlacingTyped'
    BY <1>1, <1>5 DEF PlacingTyped, HostPlan
<1>7. InOrder'
    BY <1>1, <1>5, <1>3 DEF InOrder, HostPlan
<1>. QED BY <1>1, <1>4, <1>5, <1>3, <1>6, <1>7

LEMMA RobinBegins == ASSUME SchedulesInv, RivalsKnown, RoundRobin PROVE SchedulesInv'
<1>1. PICK use : /\ use = [h \in MeshHosts |-> [ClusterHosts[h] EXCEPT !.vms = @ + Cardinality(PinnedTo(schedules, h))]]
                 /\ BeginsPlacing("round-robin", use, << >>)
    BY DEF RoundRobin
<1>2. PlacingTyped /\ IsPlan(schedules)
    BY DEF SchedulesInv, PlacingTyped, IsPlan
<1>3. \A h \in MeshHosts : Cardinality(PinnedTo(schedules, h)) \in Nat
    BY <1>2, PinnedCounts
<1>4. use \in [MeshHosts -> Use] /\ \A h \in MeshHosts : use[h].vms = ClusterHosts[h].vms + Cardinality(PinnedTo(schedules, h))
  <2>1. PICK r : r = ClusterHosts
      OBVIOUS
  <2>2. r \in [MeshHosts -> [cpus : Nat, mem : Nat, vms : Nat]]
      BY <2>1, ClusterTyped
  <2>3. PICK k : k = [h \in MeshHosts |-> Cardinality(PinnedTo(schedules, h))]
      OBVIOUS
  <2>4. (\A h \in MeshHosts : k[h] \in Nat) /\ use = [h \in MeshHosts |-> [r[h] EXCEPT !.vms = @ + k[h]]]
      BY <1>1, <1>3, <2>1, <2>3
  <2>5. \A h \in MeshHosts : /\ r[h] = [cpus |-> r[h].cpus, mem |-> r[h].mem, vms |-> r[h].vms]
                            /\ r[h].cpus \in Nat /\ r[h].mem \in Nat /\ r[h].vms \in Nat
      BY <2>2
  <2>6. ASSUME NEW h \in MeshHosts PROVE use[h] = [cpus |-> r[h].cpus, mem |-> r[h].mem, vms |-> r[h].vms + k[h]]
    <3>1. PICK q : q = r[h]
        OBVIOUS
    <3>2. q = [cpus |-> q.cpus, mem |-> q.mem, vms |-> q.vms] /\ use[h] = [q EXCEPT !.vms = @ + k[h]]
        BY <2>4, <2>5, <3>1
    <3>. QED BY <3>1, <3>2
  <2>7. use \in [MeshHosts -> Use]
    <3>1. \A h \in MeshHosts : k[h] \in Nat
        BY <1>3, <2>3
    <3>2. ASSUME NEW h \in MeshHosts PROVE use[h] \in Use
      <4>1. k[h] \in Nat /\ r[h].cpus \in Nat /\ r[h].mem \in Nat /\ r[h].vms \in Nat
          BY <2>5, <3>1
      <4>2. r[h].vms + k[h] \in Nat
          BY <4>1
      <4>3. use[h] = [cpus |-> r[h].cpus, mem |-> r[h].mem, vms |-> r[h].vms + k[h]]
          BY <2>6
      <4>. QED BY ONLY <4>1, <4>2, <4>3 DEF Use
    <3>. QED BY <2>4, <3>2
  <2>. QED BY <2>1, <2>3, <2>6, <2>7
<1>5. /\ PlacingTyped' /\ InOrder' /\ Given' = {} /\ placing'.by = "round-robin" /\ placing'.use = use
      /\ placing'.read = ClusterHosts /\ placing'.plan = schedules
    BY <1>1, <1>2, <1>4, BeginsTyped
<1>6. RobinEven'
    BY <1>4, <1>5 DEF RobinEven, HostPlan, PinnedTo
<1>7. VLANsTogether' /\ Isolated'
    BY <1>5 DEF VLANsTogether, Isolated
<1>. QED BY <1>5, <1>6, <1>7 DEF SchedulesInv

LEMMA OthersBegin == ASSUME SchedulesInv, RivalsKnown, Isolate \/ UserScheduler PROVE SchedulesInv'
<1>1. PICK by \in {"isolate", "user"} : BeginsPlacing(by, ClusterHosts, << >>)
    BY DEF Isolate, UserScheduler
<1>2. PlacingTyped /\ ClusterHosts \in [MeshHosts -> Use]
    BY ClusterTyped DEF SchedulesInv, Use
<1>3. PICK use \in [MeshHosts -> Use] : use = ClusterHosts /\ BeginsPlacing(by, use, << >>)
    BY <1>1, <1>2
<1>4. by \in {"round-robin", "subnet-compute", "isolate", "user"}
    OBVIOUS
<1>5. PlacingTyped' /\ InOrder' /\ placing'.by = by /\ placing'.at = "placing" /\ placing'.use = use /\ placing'.read = ClusterHosts
    BY <1>2, <1>3, <1>4, BeginsTyped
<1>6. RobinEven' /\ VLANsTogether'
    BY <1>5 DEF RobinEven, VLANsTogether
<1>7. Isolated'
    BY <1>3, <1>5 DEF Isolated
<1>. QED BY <1>5, <1>6, <1>7 DEF SchedulesInv

LEMMA SubnetBegins == ASSUME SchedulesInv, RivalsKnown, SubnetCompute PROVE SchedulesInv'
<1>1. PICK order :
        /\ \A v \in VLANs : order[v] \in Bijection(1 .. Cardinality(PinnedIn(v)), PinnedIn(v))
        /\ BeginsPlacing("subnet-compute",
               [h \in MeshHosts |-> [ClusterHosts[h] EXCEPT !.mem = @ + MemOf(PinnedTo(schedules, h))]],
               [v \in VLANs |-> [k \in DOMAIN order[v] |-> schedules[order[v][k]]]])
    BY DEF SubnetCompute
<1>2. PICK use, vlans :
        /\ use = [h \in MeshHosts |-> [ClusterHosts[h] EXCEPT !.mem = @ + MemOf(PinnedTo(schedules, h))]]
        /\ vlans = [v \in VLANs |-> [k \in DOMAIN order[v] |-> schedules[order[v][k]]]]
        /\ BeginsPlacing("subnet-compute", use, vlans)
  <2>1. PICK use : use = [h \in MeshHosts |-> [ClusterHosts[h] EXCEPT !.mem = @ + MemOf(PinnedTo(schedules, h))]]
      OBVIOUS
  <2>2. PICK vlans : vlans = [v \in VLANs |-> [k \in DOMAIN order[v] |-> schedules[order[v][k]]]]
      OBVIOUS
  <2>3. BeginsPlacing("subnet-compute", use, vlans)
      BY <1>1, <2>1, <2>2
  <2>. QED BY <2>1, <2>2, <2>3
<1>3. PlacingTyped /\ IsPlan(schedules)
    BY DEF SchedulesInv, PlacingTyped, IsPlan
<1>4. \A h \in MeshHosts : MemOf(PinnedTo(schedules, h)) \in Nat
    BY <1>3, PinnedCounts
<1>5. use \in [MeshHosts -> Use] /\ \A h \in MeshHosts : use[h].mem = ClusterHosts[h].mem + MemOf(PinnedTo(schedules, h))
  <2>1. PICK r : r = ClusterHosts
      OBVIOUS
  <2>2. r \in [MeshHosts -> [cpus : Nat, mem : Nat, vms : Nat]]
      BY <2>1, ClusterTyped
  <2>3. PICK k : k = [h \in MeshHosts |-> MemOf(PinnedTo(schedules, h))]
      OBVIOUS
  <2>4. (\A h \in MeshHosts : k[h] \in Nat) /\ use = [h \in MeshHosts |-> [r[h] EXCEPT !.mem = @ + k[h]]]
      BY <1>2, <1>4, <2>1, <2>3
  <2>5. \A h \in MeshHosts : /\ r[h] = [cpus |-> r[h].cpus, mem |-> r[h].mem, vms |-> r[h].vms]
                            /\ r[h].cpus \in Nat /\ r[h].mem \in Nat /\ r[h].vms \in Nat
      BY <2>2
  <2>6. ASSUME NEW h \in MeshHosts PROVE use[h] = [cpus |-> r[h].cpus, mem |-> r[h].mem + k[h], vms |-> r[h].vms]
    <3>1. PICK q : q = r[h]
        OBVIOUS
    <3>2. q = [cpus |-> q.cpus, mem |-> q.mem, vms |-> q.vms] /\ use[h] = [q EXCEPT !.mem = @ + k[h]]
        BY <2>4, <2>5, <3>1
    <3>. QED BY <3>1, <3>2
  <2>7. use \in [MeshHosts -> Use]
    <3>1. \A h \in MeshHosts : k[h] \in Nat
        BY <1>4, <2>3
    <3>2. ASSUME NEW h \in MeshHosts PROVE use[h] \in Use
      <4>1. k[h] \in Nat /\ r[h].cpus \in Nat /\ r[h].mem \in Nat /\ r[h].vms \in Nat
          BY <2>5, <3>1
      <4>2. r[h].mem + k[h] \in Nat
          BY <4>1
      <4>3. use[h] = [cpus |-> r[h].cpus, mem |-> r[h].mem + k[h], vms |-> r[h].vms]
          BY <2>6
      <4>. QED BY ONLY <4>1, <4>2, <4>3 DEF Use
    <3>. QED BY <2>4, <3>2
  <2>. QED BY <2>1, <2>3, <2>6, <2>7
<1>6. /\ PlacingTyped' /\ InOrder' /\ Given' = {} /\ placing'.by = "subnet-compute" /\ placing'.use = use
      /\ placing'.read = ClusterHosts /\ placing'.plan = schedules /\ placing'.vlans = vlans
    BY <1>2, <1>3, <1>5, BeginsTyped
<1>7. ASSUME NEW v \in VLANs
      PROVE  /\ vlans[v] \in Seq(MeshHosts)
             /\ \A k \in 1 .. Len(vlans[v]) : \E n \in 1 .. Len(Devices) : FirstVLAN(n) = v /\ schedules[n] = vlans[v][k]
  <2>1. PICK c : c = Cardinality(PinnedIn(v))
      OBVIOUS
  <2>2. c \in Nat
    <3>1. PinnedIn(v) \subseteq 1 .. Len(Devices)
        BY <1>3 DEF PinnedIn, IsPlan
    <3>. QED BY <2>1, <3>1, DevicesFinite, FS_Subset, FS_CardinalityType
  <2>3. order[v] \in [1 .. c -> PinnedIn(v)]
      BY <1>1, <2>1 DEF Bijection, Injection
  <2>4. vlans[v] = [k \in 1 .. c |-> schedules[order[v][k]]]
      BY <1>2, <2>3
  <2>5. \A k \in 1 .. c : order[v][k] \in 1 .. Len(Devices) /\ schedules[order[v][k]] \in MeshHosts /\ FirstVLAN(order[v][k]) = v
      BY <1>3, <2>3 DEF PinnedIn, IsPlan
  <2>6. vlans[v] \in Seq(MeshHosts) /\ Len(vlans[v]) = c
      BY <2>2, <2>4, <2>5
  <2>. QED BY <2>4, <2>5, <2>6
<1>8. vlans = [v \in VLANs |-> vlans[v]]
    BY <1>2
<1>9. VLANsTogether'
  <2>1. \A h \in MeshHosts : placing'.use[h].mem = placing'.read[h].mem + MemOf(PinnedTo(placing'.plan, h))
      BY <1>5, <1>6
  <2>. QED BY <1>6, <1>7, <1>8, <2>1 DEF VLANsTogether, HostPlan, PinnedTo
<1>10. RobinEven' /\ Isolated'
    BY <1>6 DEF RobinEven, Isolated
<1>. QED BY <1>6, <1>9, <1>10 DEF SchedulesInv

\* Placing the next VM: it gets the host, and the host's use grows.
LEMMA PlacesTyped ==
    ASSUME PlacingTyped, InOrder, NEW h \in MeshHosts, NEW f \in {"mem", "vms"}, NEW amount \in Nat, NEW vlans,
           NEW by \in {"round-robin", "subnet-compute"}, StillPlacing(by), NEW N, N = NextVM, Places(h, f, amount, vlans)
    PROVE  /\ PlacingTyped' /\ InOrder' /\ schedules' = schedules
           /\ N \in Waiting /\ \A w \in Waiting : N <= w
           /\ schedules[N] = Nowhere /\ HostPlan[N] = Nowhere
           /\ placing'.by = by /\ placing'.read = placing.read /\ placing'.vlans = vlans
           /\ placing'.plan = [HostPlan EXCEPT ![N] = h] /\ placing'.use = [placing.use EXCEPT ![h][f] = @ + amount]
           /\ Given' = Given \cup {N}
<1>1. placing.by = by /\ placing.at = "placing" /\ Waiting # {} /\ schedules' = schedules
    BY DEF StillPlacing, Places
<1>2. N \in Waiting /\ \A w \in Waiting : N <= w
  <2>1. Waiting \subseteq 1 .. Len(Devices)
      BY DevicesFinite DEF Waiting
  <2>. QED BY <1>1, <2>1, NextIs DEF NextVM
<1>3. HostPlan[N] = Nowhere /\ N \in Started /\ N \in 1 .. Len(Devices)
    BY <1>2, DevicesFinite DEF Waiting, HostPlan
<1>4. schedules[N] = Nowhere
    BY <1>1, <1>3 DEF InOrder, Given
<1>5. PICK plan, use, next, more :
        /\ plan = placing.plan /\ use = placing.use
        /\ next = [plan EXCEPT ![N] = h] /\ more = [use EXCEPT ![h][f] = @ + amount]
    OBVIOUS
<1>6. /\ plan = [n \in 1 .. Len(Devices) |-> plan[n]] /\ use \in [MeshHosts -> Use] /\ placing.read \in [MeshHosts -> Use]
      /\ placing = [by |-> placing.by, at |-> placing.at, use |-> use, read |-> placing.read,
                    vlans |-> placing.vlans, plan |-> plan]
    BY <1>1, <1>5 DEF PlacingTyped, HostPlan
<1>7. placing' = [by |-> by, at |-> "placing", use |-> more, read |-> placing.read, vlans |-> vlans, plan |-> next]
  <2>1. placing' = [placing EXCEPT !.plan[N] = h, !.use[h][f] = @ + amount, !.vlans = vlans]
      BY DEF Places
  <2>. QED BY <1>1, <1>5, <1>6, <2>1
<1>8. more \in [MeshHosts -> Use]
  <2>1. PICK u : u = use[h]
      OBVIOUS
  <2>2. u \in Use
      BY <1>6, <2>1
  <2>3. u = [cpus |-> u.cpus, mem |-> u.mem, vms |-> u.vms] /\ u.cpus \in Nat /\ u.mem \in Nat /\ u.vms \in Nat
      BY <2>2 DEF Use
  <2>4. PICK q : q = [u EXCEPT ![f] = @ + amount]
      OBVIOUS
  <2>5. q \in Use
    <3>1. CASE f = "mem"
      <4>1. q = [u EXCEPT !.mem = @ + amount]
          BY <2>4, <3>1
      <4>2. q = [cpus |-> u.cpus, mem |-> u.mem + amount, vms |-> u.vms]
          BY <2>3, <4>1
      <4>3. u.mem + amount \in Nat
          BY <2>3
      <4>. QED BY <2>3, <4>2, <4>3 DEF Use
    <3>2. CASE f = "vms"
      <4>1. q = [u EXCEPT !.vms = @ + amount]
          BY <2>4, <3>2
      <4>2. q = [cpus |-> u.cpus, mem |-> u.mem, vms |-> u.vms + amount]
          BY <2>3, <4>1
      <4>3. u.vms + amount \in Nat
          BY <2>3
      <4>. QED BY <2>3, <4>2, <4>3 DEF Use
    <3>. QED BY <3>1, <3>2
  <2>6. more = [use EXCEPT ![h] = q]
      BY <1>5, <2>1, <2>4
  <2>. QED BY <1>6, <2>5, <2>6
<1>9. next = [n \in 1 .. Len(Devices) |-> next[n]] /\ \A n \in 1 .. Len(Devices) : next[n] = IF n = N THEN h ELSE plan[n]
    BY <1>3, <1>5, <1>6
<1>10. HostPlan' = next /\ HostPlan = plan /\ placing'.at = "placing" /\ placing'.by = by
    BY <1>5, <1>7 DEF HostPlan
<1>11. Given' = Given \cup {N}
  <2>1. h # Nowhere
      BY PlacementAssumption
  <2>. QED BY <1>1, <1>3, <1>4, <1>9, <1>10, <2>1, DevicesFinite DEF Given
<1>12. \A w \in Waiting' : w \in Waiting /\ w # N
  <2>1. h # Nowhere
      BY PlacementAssumption
  <2>. QED BY <1>9, <1>10, <2>1, DevicesFinite DEF Waiting, HostPlan
<1>13. PlacingTyped'
  <2>1. placing'.read \in [MeshHosts -> Use] /\ placing'.use \in [MeshHosts -> Use]
      BY <1>6, <1>7, <1>8
  <2>. QED BY <1>1, <1>7, <1>9, <1>10, <2>1 DEF PlacingTyped
<1>14. InOrder'
  <2>1. ASSUME NEW n \in 1 .. Len(Devices), next[n] # schedules[n] PROVE n \in Given' /\ next[n] \in MeshHosts
      BY <1>1, <1>9, <1>10, <1>11, <2>1 DEF InOrder
  <2>2. ASSUME NEW n \in Given', NEW w \in Waiting' PROVE n < w
    <3>1. w \in Waiting /\ w # N /\ N <= w /\ N \in Nat /\ w \in Nat
        BY <1>2, <1>3, <1>12, <2>2, DevicesFinite DEF Waiting
    <3>2. CASE n = N
        BY <3>1, <3>2
    <3>3. CASE n \in Given
        BY <1>1, <3>1, <3>3 DEF InOrder
    <3>. QED BY <1>11, <2>2, <3>2, <3>3
  <2>. QED BY <1>1, <1>10, <2>1, <2>2 DEF InOrder
<1>. QED BY <1>1, <1>2, <1>3, <1>4, <1>5, <1>7, <1>10, <1>11, <1>13, <1>14

LEMMA RobinPlaces == ASSUME SchedulesInv, NEW h, PlacesRobin(h) PROVE SchedulesInv'
<1>1. StillPlacing("round-robin") /\ Places(h, "vms", 1, placing.vlans) /\ h \in MeshHosts
      /\ \A g \in MeshHosts : placing.use[h].vms <= placing.use[g].vms
    BY DEF PlacesRobin, Least
<1>2. PICK N : N = NextVM
    OBVIOUS
<1>3. PlacingTyped /\ InOrder /\ RobinEven /\ placing.by = "round-robin"
    BY <1>1 DEF SchedulesInv, StillPlacing
<1>4. /\ PlacingTyped' /\ InOrder' /\ schedules' = schedules
      /\ N \in Waiting /\ HostPlan[N] = Nowhere
      /\ placing'.by = "round-robin" /\ placing'.read = placing.read
      /\ placing'.plan = [HostPlan EXCEPT ![N] = h] /\ placing'.use = [placing.use EXCEPT ![h]["vms"] = @ + 1]
      /\ Given' = Given \cup {N}
    BY <1>1, <1>2, <1>3, PlacesTyped
<1>5. IsPlan(HostPlan) /\ N \in 1 .. Len(Devices) /\ placing.use \in [MeshHosts -> Use] /\ placing.read \in [MeshHosts -> Use]
    BY <1>3, <1>4, DevicesFinite DEF PlacingTyped, IsPlan, Waiting
<1>6. PICK use, more, plan, next : use = placing.use /\ more = placing'.use /\ plan = HostPlan /\ next = placing'.plan
    OBVIOUS
<1>7. \A g \in MeshHosts : use[g].vms \in Nat /\ placing.read[g].vms \in Nat /\ Cardinality(PinnedTo(plan, g)) \in Nat
    BY <1>5, <1>6, PinnedCounts DEF Use
<1>8. \A g \in MeshHosts : more[g].vms = IF g = h THEN use[g].vms + 1 ELSE use[g].vms
  <2>1. more = [use EXCEPT ![h]["vms"] = @ + 1] /\ use \in [MeshHosts -> Use]
      BY <1>4, <1>5, <1>6
  <2>. QED BY <1>1, <2>1 DEF Use
<1>9. \A g \in MeshHosts :
        Cardinality(PinnedTo(next, g)) = IF g = h THEN Cardinality(PinnedTo(plan, g)) + 1 ELSE Cardinality(PinnedTo(plan, g))
  <2>1. PutOn(plan, next, N, h) /\ h \in MeshHosts
      BY <1>1, <1>4, <1>5, <1>6 DEF PutOn
  <2>2. ASSUME NEW g \in MeshHosts
        PROVE  Cardinality(PinnedTo(next, g)) = IF g = h THEN Cardinality(PinnedTo(plan, g)) + 1 ELSE Cardinality(PinnedTo(plan, g))
      BY <2>1, <2>2, PlacedCounts
  <2>. QED BY <2>2
<1>10. ASSUME NEW g \in MeshHosts PROVE more[g].vms = placing.read[g].vms + Cardinality(PinnedTo(next, g))
  <2>1. use[g].vms = placing.read[g].vms + Cardinality(PinnedTo(plan, g))
      BY <1>3, <1>6 DEF RobinEven
  <2>. QED BY <1>7, <1>8, <1>9, <2>1
<1>11. \A n \in Given : n \in 1 .. Len(Devices) /\ n # N /\ plan[n] \in MeshHosts /\ next[n] = plan[n]
  <2>1. ASSUME NEW n \in Given PROVE n \in 1 .. Len(Devices) /\ n # N /\ plan[n] \in MeshHosts
      BY <1>3, <1>4, <1>6, DevicesFinite DEF Given, InOrder
  <2>. QED BY <1>4, <1>5, <1>6, <2>1 DEF IsPlan
<1>12. next[N] = h
    BY <1>4, <1>5, <1>6 DEF IsPlan
<1>13. ASSUME NEW n \in Given \cup {N}, NEW g \in MeshHosts PROVE more[next[n]].vms <= more[g].vms + 1
  <2>1. use[h].vms <= use[g].vms
      BY <1>1, <1>6
  <2>2. CASE n = N
      BY <1>1, <1>7, <1>8, <1>12, <2>1, <2>2
  <2>3. CASE n \in Given
    <3>1. next[n] = plan[n] /\ plan[n] \in MeshHosts /\ use[plan[n]].vms <= use[g].vms + 1
        BY <1>3, <1>6, <1>11, <2>3 DEF RobinEven
    <3>. QED BY <1>1, <1>7, <1>8, <2>1, <3>1
  <2>. QED BY <2>2, <2>3
<1>14. RobinEven'
    BY <1>4, <1>6, <1>10, <1>13 DEF RobinEven, HostPlan, PinnedTo
<1>15. VLANsTogether' /\ Isolated'
    BY <1>4 DEF VLANsTogether, Isolated
<1>. QED BY <1>4, <1>14, <1>15 DEF SchedulesInv

\* A VLAN's hosts after a VM of it was placed on h: as before, with room on
\* one of them, or h behind them.
Extends(given, next, h) == (next = given /\ \E k \in 1 .. Len(given) : given[k] = h) \/ next = Append(given, h)

Holds(given, next, h) ==
    /\ next \in Seq(MeshHosts)
    /\ \E k \in 1 .. Len(next) : next[k] = h
    /\ \A k \in 1 .. Len(next) : next[k] = h \/ \E j \in 1 .. Len(given) : given[j] = next[k]
    /\ \A j \in 1 .. Len(given) : \E k \in 1 .. Len(next) : next[k] = given[j]

LEMMA ExtendsIs ==
    ASSUME NEW given, NEW next, NEW h, given \in Seq(MeshHosts), h \in MeshHosts, Extends(given, next, h)
    PROVE  Holds(given, next, h)
<1>1. CASE next = given /\ \E k \in 1 .. Len(given) : given[k] = h
    BY <1>1 DEF Holds
<1>2. CASE next = Append(given, h)
  <2>1. next \in Seq(MeshHosts) /\ Len(next) = Len(given) + 1 /\ next[Len(given) + 1] = h
      BY <1>2
  <2>2. \A k \in 1 .. Len(given) : next[k] = given[k] /\ k \in 1 .. Len(next)
      BY <1>2, <2>1
  <2>3. \A k \in 1 .. Len(next) : k = Len(given) + 1 \/ k \in 1 .. Len(given)
      BY <2>1
  <2>4. Len(given) + 1 \in 1 .. Len(next)
      BY <2>1
  <2>. QED BY <2>1, <2>2, <2>3, <2>4 DEF Holds
<1>. QED BY <1>1, <1>2 DEF Extends

\* Where a VM is placed: with room on a host of its VLAN, there; else no host
\* of the VLAN has room.
LEMMA SubnetChooses ==
    ASSUME SchedulesInv, NEW h, PlacesBySubnet(h), NEW N, N = NextVM, NEW v, v = FirstVLAN(N)
    PROVE  /\ StillPlacing("subnet-compute") /\ h \in MeshHosts /\ v \in VLANs /\ N \in 1 .. Len(Devices)
           /\ \E vlans : /\ Places(h, "mem", Devices[N].mem, vlans)
                         /\ vlans = [u \in VLANs |-> vlans[u]]
                         /\ \A u \in VLANs : u # v => vlans[u] = placing.vlans[u]
                         /\ Extends(placing.vlans[v], vlans[v], h)
           /\ \/ \E k \in 1 .. Len(placing.vlans[v]) : placing.vlans[v][k] = h
              \/ \A k \in 1 .. Len(placing.vlans[v]) :
                    placing.use[placing.vlans[v][k]].mem + Devices[N].mem >= HostSize[placing.vlans[v][k]].mem
<1>1. StillPlacing("subnet-compute") /\ VLANsTogether
    BY DEF PlacesBySubnet, SchedulesInv
<1>2. N \in 1 .. Len(Devices)
  <2>1. Waiting \subseteq 1 .. Len(Devices) /\ Waiting # {}
      BY <1>1, DevicesFinite DEF Waiting, StillPlacing
  <2>. QED BY <2>1, NextIs DEF NextVM
<1>3. v \in VLANs
    BY <1>2 DEF VLANs
<1>4. PICK given, roomy, vlans :
        /\ given = placing.vlans[v] /\ vlans = placing.vlans
        /\ roomy = {k \in 1 .. Len(given) : placing.use[given[k]].mem + Devices[N].mem < HostSize[given[k]].mem}
    OBVIOUS
<1>5. given \in Seq(MeshHosts) /\ vlans = [u \in VLANs |-> vlans[u]] /\ placing.use \in [MeshHosts -> Use]
    BY <1>1, <1>3, <1>4 DEF VLANsTogether, StillPlacing, SchedulesInv, PlacingTyped
<1>6. IF roomy # {} THEN h = given[Min(roomy)] /\ Places(h, "mem", Devices[N].mem, vlans)
      ELSE h \in Least("mem") /\ Places(h, "mem", Devices[N].mem, [vlans EXCEPT ![v] = Append(@, h)])
    BY <1>4 DEF PlacesBySubnet
<1>7. CASE roomy # {}
  <2>1. Min(roomy) \in roomy
    <3>1. roomy \subseteq Nat
        BY <1>4, <1>5
    <3>2. \E x \in roomy : \A y \in roomy : x <= y
        BY <1>7, <3>1, LeastNumber
    <3>. QED BY <3>2 DEF Min
  <2>2. PICK k \in 1 .. Len(given) : given[k] = h
      BY <1>4, <1>6, <1>7, <2>1
  <2>3. Places(h, "mem", Devices[N].mem, vlans) /\ h \in MeshHosts
      BY <1>5, <1>6, <1>7, <2>2
  <2>4. Extends(placing.vlans[v], vlans[v], h)
      BY <1>4, <2>2 DEF Extends
  <2>. QED BY <1>1, <1>2, <1>3, <1>4, <1>5, <2>2, <2>3, <2>4
<1>8. CASE roomy = {}
  <2>1. PICK more : more = [vlans EXCEPT ![v] = Append(@, h)]
      OBVIOUS
  <2>2. Places(h, "mem", Devices[N].mem, more) /\ h \in MeshHosts
      BY <1>6, <1>8, <2>1 DEF Least
  <2>3. more = [u \in VLANs |-> more[u]] /\ (\A u \in VLANs : u # v => more[u] = vlans[u]) /\ more[v] = Append(vlans[v], h)
      BY <1>3, <1>5, <2>1
  <2>4. Extends(placing.vlans[v], more[v], h)
      BY <1>4, <2>3 DEF Extends
  <2>5. ASSUME NEW k \in 1 .. Len(given) PROVE placing.use[given[k]].mem + Devices[N].mem >= HostSize[given[k]].mem
    <3>1. given[k] \in MeshHosts
        BY <1>5
    <3>2. placing.use[given[k]].mem \in Nat /\ Devices[N].mem \in Nat /\ HostSize[given[k]].mem \in Nat
        BY <1>2, <1>5, <3>1, PlacementAssumption DEF Use
    <3>3. ~(placing.use[given[k]].mem + Devices[N].mem < HostSize[given[k]].mem)
        BY <1>4, <1>8
    <3>. QED BY <3>2, <3>3
  <2>6. \E w : /\ Places(h, "mem", Devices[N].mem, w) /\ w = [u \in VLANs |-> w[u]]
               /\ (\A u \in VLANs : u # v => w[u] = placing.vlans[u]) /\ Extends(placing.vlans[v], w[v], h)
      BY <1>4, <2>2, <2>3, <2>4
  <2>. QED BY <1>1, <1>2, <1>3, <1>4, <2>2, <2>5, <2>6
<1>. QED BY <1>7, <1>8

LEMMA SubnetPlaces == ASSUME SchedulesInv, NEW h, PlacesBySubnet(h) PROVE SchedulesInv'
<1>1. PICK N, v : N = NextVM /\ v = FirstVLAN(N)
    OBVIOUS
<1>2. /\ StillPlacing("subnet-compute") /\ h \in MeshHosts /\ v \in VLANs /\ N \in 1 .. Len(Devices)
      /\ \E vlans : /\ Places(h, "mem", Devices[N].mem, vlans)
                    /\ vlans = [u \in VLANs |-> vlans[u]]
                    /\ \A u \in VLANs : u # v => vlans[u] = placing.vlans[u]
                    /\ Extends(placing.vlans[v], vlans[v], h)
      /\ \/ \E k \in 1 .. Len(placing.vlans[v]) : placing.vlans[v][k] = h
         \/ \A k \in 1 .. Len(placing.vlans[v]) :
               placing.use[placing.vlans[v][k]].mem + Devices[N].mem >= HostSize[placing.vlans[v][k]].mem
    BY <1>1, SubnetChooses
<1>3. PICK vlans : /\ Places(h, "mem", Devices[N].mem, vlans)
                   /\ vlans = [u \in VLANs |-> vlans[u]]
                   /\ \A u \in VLANs : u # v => vlans[u] = placing.vlans[u]
                   /\ Extends(placing.vlans[v], vlans[v], h)
    BY <1>2
<1>4. PlacingTyped /\ InOrder /\ VLANsTogether /\ placing.by = "subnet-compute" /\ Devices[N].mem \in Nat
    BY <1>2, DevicesFinite DEF SchedulesInv, StillPlacing
<1>5. /\ PlacingTyped' /\ InOrder' /\ schedules' = schedules
      /\ N \in Waiting /\ HostPlan[N] = Nowhere
      /\ placing'.by = "subnet-compute" /\ placing'.read = placing.read /\ placing'.vlans = vlans
      /\ placing'.plan = [HostPlan EXCEPT ![N] = h] /\ placing'.use = [placing.use EXCEPT ![h]["mem"] = @ + Devices[N].mem]
      /\ Given' = Given \cup {N}
  <2>1. StillPlacing("subnet-compute") /\ Places(h, "mem", Devices[N].mem, vlans) /\ h \in MeshHosts /\ N = NextVM
      BY <1>1, <1>2, <1>3
  <2>. QED BY <1>4, <2>1, PlacesTyped
<1>6. IsPlan(HostPlan) /\ placing.use \in [MeshHosts -> Use] /\ placing.read \in [MeshHosts -> Use]
    BY <1>4 DEF PlacingTyped, IsPlan
<1>7. PICK use, more, plan, next, lists :
        use = placing.use /\ more = placing'.use /\ plan = HostPlan /\ next = placing'.plan /\ lists = placing.vlans
    OBVIOUS
<1>8. \A g \in MeshHosts : /\ use[g].mem \in Nat /\ placing.read[g].mem \in Nat /\ MemOf(PinnedTo(plan, g)) \in Nat
                           /\ HostSize[g].mem \in Nat
    BY <1>6, <1>7, PinnedCounts, PlacementAssumption DEF Use
<1>9. \A g \in MeshHosts : more[g].mem = IF g = h THEN use[g].mem + Devices[N].mem ELSE use[g].mem
  <2>1. more = [use EXCEPT ![h]["mem"] = @ + Devices[N].mem] /\ use \in [MeshHosts -> Use]
      BY <1>5, <1>6, <1>7
  <2>. QED BY <1>2, <2>1 DEF Use
<1>10. \A g \in MeshHosts :
        MemOf(PinnedTo(next, g)) = IF g = h THEN MemOf(PinnedTo(plan, g)) + Devices[N].mem ELSE MemOf(PinnedTo(plan, g))
  <2>1. PutOn(plan, next, N, h) /\ h \in MeshHosts
      BY <1>2, <1>5, <1>6, <1>7 DEF PutOn
  <2>2. ASSUME NEW g \in MeshHosts
        PROVE  MemOf(PinnedTo(next, g)) = IF g = h THEN MemOf(PinnedTo(plan, g)) + Devices[N].mem ELSE MemOf(PinnedTo(plan, g))
      BY <2>1, <2>2, PlacedCounts
  <2>. QED BY <2>2
<1>11. ASSUME NEW g \in MeshHosts PROVE more[g].mem = placing.read[g].mem + MemOf(PinnedTo(next, g))
  <2>1. use[g].mem = placing.read[g].mem + MemOf(PinnedTo(plan, g))
      BY <1>4, <1>7 DEF VLANsTogether
  <2>. QED BY <1>4, <1>8, <1>9, <1>10, <2>1
<1>12. \A n \in 1 .. Len(Devices) : next[n] = IF n = N THEN h ELSE plan[n]
    BY <1>2, <1>5, <1>6, <1>7 DEF IsPlan
<1>13. plan[N] = Nowhere /\ Nowhere \notin MeshHosts
    BY <1>5, <1>7, PlacementAssumption
<1>14. \A n \in Given : n \in 1 .. Len(Devices) /\ n # N /\ plan[n] \in MeshHosts /\ next[n] = plan[n]
  <2>1. ASSUME NEW n \in Given PROVE n \in 1 .. Len(Devices) /\ n # N /\ plan[n] \in MeshHosts
      BY <1>4, <1>5, <1>7, DevicesFinite DEF Given, InOrder
  <2>. QED BY <1>12, <2>1
<1>15. \A u \in VLANs : lists[u] \in Seq(MeshHosts)
    BY <1>4, <1>7 DEF VLANsTogether
<1>16. /\ vlans[v] \in Seq(MeshHosts)
       /\ \E k \in 1 .. Len(vlans[v]) : vlans[v][k] = h
       /\ \A k \in 1 .. Len(vlans[v]) : vlans[v][k] = h \/ \E j \in 1 .. Len(lists[v]) : lists[v][j] = vlans[v][k]
       /\ \A j \in 1 .. Len(lists[v]) : \E k \in 1 .. Len(vlans[v]) : vlans[v][k] = lists[v][j]
  <2>1. PICK given, after : given = lists[v] /\ after = vlans[v]
      OBVIOUS
  <2>2. given \in Seq(MeshHosts) /\ h \in MeshHosts /\ Extends(given, after, h)
      BY <1>2, <1>3, <1>7, <1>15, <2>1
  <2>3. Holds(given, after, h)
      BY <2>2, ExtendsIs
  <2>. QED BY <2>1, <2>3 DEF Holds
<1>17. ASSUME NEW n \in Given \cup {N} PROVE \E k \in 1 .. Len(vlans[FirstVLAN(n)]) : vlans[FirstVLAN(n)][k] = next[n]
  <2>1. CASE n = N
      BY <1>1, <1>2, <1>12, <1>16, <2>1
  <2>2. CASE n \in Given
    <3>1. PICK u \in VLANs : u = FirstVLAN(n)
        BY <1>14, <2>2 DEF VLANs
    <3>2. \E j \in 1 .. Len(lists[u]) : lists[u][j] = next[n]
        BY <1>4, <1>7, <1>14, <2>2, <3>1 DEF VLANsTogether
    <3>3. CASE u = v
        BY <1>16, <3>1, <3>2, <3>3
    <3>4. CASE u # v
        BY <1>3, <1>7, <3>1, <3>2, <3>4
    <3>. QED BY <3>3, <3>4
  <2>. QED BY <2>1, <2>2
<1>18. \A u \in VLANs : \A j \in 1 .. Len(lists[u]) :
        \E n \in 1 .. Len(Devices) : FirstVLAN(n) = u /\ plan[n] = lists[u][j] /\ n # N /\ next[n] = lists[u][j]
  <2>1. ASSUME NEW u \in VLANs, NEW j \in 1 .. Len(lists[u])
        PROVE  \E n \in 1 .. Len(Devices) : FirstVLAN(n) = u /\ plan[n] = lists[u][j] /\ n # N /\ next[n] = lists[u][j]
    <3>1. PICK n \in 1 .. Len(Devices) : FirstVLAN(n) = u /\ plan[n] = lists[u][j]
        BY <1>4, <1>7, <2>1 DEF VLANsTogether
    <3>2. lists[u][j] \in MeshHosts
        BY <1>15
    <3>. QED BY <1>12, <1>13, <3>1, <3>2
  <2>. QED BY <2>1
<1>19. ASSUME NEW u \in VLANs, NEW k \in 1 .. Len(vlans[u])
       PROVE  \E n \in 1 .. Len(Devices) : FirstVLAN(n) = u /\ next[n] = vlans[u][k]
  <2>1. CASE u # v
      BY <1>3, <1>7, <1>18, <2>1
  <2>2. CASE u = v /\ vlans[u][k] = h
      BY <1>1, <1>2, <1>12, <2>2
  <2>3. CASE u = v /\ vlans[u][k] # h
    <3>1. PICK j \in 1 .. Len(lists[v]) : lists[v][j] = vlans[v][k]
        BY <1>16, <2>3
    <3>. QED BY <1>2, <1>18, <2>3, <3>1
  <2>. QED BY <2>1, <2>2, <2>3
<1>20. ASSUME NEW n \in Given \cup {N}, NEW m \in Given \cup {N}, m < n, FirstVLAN(m) = FirstVLAN(n), next[m] # next[n]
       PROVE  \/ more[next[m]].mem + Devices[n].mem >= HostSize[next[m]].mem
              \/ \E k \in 1 .. Len(Devices) : k # m /\ k # n /\ FirstVLAN(k) = FirstVLAN(n) /\ next[k] = next[n]
  <2>0. N \in Nat /\ \A i \in Given : i < N
      BY <1>2, <1>4, <1>5, DevicesFinite DEF InOrder
  <2>1. m \in Given
    <3>1. CASE m = N
      <4>1. n \in Given
          BY <1>20, <2>0, <3>1
      <4>. QED BY <1>14, <1>20, <2>0, <3>1, <4>1, DevicesFinite
    <3>. QED BY <3>1
  <2>2. plan[m] \in MeshHosts /\ next[m] = plan[m] /\ m \in 1 .. Len(Devices)
      BY <1>14, <2>1
  <2>3. CASE n \in Given
    <3>1. plan[n] \in MeshHosts /\ next[n] = plan[n] /\ n \in 1 .. Len(Devices) /\ plan[m] # plan[n]
        BY <1>14, <1>20, <2>2, <2>3
    <3>2. \/ use[plan[m]].mem + Devices[n].mem >= HostSize[plan[m]].mem
          \/ \E k \in 1 .. Len(Devices) : k # m /\ k # n /\ FirstVLAN(k) = FirstVLAN(n) /\ plan[k] = plan[n]
        BY <1>4, <1>7, <1>20, <2>1, <2>3, <3>1 DEF VLANsTogether
    <3>3. Devices[n].mem \in Nat
        BY <3>1, DevicesFinite
    <3>4. CASE use[plan[m]].mem + Devices[n].mem >= HostSize[plan[m]].mem
      <4>1. PICK g \in MeshHosts : g = plan[m]
          BY <2>2
      <4>2. more[g].mem >= use[g].mem /\ more[g].mem \in Nat
          BY <1>4, <1>8, <1>9
      <4>3. more[g].mem + Devices[n].mem >= HostSize[g].mem
          BY <1>8, <3>3, <3>4, <4>1, <4>2
      <4>. QED BY <2>2, <4>1, <4>3
    <3>5. CASE \E k \in 1 .. Len(Devices) : k # m /\ k # n /\ FirstVLAN(k) = FirstVLAN(n) /\ plan[k] = plan[n]
        BY <1>12, <1>13, <3>1, <3>5
    <3>. QED BY <3>2, <3>4, <3>5
  <2>4. CASE n = N
    <3>1. next[n] = h /\ plan[m] # h /\ FirstVLAN(m) = v
        BY <1>1, <1>2, <1>12, <1>20, <2>2, <2>4
    <3>2. CASE \E k \in 1 .. Len(lists[v]) : lists[v][k] = h
      <4>1. PICK i \in 1 .. Len(Devices) : FirstVLAN(i) = v /\ plan[i] = h /\ i # N /\ next[i] = h
          BY <1>2, <1>18, <3>2
      <4>. QED BY <1>1, <2>4, <3>1, <4>1
    <3>3. CASE \A k \in 1 .. Len(lists[v]) : use[lists[v][k]].mem + Devices[N].mem >= HostSize[lists[v][k]].mem
      <4>1. PICK k \in 1 .. Len(lists[v]) : lists[v][k] = plan[m]
          BY <1>4, <1>7, <2>1, <3>1 DEF VLANsTogether
      <4>2. use[plan[m]].mem + Devices[N].mem >= HostSize[plan[m]].mem
          BY <3>3, <4>1
      <4>3. more[plan[m]].mem = use[plan[m]].mem
          BY <1>9, <2>2, <3>1
      <4>. QED BY <2>2, <2>4, <4>2, <4>3
    <3>. QED BY <1>2, <1>7, <3>2, <3>3
  <2>. QED BY <1>20, <2>3, <2>4
<1>21. \A u \in VLANs : vlans[u] \in Seq(MeshHosts)
    BY <1>3, <1>7, <1>15, <1>16
<1>22. VLANsTogether'
  <2>1. HostPlan' = next /\ placing'.use = more /\ Given' = Given \cup {N} /\ placing'.vlans = vlans
      BY <1>5, <1>7 DEF HostPlan
  <2>2. \A g \in MeshHosts : placing'.use[g].mem = placing'.read[g].mem + MemOf(PinnedTo(HostPlan', g))
      BY <1>5, <1>11, <2>1
  <2>3. placing'.vlans = [u \in VLANs |-> placing'.vlans[u]] /\ \A u \in VLANs : placing'.vlans[u] \in Seq(MeshHosts)
      BY <1>3, <1>21, <2>1
  <2>4. \A n \in Given' : \E k \in 1 .. Len(placing'.vlans[FirstVLAN(n)]) : placing'.vlans[FirstVLAN(n)][k] = HostPlan'[n]
      BY <1>17, <2>1
  <2>5. \A u \in VLANs : \A k \in 1 .. Len(placing'.vlans[u]) :
            \E n \in 1 .. Len(Devices) : FirstVLAN(n) = u /\ HostPlan'[n] = placing'.vlans[u][k]
      BY <1>19, <2>1
  <2>6. \A n, m \in Given' : m < n /\ FirstVLAN(m) = FirstVLAN(n) /\ HostPlan'[m] # HostPlan'[n] =>
            \/ placing'.use[HostPlan'[m]].mem + Devices[n].mem >= HostSize[HostPlan'[m]].mem
            \/ \E k \in 1 .. Len(Devices) : k # m /\ k # n /\ FirstVLAN(k) = FirstVLAN(n) /\ HostPlan'[k] = HostPlan'[n]
      BY <1>20, <2>1
  <2>. QED BY <2>2, <2>3, <2>4, <2>5, <2>6 DEF VLANsTogether, PinnedTo
<1>23. RobinEven' /\ Isolated'
    BY <1>5 DEF RobinEven, Isolated
<1>. QED BY <1>5, <1>22, <1>23 DEF SchedulesInv

LEMMA IsolatedPlaces == ASSUME SchedulesInv, NEW h \in MeshHosts, PlacesIsolated(h) \/ PlacesByUser(h) PROVE SchedulesInv'
<1>1. AllOn(h) /\ placing.by \in {"isolate", "user"} /\ PlacingTyped
    BY DEF PlacesIsolated, PlacesByUser, SchedulesInv
<1>2. PICK plan, next : plan = placing.plan /\ next = [n \in DOMAIN plan |-> IF n \in Started THEN h ELSE plan[n]]
    OBVIOUS
<1>3. plan = [n \in 1 .. Len(Devices) |-> plan[n]]
      /\ placing = [by |-> placing.by, at |-> placing.at, use |-> placing.use, read |-> placing.read,
                    vlans |-> placing.vlans, plan |-> plan]
      /\ placing.use \in [MeshHosts -> Use] /\ placing.read \in [MeshHosts -> Use]
    BY <1>1, <1>2 DEF PlacingTyped, HostPlan
<1>4. placing' = [by |-> placing.by, at |-> "done", use |-> placing.use, read |-> placing.read, vlans |-> placing.vlans, plan |-> next]
      /\ schedules' = schedules
  <2>1. placing' = [placing EXCEPT !.at = "done", !.plan = next]
      BY <1>1, <1>2 DEF AllOn
  <2>. QED BY <1>1, <1>3, <2>1 DEF AllOn
<1>5. next = [n \in 1 .. Len(Devices) |-> next[n]] /\ \A n \in Started : next[n] = h
    BY <1>2, <1>3, DevicesFinite
<1>6. PlacingTyped'
    BY <1>1, <1>3, <1>4, <1>5 DEF PlacingTyped, HostPlan
<1>7. InOrder' /\ RobinEven' /\ VLANsTogether'
    BY <1>1, <1>4 DEF InOrder, RobinEven, VLANsTogether
<1>8. Isolated'
  <2>1. CASE placing.by = "isolate"
    <3>1. h \in Unused
        BY <2>1 DEF PlacesIsolated, PlacesByUser, MostFree, Fitting
    <3>2. placing.use = placing.read
        BY <2>1 DEF SchedulesInv, Isolated
    <3>3. placing.read[h].vms = 0
        BY <3>1, <3>2 DEF Unused
    <3>. QED BY <1>4, <1>5, <3>2, <3>3 DEF Isolated, HostPlan
  <2>2. CASE placing.by # "isolate"
      BY <1>4, <2>2 DEF Isolated
  <2>. QED BY <2>1, <2>2
<1>. QED BY <1>6, <1>7, <1>8 DEF SchedulesInv

LEMMA ScheduleStores == ASSUME SchedulesInv, Schedule PROVE SchedulesInv'
<1>1. placing' = NotPlacing /\ placing.by # "none" /\ PlacingTyped
      /\ (schedules' = placing.plan \/ schedules' = schedules)
    BY DEF Schedule, SchedulesInv
<1>2. schedules' = [n \in 1 .. Len(Devices) |-> schedules'[n]]
    BY <1>1 DEF PlacingTyped, HostPlan
<1>3. placing'.by = "none"
    BY <1>1 DEF NotPlacing
<1>. QED BY <1>2, <1>3 DEF SchedulesInv, PlacingTyped, InOrder, RobinEven, VLANsTogether, Isolated

LEMMA SchedulesStay ==
    ASSUME SchedulesInv, RivalsKnown, [PlacementNext]_placementVars
    PROVE  SchedulesInv'
<1>1. CASE DiskSteps
    BY <1>1, DisksApart, SchedulesSame
<1>2. CASE DisksPreflight \/ PreflightSteps
  <2>1. UNCHANGED scheduling
    <3>. USE DEF Reads, Reported
    <3>1. CASE PreflightDraft \/ DisksAsk \/ DisksCheck \/ \E c \in Checks : RunPreflightCheck(c) \/ CheckTimesOut(c)
        BY <3>1 DEF PreflightDraft, DisksAsk, DisksCheck, RunPreflightCheck, CheckTimesOut
    <3>2. CASE CapacityCheck \/ NetworkRange \/ AliasesInUse \/ MissingBridges
        BY <3>2 DEF CapacityCheck, NetworkRange, AliasesInUse, MissingBridges
    <3>3. CASE AppsDone \/ \E s \in Scenarios : AppsCheck(s)
        BY <3>3 DEF AppsDone, AppsCheck
    <3>4. CASE ConfigChanges \/ \E x \in Rivals : RivalChanges(x)
        BY <3>4 DEF ConfigChanges, RivalChanges
    <3>5. "disks" \in Checks
        BY DEF Checks
    <3>. QED BY <1>2, <3>1, <3>2, <3>3, <3>4, <3>5 DEF DisksPreflight, PreflightSteps
  <2>. QED BY <2>1, SchedulesSame
<1>3. CASE \E x \in Rivals : RivalChanges(x)
  <2>1. UNCHANGED scheduling
      BY <1>3 DEF RivalChanges
  <2>. QED BY <2>1, SchedulesSame
<1>4. CASE RoundRobin \/ SubnetCompute \/ Isolate \/ UserScheduler \/ Schedule
    BY <1>4, RobinBegins, SubnetBegins, OthersBegin, ScheduleStores
<1>5. CASE \E h \in MeshHosts : PlacesRobin(h) \/ PlacesBySubnet(h) \/ PlacesIsolated(h) \/ PlacesByUser(h)
    BY <1>5, RobinPlaces, SubnetPlaces, IsolatedPlaces
<1>6. CASE UNCHANGED placementVars
    BY <1>6, SchedulesSame DEF placementVars, scheduling
<1>. QED BY <1>1, <1>2, <1>3, <1>4, <1>5, <1>6 DEF PlacementNext, SchedulerSteps

LEMMA RivalsStay == ASSUME RivalsKnown, [PlacementNext]_placementVars PROVE RivalsKnown'
<1>1. CASE DiskSteps
    BY <1>1, DisksApart DEF cluster, RivalsKnown
<1>2. CASE DisksPreflight \/ PreflightSteps
  <2>. USE DEF Reads, Reported, cluster, RivalsKnown
  <2>1. CASE PreflightDraft \/ DisksAsk \/ DisksCheck \/ \E c \in Checks : RunPreflightCheck(c) \/ CheckTimesOut(c)
      BY <2>1 DEF PreflightDraft, DisksAsk, DisksCheck, RunPreflightCheck, CheckTimesOut
  <2>2. CASE CapacityCheck \/ NetworkRange \/ AliasesInUse \/ MissingBridges
      BY <2>2 DEF CapacityCheck, NetworkRange, AliasesInUse, MissingBridges
  <2>3. CASE AppsDone \/ \E s \in Scenarios : AppsCheck(s)
      BY <2>3 DEF AppsDone, AppsCheck
  <2>4. CASE ConfigChanges \/ \E x \in Rivals : RivalChanges(x)
      BY <2>4 DEF ConfigChanges, RivalChanges
  <2>5. "disks" \in Checks
      BY DEF Checks
  <2>. QED BY <1>2, <2>1, <2>2, <2>3, <2>4, <2>5 DEF DisksPreflight, PreflightSteps
<1>3. CASE \E x \in Rivals : RivalChanges(x)
    BY <1>3 DEF RivalChanges, RivalsKnown
<1>4. CASE RoundRobin \/ SubnetCompute \/ Isolate \/ UserScheduler \/ Schedule
    BY <1>4 DEF RoundRobin, SubnetCompute, Isolate, UserScheduler, Schedule, BeginsPlacing, SchedulerOnly, cluster, RivalsKnown
<1>5. CASE \E h \in MeshHosts : PlacesRobin(h) \/ PlacesBySubnet(h) \/ PlacesIsolated(h) \/ PlacesByUser(h)
    BY <1>5 DEF PlacesRobin, PlacesBySubnet, PlacesIsolated, PlacesByUser, Places, AllOn, SchedulerOnly, cluster, RivalsKnown
<1>6. CASE UNCHANGED placementVars
    BY <1>6 DEF placementVars, RivalsKnown
<1>. QED BY <1>1, <1>2, <1>3, <1>4, <1>5, <1>6 DEF PlacementNext, SchedulerSteps

LEMMA SchedulesBegin == PlacementInit => SchedulesInv /\ RivalsKnown
<1>. SUFFICES ASSUME PlacementInit PROVE SchedulesInv /\ RivalsKnown
    OBVIOUS
<1>1. placing.by = "none" /\ schedules \in Pins /\ running = {}
    BY DEF PlacementInit, NotPlacing
<1>2. schedules = [n \in 1 .. Len(Devices) |-> schedules[n]]
    BY <1>1, PlacementAssumption
<1>. QED BY <1>1, <1>2 DEF SchedulesInv, PlacingTyped, InOrder, RobinEven, VLANsTogether, Isolated, RivalsKnown

LEMMA SchedulesAreFair == SchedulesInv => SchedulesFair
<1>. SUFFICES ASSUME SchedulesInv, placing.by # "none" PROVE SchedulesFair
    BY DEF SchedulesFair
<1>1. PlacingTyped /\ InOrder /\ RobinEven /\ VLANsTogether /\ Isolated
    BY DEF SchedulesInv
<1>2. DOMAIN schedules = 1 .. Len(Devices) /\ DOMAIN placing.plan = 1 .. Len(Devices)
    BY <1>1 DEF PlacingTyped, HostPlan
<1>3. placing.by \in {"round-robin", "subnet-compute"} =>
        \A n \in DOMAIN schedules : schedules[n] # Nowhere => placing.plan[n] = schedules[n]
    BY <1>1, <1>2 DEF InOrder, Given, HostPlan
<1>4. \A n \in Given : placing.by \in {"round-robin", "subnet-compute"} => n \in 1 .. Len(Devices) /\ placing.plan[n] \in MeshHosts
    BY <1>1, DevicesFinite DEF InOrder, Given, HostPlan
<1>5. ASSUME placing.by = "round-robin", NEW n \in Given, NEW h \in MeshHosts
      PROVE  placing.read[placing.plan[n]].vms + Cardinality(PinnedTo(placing.plan, placing.plan[n]))
                <= placing.read[h].vms + Cardinality(PinnedTo(placing.plan, h)) + 1
    BY <1>1, <1>4, <1>5 DEF RobinEven, HostPlan
<1>6. ASSUME placing.by = "subnet-compute", NEW n \in Given, NEW m \in Given,
             m < n, FirstVLAN(m) = FirstVLAN(n), placing.plan[m] # placing.plan[n]
      PROVE  \/ placing.read[placing.plan[m]].mem + MemOf(PinnedTo(placing.plan, placing.plan[m])) + Devices[n].mem
                    >= HostSize[placing.plan[m]].mem
             \/ \E k \in DOMAIN placing.plan \ {m} : FirstVLAN(k) = FirstVLAN(n) /\ placing.plan[k] = placing.plan[n] /\ k # n
  <2>1. placing.use[placing.plan[m]].mem = placing.read[placing.plan[m]].mem + MemOf(PinnedTo(placing.plan, placing.plan[m]))
      BY <1>1, <1>4, <1>6 DEF VLANsTogether, HostPlan
  <2>2. \/ placing.use[placing.plan[m]].mem + Devices[n].mem >= HostSize[placing.plan[m]].mem
        \/ \E k \in 1 .. Len(Devices) : k # m /\ k # n /\ FirstVLAN(k) = FirstVLAN(n) /\ placing.plan[k] = placing.plan[n]
      BY <1>1, <1>6 DEF VLANsTogether, HostPlan
  <2>. QED BY <1>2, <2>1, <2>2
<1>7. placing.by = "isolate" /\ placing.at = "done" =>
        \E h \in MeshHosts : placing.read[h].vms = 0 /\ \A n \in Started : placing.plan[n] = h
    BY <1>1 DEF Isolated, HostPlan
<1>. QED BY <1>3, <1>5, <1>6, <1>7 DEF SchedulesFair, Given, HostPlan

\* What a request is told of the disk images is right of the time between,
\* what preflight lets pass was so, and the schedulers' promises hold against
\* the hosts they read: for any diagram, cluster and callers.
THEOREM PlacementStaysSound == PlacementSpec => []PlacementSound
<1>1. PlacementInit => PlacementInv
    BY ListingBegins, PassedBegins, SchedulesBegin DEF PlacementInv
<1>2. PlacementInv /\ [PlacementNext]_placementVars => PlacementInv'
    BY ListingStays, PassedStays, SchedulesStay, RivalsStay DEF PlacementInv
<1>3. PlacementInv => PlacementSound
    BY ListingIsFresh, PassedIsTrue, SchedulesAreFair DEF PlacementInv, PlacementSound
<1>. QED BY <1>1, <1>2, <1>3, PTL DEF PlacementSpec
===============================================================================

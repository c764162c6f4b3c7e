------------------------------ MODULE Terminals ------------------------------
(***************************************************************************)
(* What the browser sees of running programs: the terminal of a Scorch     *)
(* breakpoint, which one client types in and others watch; the output of a *)
(* Scorch component, kept by one loop and streamed to clients that another *)
(* loop takes in; and the minimega consoles.                               *)
(*                                                                         *)
(* Bytes are numbered chunks. One breakpoint and one component stand for   *)
(* all: the code keeps them apart by key.                                  *)
(***************************************************************************)
EXTENDS Naturals, Sequences, FiniteSets

CONSTANTS
    TermClients,  \* clients of the terminal
    Viewers,      \* clients of the component's output
    Consoles,     \* consoles ever created
    Pids,         \* process IDs, used again once reaped
    MaxChunks,    \* bound: output of the terminal, of the component
    MaxConnects,  \* bound: links to the terminal that are asked for
    NoOne

ASSUME TerminalsAssumption ==
    /\ NoOne \notin TermClients \cup Viewers \cup Consoles \cup Pids
    /\ TermClients \cap Viewers = {}
    /\ "run" \notin TermClients /\ MaxChunks \in Nat /\ MaxConnects \in Nat

VARIABLES
    term,        \* the terminal: none yet, up, gone; in the maps of web terminals while up
    killing,     \* those about to kill it: clients, and the goroutine that watches the run
    runWatch,    \* that goroutine: none yet, waiting, over
    panicked,    \* a channel was closed twice outside a request's goroutine: phenix is gone
    runOver,     \* the run has been cancelled
    rwTerm,      \* the client that may type
    link,        \* links to the terminal: given with a timer, opened, none
    client,      \* what each client does
    termReaders,     \* clients whose goroutine reads the terminal
    inHand,      \* what such a goroutine has read: chunk, and how far it is with it
    roTerms,     \* clients that watch
    history,     \* chunks kept for those who come later
    printed,     \* chunks the program has printed
    sentTo,       \* chunks each client or viewer has been sent
    lapsed,      \* ghost: a timer took the right to type from a client that had not let it lapse
    cut,         \* ghost: a broken connection ended a broadcast for the others too
    cmp,         \* the component: none yet, started, running, finished
    late,        \* ghost: its last line was handled after its end
    marked,     \* whether it is marked as running
    output,      \* its output, as kept
    ws,          \* viewers the output is streamed to
    socketAt,    \* the loop that takes viewers in: viewer, step, output it read
    viewer,      \* away, asked, streaming, done
    raced,       \* ghost: viewers taken in while an update was handled
    ptys,        \* console of each process ID
    console,     \* how far each console is
    pidOf,       \* its process ID
    typing,      \* how far the handler of its web socket is
    displaced,   \* ghost: consoles that an earlier one's handler removed
    connects     \* count (bound)

termVars == <<term, killing, runWatch, panicked, runOver, rwTerm, link, client, termReaders, inHand, roTerms, history, printed, lapsed, cut, connects>>
cmpVars == <<cmp, late, marked, output, ws, socketAt, viewer, raced>>
consoleVars == <<ptys, console, pidOf, typing, displaced>>
terminalsVars == <<termVars, sentTo, cmpVars, consoleVars>>

Free == [chunk |-> 0, at |-> "none"]
NoSocket == [viewer |-> NoOne, at |-> "none", out |-> << >>]

TerminalsTypeOK ==
    /\ term \in {"none", "up", "gone"} /\ killing \subseteq TermClients \cup {"run"}
    /\ runWatch \in {"none", "waiting", "over"} /\ panicked \in BOOLEAN
    /\ runOver \in BOOLEAN /\ lapsed \in BOOLEAN /\ cut \in BOOLEAN
    /\ rwTerm \in TermClients \cup {NoOne}
    /\ link \in [TermClients -> {"none", "given", "opened", "used"}]
    /\ client \in [TermClients -> {"away", "connecting", "typing", "watching", "broken", "left"}]
    /\ termReaders \cup roTerms \subseteq TermClients
    /\ history \subseteq 1 .. printed /\ printed \in 0 .. MaxChunks
    /\ cmp \in {"none", "started", "running", "finished"} /\ late \in BOOLEAN
    /\ marked \in BOOLEAN /\ ws \cup raced \subseteq Viewers
    /\ ptys \in [Pids -> Consoles \cup {NoOne}]

TerminalsInit ==
    /\ term = "none" /\ killing = {} /\ runWatch = "none" /\ panicked = FALSE /\ runOver = FALSE /\ rwTerm = NoOne
    /\ link = [c \in TermClients |-> "none"] /\ client = [c \in TermClients |-> "away"]
    /\ termReaders = {} /\ inHand = [c \in TermClients |-> Free] /\ roTerms = {} /\ history = {} /\ printed = 0
    /\ sentTo = [c \in TermClients \cup Viewers |-> {}] /\ lapsed = FALSE /\ cut = FALSE
    /\ cmp = "none" /\ late = FALSE /\ marked = FALSE /\ output = << >> /\ ws = {} /\ socketAt = NoSocket
    /\ viewer = [v \in Viewers |-> "away"] /\ raced = {}
    /\ connects = 0
    /\ ptys = [p \in Pids |-> NoOne] /\ console = [k \in Consoles |-> "none"]
    /\ pidOf = [k \in Consoles |-> NoOne] /\ typing = [k \in Consoles |-> "none"] /\ displaced = {}

----------------------------------------------------------------------------
(* The terminal of a breakpoint.                                           *)

Elsewhere == UNCHANGED cmpVars /\ UNCHANGED consoleVars

\* CreateWebTerminal
CreateTerminal ==
    /\ term = "none"
    /\ term' = "up" /\ runWatch' = "waiting"
    /\ UNCHANGED <<killing, panicked, runOver, rwTerm, link, client, termReaders, inHand, roTerms, history, printed, lapsed, cut, sentTo>> /\ Elsewhere

CancelRun ==
    /\ term # "none" /\ ~runOver
    /\ runOver' = TRUE
    /\ UNCHANGED <<term, killing, runWatch, panicked, rwTerm, link, client, termReaders, inHand, roTerms, history, printed, lapsed, cut, sentTo>> /\ Elsewhere

\* initTerminal: a link for the client, and the right to type if nobody has it.
InitTerminal(c) ==
    /\ rwTerm' = IF rwTerm = NoOne THEN c ELSE rwTerm
    /\ link' = [link EXCEPT ![c] = "given"]
    /\ client' = [client EXCEPT ![c] = "connecting"]

GetTerminalByExperiment == term = "up"
GetTerminalByPID == term = "up"

ConnectTerminal(c) ==
    /\ client[c] \in {"away", "left"} /\ link[c] = "none" /\ c \notin termReaders
    /\ GetTerminalByExperiment
    /\ InitTerminal(c)
    /\ UNCHANGED <<term, killing, runWatch, panicked, runOver, termReaders, inHand, roTerms, history, printed, lapsed, cut, sentTo>> /\ Elsewhere

\* The link's timer: it takes the right to type from whoever has it. Once
\* the link has been used the goroutine may still find its timer first.
LinkLapses(c) ==
    /\ link[c] \in {"given", "opened", "used"}
    /\ link' = [link EXCEPT ![c] = "none"]
    /\ rwTerm' = NoOne
    /\ lapsed' = (lapsed \/ rwTerm \notin {NoOne, c} \/ client[c] = "typing")
    /\ UNCHANGED <<term, killing, runWatch, panicked, runOver, client, termReaders, inHand, roTerms, history, printed, cut, sentTo>> /\ Elsewhere

LinkForgotten(c) ==
    /\ link[c] = "used"
    /\ link' = [link EXCEPT ![c] = "none"]
    /\ UNCHANGED <<term, killing, runWatch, panicked, runOver, rwTerm, client, termReaders, inHand, roTerms, history, printed, lapsed, cut, sentTo>> /\ Elsewhere

\* StreamTerminal: the link is looked up; one that is not known any more, or
\* whose terminal is gone, is refused.
StreamTerminal(c) ==
    /\ client[c] = "connecting"
    /\ IF GetTerminalByPID /\ link[c] = "given"
       THEN link' = [link EXCEPT ![c] = "opened"] /\ UNCHANGED client
       ELSE client' = [client EXCEPT ![c] = "left"] /\ UNCHANGED link /\ link[c] # "opened"
    /\ UNCHANGED <<term, killing, runWatch, panicked, runOver, rwTerm, termReaders, inHand, roTerms, history, printed, lapsed, cut, sentTo>> /\ Elsewhere

\* Then its timer is told, and whoever has the right types.
StreamsTyping(c) ==
    /\ client[c] = "connecting" /\ rwTerm = c /\ link[c] = "opened"
    /\ link' = [link EXCEPT ![c] = "used"]
    /\ client' = [client EXCEPT ![c] = "typing"]
    /\ termReaders' = termReaders \cup {c}
    /\ UNCHANGED <<term, killing, runWatch, panicked, runOver, rwTerm, inHand, roTerms, history, printed, lapsed, cut, sentTo>> /\ Elsewhere

\* Anyone else watches: he is sent the history and joins the others under
\* one lock.
StreamsWatching(c) ==
    /\ client[c] = "connecting" /\ rwTerm # c /\ link[c] = "opened"
    /\ link' = [link EXCEPT ![c] = "used"]
    /\ client' = [client EXCEPT ![c] = "watching"]
    /\ roTerms' = roTerms \cup {c}
    /\ sentTo' = [sentTo EXCEPT ![c] = @ \cup history]
    /\ UNCHANGED <<term, killing, runWatch, panicked, runOver, rwTerm, termReaders, inHand, history, printed, lapsed, cut>> /\ Elsewhere

\* readTerm, until the program has ended or its terminal is gone. What is
\* read for a client that has left goes nowhere.
ReadTerm(c) ==
    /\ c \in termReaders /\ inHand[c] = Free
    /\ \/ /\ term = "up" /\ printed < MaxChunks
          /\ printed' = printed + 1
          /\ IF client[c] = "typing"
             THEN /\ inHand' = [inHand EXCEPT ![c] = [chunk |-> printed + 1, at |-> "shown"]]
                  /\ sentTo' = [sentTo EXCEPT ![c] = @ \cup {printed + 1}]
                  /\ UNCHANGED termReaders
             ELSE termReaders' = termReaders \ {c} /\ UNCHANGED <<inHand, sentTo>>
       \/ (term = "gone" \/ printed = MaxChunks) /\ termReaders' = termReaders \ {c} /\ UNCHANGED <<printed, inHand, sentTo>>
    /\ UNCHANGED <<term, killing, runWatch, panicked, runOver, rwTerm, link, client, roTerms, history, lapsed, cut>> /\ Elsewhere

KeepHistory(c) ==
    /\ inHand[c].at = "shown"
    /\ history' = history \cup {inHand[c].chunk}
    /\ inHand' = [inHand EXCEPT ![c].at = "kept"]
    /\ UNCHANGED <<term, killing, runWatch, panicked, runOver, rwTerm, link, client, termReaders, roTerms, printed, lapsed, cut, sentTo>> /\ Elsewhere

\* The watchers in the order of a map. A broken connection ends the loop:
\* those behind it miss the chunk. Its done channel is closed; when the
\* watcher has not gone by the next chunk it is closed again.
ShowWatchers(c) ==
    /\ inHand[c].at = "kept"
    /\ inHand' = [inHand EXCEPT ![c] = Free]
    /\ \E to \in SUBSET {w \in roTerms : client[w] = "watching"} :
        /\ \/ to = roTerms /\ UNCHANGED <<client, cut, panicked>>
           \/ \E w \in roTerms \ to :
                /\ client' = [client EXCEPT ![w] = "broken"]
                /\ panicked' = (client[w] = "broken")
                /\ cut' = TRUE
        /\ sentTo' = [x \in DOMAIN sentTo |-> IF x \in to THEN sentTo[x] \cup {inHand[c].chunk} ELSE sentTo[x]]
    /\ UNCHANGED <<term, killing, runWatch, runOver, rwTerm, link, termReaders, roTerms, history, printed, lapsed>> /\ Elsewhere

\* The client who types goes: the right to type is free again. His reader
\* ends only when it has read once more.
WriteTerm(c) ==
    /\ client[c] = "typing"
    /\ client' = [client EXCEPT ![c] = "left"]
    /\ rwTerm' = NoOne
    /\ UNCHANGED <<term, killing, runWatch, panicked, runOver, link, termReaders, inHand, roTerms, history, printed, lapsed, cut, sentTo>> /\ Elsewhere

\* waitTerm: a broken watcher goes, and once the terminal is gone nobody
\* watches any more.
WaitTerm(c) ==
    /\ \/ client[c] = "broken" /\ roTerms' = roTerms \ {c}
       \/ client[c] \in {"watching", "broken"} /\ term = "gone" /\ roTerms' = {}
    /\ client' = [client EXCEPT ![c] = "left"]
    /\ UNCHANGED <<term, killing, runWatch, panicked, runOver, rwTerm, link, termReaders, inHand, history, printed, lapsed, cut, sentTo>> /\ Elsewhere

\* ExitTerminal: only the one who may type.
ExitByClient(c) ==
    /\ c \notin killing /\ GetTerminalByPID /\ rwTerm = c
    /\ killing' = killing \cup {c}
    /\ UNCHANGED <<term, runWatch, panicked, runOver, rwTerm, link, client, termReaders, inHand, roTerms, history, printed, lapsed, cut, sentTo>> /\ Elsewhere

\* The goroutine that waits for the run's end or the terminal's, and takes
\* either when both have come.
WatchesRun ==
    /\ runWatch = "waiting" /\ runWatch' = "over"
    /\ \/ runOver /\ killing' = killing \cup {"run"}
       \/ term = "gone" /\ UNCHANGED killing
    /\ UNCHANGED <<term, panicked, runOver, rwTerm, link, client, termReaders, inHand, roTerms, history, printed, lapsed, cut, sentTo>> /\ Elsewhere

\* KillTerminal. Done is closed first: the second to come panics there, which
\* the server recovers from in a request and not in that goroutine. A
\* client's exit drops the history as well.
KillsTerminal(k) ==
    /\ k \in killing
    /\ killing' = killing \ {k}
    /\ term' = "gone"
    /\ panicked' = (term = "gone" /\ k = "run")
    /\ history' = IF term = "up" /\ k # "run" THEN {} ELSE history
    /\ UNCHANGED <<runWatch, runOver, rwTerm, link, client, termReaders, inHand, roTerms, printed, lapsed, cut, sentTo>> /\ Elsewhere

TerminalSteps ==
    /\ ~panicked
    /\ \/ /\ connects < MaxConnects /\ connects' = connects + 1
          /\ \E c \in TermClients : ConnectTerminal(c)
       \/ /\ UNCHANGED connects
          /\ \/ CreateTerminal \/ CancelRun \/ WatchesRun
             \/ \E c \in TermClients :
                \/ LinkLapses(c) \/ LinkForgotten(c) \/ StreamTerminal(c) \/ StreamsTyping(c) \/ StreamsWatching(c)
                \/ ReadTerm(c) \/ KeepHistory(c) \/ ShowWatchers(c) \/ WriteTerm(c) \/ WaitTerm(c) \/ ExitByClient(c)
             \/ \E k \in TermClients \cup {"run"} : KillsTerminal(k)

----------------------------------------------------------------------------
(* The output of a component. processComponents handles one update or      *)
(* request at a time; processWebSockets reads the same maps beside it.     *)

NotComponents == UNCHANGED termVars /\ UNCHANGED consoleVars
Chunks(out) == {out[i] : i \in 1 .. Len(out)}
Racing == IF socketAt.at \in {"read", "checked"} THEN {socketAt.viewer} ELSE {}

ComponentStarts ==
    /\ cmp = "none" /\ cmp' = "started"
    /\ output' = << >>
    /\ raced' = raced \cup Racing
    /\ UNCHANGED <<late, marked, ws, socketAt, viewer, sentTo>> /\ NotComponents

ComponentRuns ==
    /\ cmp = "started" /\ cmp' = "running"
    /\ marked' = TRUE
    /\ raced' = raced \cup Racing
    /\ UNCHANGED <<late, output, ws, socketAt, viewer, sentTo>> /\ NotComponents

\* Output is kept, and streamed to the viewers taken in. A goroutine of the
\* component's own hands it on, so its last line may come after the end.
ComponentPrints ==
    /\ cmp = "running" \/ (cmp = "finished" /\ ~late)
    /\ Len(output) < MaxChunks
    /\ late' = (cmp = "finished")
    /\ marked' = TRUE
    /\ output' = Append(output, Len(output) + 1)
    /\ \E gone \in SUBSET ws :
        /\ ws' = ws \ gone
        /\ viewer' = [v \in Viewers |-> IF v \in gone THEN "done" ELSE viewer[v]]
        /\ sentTo' = [x \in DOMAIN sentTo |-> IF x \in ws \ gone THEN sentTo[x] \cup {Len(output) + 1} ELSE sentTo[x]]
    /\ raced' = raced \cup Racing
    /\ UNCHANGED <<cmp, socketAt>> /\ NotComponents

\* Fault: the viewers are not let go.
FinishesAlone ==
    /\ cmp = "running" /\ cmp' = "finished"
    /\ marked' = FALSE
    /\ raced' = raced \cup Racing
    /\ UNCHANGED <<late, output, ws, viewer, socketAt, sentTo>> /\ NotComponents

ComponentFinishes ==
    /\ cmp = "running" /\ cmp' = "finished"
    /\ marked' = FALSE
    /\ ws' = {} /\ viewer' = [v \in Viewers |-> IF v \in ws THEN "done" ELSE viewer[v]]
    /\ raced' = raced \cup Racing
    /\ UNCHANGED <<late, output, socketAt, sentTo>> /\ NotComponents

\* GetComponentOutput: the output of a component that does not run, else
\* where to stream it from.
GetComponentOutput(v) ==
    /\ viewer[v] = "away" /\ cmp # "none"
    /\ IF marked THEN viewer' = [viewer EXCEPT ![v] = "asked"] /\ UNCHANGED sentTo
       ELSE viewer' = [viewer EXCEPT ![v] = "done"] /\ sentTo' = [sentTo EXCEPT ![v] = Chunks(output)]
    /\ UNCHANGED <<cmp, late, marked, output, ws, socketAt, raced>> /\ NotComponents

\* processWebSockets: reads the output, looks whether the component runs, and
\* takes the viewer in.
TakesViewer(v) ==
    /\ viewer[v] = "asked" /\ socketAt = NoSocket
    /\ socketAt' = [viewer |-> v, at |-> "read", out |-> output]
    /\ UNCHANGED <<cmp, late, marked, output, ws, viewer, raced, sentTo>> /\ NotComponents

LooksRunning ==
    /\ socketAt.at = "read"
    /\ IF marked THEN socketAt' = [socketAt EXCEPT !.at = "checked"] /\ UNCHANGED <<viewer, sentTo>>
       ELSE /\ viewer' = [viewer EXCEPT ![socketAt.viewer] = "done"]
            /\ sentTo' = [sentTo EXCEPT ![socketAt.viewer] = Chunks(socketAt.out)]
            /\ socketAt' = NoSocket
    /\ UNCHANGED <<cmp, late, marked, output, ws, raced>> /\ NotComponents

AddsViewer ==
    /\ socketAt.at = "checked"
    /\ ws' = ws \cup {socketAt.viewer}
    /\ viewer' = [viewer EXCEPT ![socketAt.viewer] = "streaming"]
    /\ sentTo' = [sentTo EXCEPT ![socketAt.viewer] = @ \cup Chunks(socketAt.out)]
    /\ socketAt' = NoSocket
    /\ UNCHANGED <<cmp, late, marked, output, raced>> /\ NotComponents

ComponentSteps ==
    \/ ComponentStarts \/ ComponentRuns \/ ComponentPrints \/ ComponentFinishes \/ LooksRunning \/ AddsViewer
    \/ \E v \in Viewers : GetComponentOutput(v) \/ TakesViewer(v)

----------------------------------------------------------------------------
(* minimega consoles.                                                      *)

NotConsoles == UNCHANGED <<termVars, sentTo, cmpVars>>
InUse == {pidOf[k] : k \in {j \in Consoles : console[j] \in {"live", "exited"}}}

CreateConsole(k, p) ==
    /\ console[k] = "none" /\ p \notin InUse
    /\ console' = [console EXCEPT ![k] = "live"] /\ pidOf' = [pidOf EXCEPT ![k] = p]
    /\ ptys' = [ptys EXCEPT ![p] = k]
    /\ UNCHANGED <<typing, displaced>> /\ NotConsoles

ConsoleExits(k) ==
    /\ console[k] = "live"
    /\ console' = [console EXCEPT ![k] = "exited"]
    /\ UNCHANGED <<ptys, pidOf, typing, displaced>> /\ NotConsoles

\* cmd.Wait returns, and the process ID is free.
Reaped(k) ==
    /\ console[k] = "exited"
    /\ console' = [console EXCEPT ![k] = "reaped"]
    /\ UNCHANGED <<ptys, pidOf, typing, displaced>> /\ NotConsoles

DropsPty(k) ==
    /\ console[k] = "reaped"
    /\ console' = [console EXCEPT ![k] = "gone"]
    /\ ptys' = [ptys EXCEPT ![pidOf[k]] = IF @ = k THEN NoOne ELSE @]
    /\ UNCHANGED <<pidOf, typing, displaced>> /\ NotConsoles

\* ResizeConsole and WsConsole look the console up by its process ID.
PtyOf(k) == pidOf[k] # NoOne /\ ptys[pidOf[k]] = k

WsConsole(k) ==
    /\ typing[k] = "none" /\ PtyOf(k)
    /\ typing' = [typing EXCEPT ![k] = "copying"]
    /\ UNCHANGED <<ptys, console, pidOf, displaced>> /\ NotConsoles

\* The client goes: the process is killed and waited for,
KillsConsole(k) ==
    /\ typing[k] = "copying"
    /\ typing' = [typing EXCEPT ![k] = "killed"]
    /\ console' = [console EXCEPT ![k] = IF @ \in {"live", "exited"} THEN "reaped" ELSE @]
    /\ UNCHANGED <<ptys, pidOf, displaced>> /\ NotConsoles

\* and its process ID removed, whoever has it by now.
ForgetsConsole(k) ==
    /\ typing[k] = "killed"
    /\ typing' = [typing EXCEPT ![k] = "done"]
    /\ displaced' = IF ptys[pidOf[k]] \in {k, NoOne} THEN displaced ELSE displaced \cup {ptys[pidOf[k]]}
    /\ ptys' = [ptys EXCEPT ![pidOf[k]] = NoOne]
    /\ UNCHANGED <<console, pidOf>> /\ NotConsoles

ConsoleSteps ==
    \E k \in Consoles :
        \/ \E p \in Pids : CreateConsole(k, p)
        \/ ConsoleExits(k) \/ Reaped(k) \/ DropsPty(k) \/ WsConsole(k) \/ KillsConsole(k) \/ ForgetsConsole(k)

TerminalsNext == TerminalSteps \/ ComponentSteps \/ ConsoleSteps

TerminalsSpec == TerminalsInit /\ [][TerminalsNext]_terminalsVars

----------------------------------------------------------------------------
\* One client types in a breakpoint's terminal, unless another's timer took
\* his right away; and those who watch have been sent every chunk that is
\* kept and not just being sent, whenever they came and whoever typed
\* meanwhile, unless a broken connection cut a broadcast short
\* (terminalWsHandler, initTerminal).
TerminalShared ==
    /\ ~lapsed => Cardinality({c \in TermClients : client[c] = "typing"}) <= 1
    /\ ~cut => \A w \in roTerms : history \subseteq sentTo[w] \cup {inHand[c].chunk : c \in TermClients}

\* A viewer taken in while no update was handled beside it has all the
\* output there is, and is let go when the component finishes, unless a last
\* line came late (processWebSockets, processComponents).
StreamsShown ==
    \A v \in Viewers \ raced : viewer[v] = "streaming" => (late \/ cmp = "running") /\ Chunks(output) \subseteq sentTo[v]

\* A console that runs can be reached by its process ID, and one that is
\* gone cannot, however process IDs are used again: unless the handler of an
\* earlier one's web socket removed it (CreateConsole, WsConsole).
ConsolesReachable ==
    \A k \in Consoles \ displaced : (console[k] = "live" => PtyOf(k)) /\ (console[k] = "gone" => ~PtyOf(k))

\* What programs print reaches those who look at it, and what is typed the
\* program it is for: all three.
OutputsShown == TerminalShared /\ StreamsShown /\ ConsolesReachable
=============================================================================

----------------------------- MODULE DaemonServer -----------------------------
(***************************************************************************)
(* chalybsd's server loop and its TUI clients (daemon/src/server.rs,       *)
(* daemon/src/state.rs, tui/src/app.rs): on each tick the daemon accepts    *)
(* connections, drains the commands of every client, handles them, steps    *)
(* the VM, builds one snapshot with the new events and writes it to every   *)
(* client.  The sockets do not block and hold a bounded number of pieces:   *)
(* a snapshot is a line of Parts pieces, a command a text and a newline.    *)
(*                                                                         *)
(* There is one VM, reduced to the events its runtime collects; VmLifecycle *)
(* has what it does.                                                       *)
(***************************************************************************)
EXTENDS Naturals, Sequences, SequencesExt

CONSTANTS
    Client,
    Parts,    \* the pieces a snapshot is written and read in
    Room,     \* the pieces a socket holds in one direction
    Newline,  \* the piece that ends a command
    Torn,     \* the clients with text a read may cut within a UTF-8 character
    MaxTick,  \* bound: the ticks of a run
    MaxCommand \* bound: the commands the user of each TUI types

ASSUME PartsAssumption == Parts \in Nat \ {0}
ASSUME RoomAssumption == Room \in Nat \ {0}
ASSUME TornAssumption == Torn \subseteq Client
ASSUME BoundAssumption == MaxTick \in Nat /\ MaxCommand \in [Client -> Nat]

\* A command is told from others by who typed it and when.
Command == [by : Client, no : Nat \ {0}]
ASSUME NewlineAssumption == Newline \notin Command

VARIABLES
    \* The daemon.
    pc,        \* "accept", "drain", "tick" or "write"
    at,        \* the client being drained or written to (i and j in the code)
    part,      \* the piece of the snapshot to be written next
    clients,   \* the Vec of connected clients
    rx_buf,    \* each client's texts without a newline so far
    pending,   \* pending_shell_events: the texts of each line to echo or to refuse
    commands,  \* pending_shell_commands
    \* The VM.
    pushed,    \* history: the events each of its runtimes has collected
    cursor,    \* last_sent_event_index
    idle,      \* VmState::Idle
    snaps,     \* history: the snapshot of each tick
    \* The TUIs and the sockets.
    link,      \* each TUI: "off", "on" or "closed"
    backlog,   \* connections not yet accepted
    up, down,  \* what is in the sockets
    read_buffer,
    seen,      \* the ticks whose snapshots the TUI has decoded
    torn,      \* whether the TUI has lost a read
    typed,     \* the number of commands typed
    half,      \* the command whose newline comes next, as a sequence of at most one
    sent       \* the commands the TUI has written without an error

loopVars == <<pc, at, part>>
vmVars == <<pushed, cursor, idle, snaps>>
inVars == <<rx_buf, pending, commands>>
userVars == <<typed, half, sent>>
viewVars == <<read_buffer, seen, torn>>
serverVars == <<loopVars, clients, inVars, vmVars, link, backlog, up, down,
                viewVars, userVars>>

tick == Len(snaps)
Piece == [of : 1..MaxTick, no : 1..Parts]

ServerTypeOK ==
    /\ pc \in {"accept", "drain", "tick", "write"}
    /\ at \in 1..(Len(clients) + 1)
    /\ part \in 1..Parts
    /\ \A c \in Client :
          /\ link[c] \in {"off", "on", "closed"}
          /\ \A i \in DOMAIN rx_buf[c] : rx_buf[c][i] \in Command
          /\ \A i \in DOMAIN up[c] : up[c][i] \in Command \cup {Newline}
          /\ \A i \in DOMAIN down[c] : down[c][i] \in Piece
          /\ Len(up[c]) <= Room /\ Len(down[c]) <= Room
          /\ Len(half[c]) <= 1
    /\ IsInjective(clients) /\ ToSet(clients) \cap ToSet(backlog) = {}
    /\ pushed # <<>> => cursor \in 0..Last(pushed)

ServerInit ==
    /\ pc = "accept" /\ at = 1 /\ part = 1
    /\ clients = <<>> /\ backlog = <<>>
    /\ rx_buf = [c \in Client |-> <<>>]
    /\ pending = <<>> /\ commands = <<>>
    /\ pushed = <<>> /\ cursor = 0 /\ idle = TRUE /\ snaps = <<>>
    /\ link = [c \in Client |-> "off"]
    /\ up = [c \in Client |-> <<>>] /\ down = [c \in Client |-> <<>>]
    /\ read_buffer = [c \in Client |-> <<>>] /\ seen = [c \in Client |-> <<>>]
    /\ torn = [c \in Client |-> FALSE]
    /\ typed = [c \in Client |-> 0] /\ half = [c \in Client |-> <<>>]
    /\ sent = [c \in Client |-> {}]

-----------------------------------------------------------------------------
(* The loop of run_server.                                                 *)

Accept ==
    /\ pc = "accept" /\ tick < MaxTick
    /\ clients' = clients \o backlog
    /\ backlog' = <<>>
    /\ pc' = "drain"
    /\ UNCHANGED <<at, part, inVars, vmVars, link, up, down, viewVars, userVars>>

\* What reading one piece does to the client's buffer and the pending vectors: a
\* newline ends a line, which is empty, a command, or several texts in a row
\* that do not decode.
ReadPiece(r, piece) ==
    IF piece # Newline THEN [r EXCEPT !.buf = Append(@, piece)]
    ELSE CASE r.buf = <<>> -> r
           [] Len(r.buf) = 1 -> [buf |-> <<>>,
                                 events |-> Append(r.events, {r.buf[1]}),
                                 commands |-> Append(r.commands, r.buf[1])]
           [] OTHER -> [r EXCEPT !.buf = <<>>, !.events = Append(@, ToSet(r.buf))]

\* Mutant: what follows the last newline is forgotten between two drains.
KeepNothing(buf) == <<>>

\* The rest of a line is kept for the next read.
Keep(buf) == buf

\* What the first n pieces of a client's socket make of the buffer and the vectors.
Reading(c, n) ==
    LET read[i \in 0..Len(up[c])] ==
          IF i = 0 THEN [buf |-> rx_buf[c], events |-> pending, commands |-> commands]
          ELSE ReadPiece(read[i - 1], up[c][i])
    IN read[n]

\* The first n pieces of a client's socket are read and decoded.
ReadFrom(c, n) ==
    /\ rx_buf' = [rx_buf EXCEPT ![c] = Keep(Reading(c, n).buf)]
    /\ pending' = Reading(c, n).events
    /\ commands' = Reading(c, n).commands

\* drain_client_commands until the socket is empty; a closed one is removed then.
Drain ==
    /\ pc = "drain" /\ at <= Len(clients)
    /\ LET c == clients[at] IN
       /\ ReadFrom(c, Len(up[c]))
       /\ up' = [up EXCEPT ![c] = <<>>]
       /\ IF link[c] = "closed"
            THEN clients' = RemoveAt(clients, at) /\ UNCHANGED at
            ELSE at' = at + 1 /\ UNCHANGED clients
    /\ UNCHANGED <<pc, part, vmVars, link, backlog, down, viewVars, userVars>>

\* A read that is not UTF-8 by itself drops the client, and all it has not read.
DrainTorn ==
    /\ pc = "drain" /\ at <= Len(clients)
    /\ LET c == clients[at] IN
       \E n \in 0..(Len(up[c]) - 1) :
          /\ up[c] # <<>> /\ c \in Torn
          /\ ReadFrom(c, n)
          /\ up' = [up EXCEPT ![c] = <<>>]
          /\ clients' = RemoveAt(clients, at)
    /\ UNCHANGED <<loopVars, vmVars, link, backlog, down, viewVars, userVars>>

Drained ==
    /\ pc = "drain" /\ at > Len(clients)
    /\ pc' = "tick" /\ at' = 1
    /\ UNCHANGED <<part, clients, inVars, vmVars, link, backlog, up, down,
                   viewVars, userVars>>

\* Mutant: a start keeps the cursor of the runtime it replaces.
NewRuntimeCursorKept(r) ==
    [pushed |-> Append(r.pushed, 0), cursor |-> r.cursor, idle |-> FALSE]

\* DaemonVm::new
NewRuntime(r) == [pushed |-> Append(r.pushed, 0), cursor |-> 0, idle |-> FALSE]

\* handle_vm_command: a start replaces the runtime only if there is none or it
\* is Idle, so only the first of several does; no command adds an event to one.
Handle(r, start) == IF start /\ r.idle THEN NewRuntime(r) ELSE r

\* The events of the VM's runtime that no snapshot has carried, runtime and index.
NewEvents(count, from) ==
    [i \in 1..(count[Len(count)] - from) |-> <<Len(count), from + i>>]

\* Mutant: the pending commands are iterated over and not drained.
RestKept(cmds) == cmds

\* What is left of the pending commands once they are handled.
Rest(cmds) == <<>>

\* handle_shell_command for every pending command, of which one may be a start,
\* then build_snapshot: the VM takes a step that may push an event and, with one,
\* may bring it to Idle, and the cursor moves past what the snapshot carries.
Tick ==
    /\ pc = "tick"
    /\ \E start \in {FALSE, commands # <<>>}, n \in 0..1, ends \in BOOLEAN :
          LET r == Handle([pushed |-> pushed, cursor |-> cursor, idle |-> idle], start) IN
          /\ IF r.idle THEN n = 0 /\ ends ELSE ends => n = 1
          /\ pushed' = IF r.idle THEN r.pushed
                       ELSE [r.pushed EXCEPT ![Len(r.pushed)] = @ + n]
          /\ idle' = ends
          /\ snaps' = Append(snaps,
                 [vm |-> IF pushed' = <<>> THEN <<>> ELSE NewEvents(pushed', r.cursor),
                  lines |-> pending, answers |-> commands])
          /\ cursor' = IF pushed' = <<>> THEN 0 ELSE Last(pushed')
    /\ pending' = <<>> /\ commands' = Rest(commands)
    /\ pc' = "write"
    /\ UNCHANGED <<at, part, clients, rx_buf, link, backlog, up, down, viewVars, userVars>>

\* Mutant: after a removal the loop goes on with the client after the next.
AfterRemovalSkipping(j) == j + 1

\* Removing a client leaves j at the one that took its place.
AfterRemoval(j) == j

\* write_all to one client, a piece at a time: a closed or full socket drops it,
\* with what was written of the line still to be read.
Write ==
    /\ pc = "write" /\ at <= Len(clients)
    /\ LET c == clients[at] IN
       IF link[c] = "closed" \/ Len(down[c]) = Room
         THEN /\ clients' = RemoveAt(clients, at)
              /\ up' = [up EXCEPT ![c] = <<>>]
              /\ at' = AfterRemoval(at)
              /\ part' = 1
              /\ UNCHANGED down
         ELSE /\ down' = [down EXCEPT ![c] = Append(@, [of |-> tick, no |-> part])]
              /\ IF part = Parts THEN at' = at + 1 /\ part' = 1
                                 ELSE part' = part + 1 /\ UNCHANGED at
              /\ UNCHANGED <<clients, up>>
    /\ UNCHANGED <<pc, inVars, vmVars, link, backlog, viewVars, userVars>>

\* The broadcast is over; the loop sleeps and begins again.
Written ==
    /\ pc = "write" /\ at > Len(clients)
    /\ pc' = "accept" /\ at' = 1
    /\ UNCHANGED <<part, clients, inVars, vmVars, link, backlog, up, down,
                   viewVars, userVars>>

-----------------------------------------------------------------------------
(* The TUIs.                                                               *)

\* DaemonBackend::connect_default
Connect(c) ==
    /\ link[c] = "off"
    /\ link' = [link EXCEPT ![c] = "on"]
    /\ backlog' = Append(backlog, c)
    /\ UNCHANGED <<loopVars, clients, inVars, vmVars, up, down, viewVars, userVars>>

\* The connection is closed by the TUI; what it has written stays in the socket.
Disconnect(c) ==
    /\ link' = [link EXCEPT ![c] = "closed"]
    /\ down' = [down EXCEPT ![c] = <<>>]
    /\ read_buffer' = [read_buffer EXCEPT ![c] = <<>>]
    /\ seen' = [seen EXCEPT ![c] = <<>>] /\ torn' = [torn EXCEPT ![c] = FALSE]
    /\ typed' = [typed EXCEPT ![c] = 0] /\ half' = [half EXCEPT ![c] = <<>>]
    /\ UNCHANGED <<loopVars, clients, inVars, vmVars, backlog, up, sent>>

\* The user quits, the TUI waits too long for its first snapshot or dies, or it
\* reads to the end of a connection the daemon has dropped.
Close(c) == link[c] = "on" /\ Disconnect(c)

Whole(line) == \E t \in 1..tick : line = [i \in 1..Parts |-> [of |-> t, no |-> i]]

\* What decoding a piece does to the buffer and the snapshots seen: the last one
\* of a line ends it, and it is a snapshot or an error is reported.
DecodePiece(r, piece) ==
    LET line == Append(r.line, piece) IN
    IF piece.no < Parts THEN [r EXCEPT !.line = line]
    ELSE [line |-> <<>>, seen |-> IF Whole(line) THEN Append(r.seen, piece.of) ELSE r.seen]

\* What the first n pieces of the socket make of the buffer and the snapshots seen.
Decoding(c, n) ==
    LET decoded[i \in 0..Len(down[c])] ==
          IF i = 0 THEN [line |-> read_buffer[c], seen |-> seen[c]]
          ELSE DecodePiece(decoded[i - 1], down[c][i])
    IN decoded[n]

\* The first n pieces of the socket are read and decoded.
Decode(c, n) ==
    /\ read_buffer' = [read_buffer EXCEPT ![c] = Decoding(c, n).line]
    /\ seen' = [seen EXCEPT ![c] = Decoding(c, n).seen]

\* drain_socket until the socket is empty.
Receive(c) ==
    /\ link[c] = "on" /\ down[c] # <<>>
    /\ Decode(c, Len(down[c]))
    /\ down' = [down EXCEPT ![c] = <<>>]
    /\ UNCHANGED <<loopVars, clients, inVars, vmVars, link, backlog, up, torn, userVars>>

\* connect_default is over once a snapshot has come.
Connected(c) == link[c] = "on" /\ seen[c] # <<>>

\* A read that is not UTF-8 by itself is an error that forgets what was read and
\* ends the draining; only connect_default gives up on it.  Bound: one such read
\* for each connected TUI.
ReceiveTorn(c) ==
    /\ c \in Torn /\ link[c] = "on" /\ down[c] # <<>>
    /\ \/ ~Connected(c) /\ Disconnect(c)
       \/ /\ Connected(c) /\ ~torn[c]
          /\ \E n \in 0..(Len(down[c]) - 1) :
                /\ Decode(c, n)
                /\ down' = [down EXCEPT ![c] = SubSeq(@, n + 2, Len(@))]
          /\ torn' = [torn EXCEPT ![c] = TRUE]
          /\ UNCHANGED <<loopVars, clients, inVars, vmVars, link, backlog, up, userVars>>

\* The outcomes of writing a piece to the daemon: a socket it has dropped refuses
\* it, an empty one takes it, and whether it fits into one that holds some depends
\* on their sizes.
WriteUp(c) ==
    IF c \notin ToSet(clients) \cup ToSet(backlog) \/ Len(up[c]) = Room THEN {FALSE}
    ELSE IF up[c] = <<>> THEN {TRUE} ELSE BOOLEAN

\* handle_shell_command of the TUI writes the text: a full socket is an error,
\* and then there is no newline.
SendText(c) ==
    /\ Connected(c) /\ half[c] = <<>> /\ typed[c] < MaxCommand[c]
    /\ typed' = [typed EXCEPT ![c] = @ + 1]
    /\ \E ok \in WriteUp(c) :
          LET cmd == [by |-> c, no |-> typed[c] + 1] IN
          IF ok
            THEN /\ up' = [up EXCEPT ![c] = Append(@, cmd)]
                 /\ half' = [half EXCEPT ![c] = <<cmd>>]
            ELSE UNCHANGED <<up, half>>
    /\ UNCHANGED <<loopVars, clients, inVars, vmVars, link, backlog, down, viewVars, sent>>

\* It writes the newline, which may fail by itself.
SendNewline(c) ==
    /\ link[c] = "on" /\ half[c] # <<>>
    /\ half' = [half EXCEPT ![c] = <<>>]
    /\ \E ok \in WriteUp(c) :
          IF ok
            THEN /\ up' = [up EXCEPT ![c] = Append(@, Newline)]
                 /\ sent' = [sent EXCEPT ![c] = @ \cup {half[c][1]}]
            ELSE UNCHANGED <<up, sent>>
    /\ UNCHANGED <<loopVars, clients, inVars, vmVars, link, backlog, down, viewVars, typed>>

Daemon == Accept \/ Drain \/ DrainTorn \/ Drained \/ Tick \/ Write \/ Written

Tui(c) == Connect(c) \/ Close(c) \/ Receive(c) \/ ReceiveTorn(c) \/ SendText(c) \/ SendNewline(c)

ServerNext == Daemon \/ \E c \in Client : Tui(c)

ServerSpec == ServerInit /\ [][ServerNext]_serverVars

-----------------------------------------------------------------------------
(* Properties.                                                             *)

\* The snapshots one after another carry every event of every runtime, those
\* replaced by a later start included, exactly once and in order.
EventsOnce ==
    FlattenSeq([t \in 1..tick |-> snaps[t].vm]) =
        FlattenSeq([g \in 1..Len(pushed) |-> [i \in 1..pushed[g] |-> <<g, i>>]])

\* However other clients come, go and fall behind, a TUI sees consecutive
\* snapshots, those it loses by a torn read excepted, and none twice.
ViewGapless ==
    \A c \in Client : \A i \in 1..(Len(seen[c]) - 1) :
        IF torn[c] THEN seen[c][i + 1] > seen[c][i] ELSE seen[c][i + 1] = seen[c][i] + 1

Answers == FlattenSeq([t \in 1..tick |-> snaps[t].answers])

\* Commands are answered in the order their user typed them, none twice, and
\* none that was garbled.
CommandsInOrder ==
    /\ \A i, j \in DOMAIN Answers :
          i < j /\ Answers[i].by = Answers[j].by => Answers[i].no < Answers[j].no
    /\ \A t \in 1..tick : \A i \in DOMAIN snaps[t].answers :
          {snaps[t].answers[i]} \in ToSet(snaps[t].lines)

\* The texts of the lines a snapshot echoed or reported as invalid.
Accounted == UNION UNION { ToSet(snaps[t].lines) : t \in 1..tick }

\* A command written without an error over a connection that still stands is
\* echoed and answered or reported invalid, once the daemon has read the socket to its end:
\* one cut by a full socket may spoil the next, but none disappears.
SentAccounted ==
    pc = "accept" =>
        \A c \in ToSet(clients) : up[c] = <<>> /\ rx_buf[c] = <<>> => sent[c] \subseteq Accounted

=============================================================================

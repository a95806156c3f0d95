-------------------------- MODULE DaemonServer_proofs --------------------------
(***************************************************************************)
(* Proofs about DaemonServer, for any number of clients, sockets of any    *)
(* room, snapshots of any number of pieces, and runs of any length.  What  *)
(* reading a socket does is a recursive function over its pieces: module   *)
(* Recursion says that it has the values its equation gives it.            *)
(***************************************************************************)
EXTENDS DaemonServer, Recursion

-----------------------------------------------------------------------------
(* Reading a socket, piece by piece.                                       *)

ReadStates == [buf : Seq(Command), events : Seq(SUBSET Command), commands : Seq(Command)]

\* A piece makes a state of one.
LEMMA ReadPieceType ==
  ASSUME NEW r \in ReadStates, NEW piece \in Command \cup {Newline}
  PROVE  ReadPiece(r, piece) \in ReadStates
<1>1. r.buf \in Seq(Command) /\ r.events \in Seq(SUBSET Command) /\ r.commands \in Seq(Command)
  BY DEF ReadStates
<1>2. CASE piece # Newline
  <2>1. Append(r.buf, piece) \in Seq(Command)
    BY <1>1, <1>2
  <2> QED  BY <1>2, <2>1 DEF ReadPiece, ReadStates
<1>3. CASE piece = Newline /\ r.buf = <<>>
  BY <1>3 DEF ReadPiece
<1>4. CASE piece = Newline /\ r.buf # <<>> /\ Len(r.buf) = 1
  <2>1. r.buf[1] \in Command
    BY <1>1, <1>4
  <2>2. Append(r.events, {r.buf[1]}) \in Seq(SUBSET Command)
        /\ Append(r.commands, r.buf[1]) \in Seq(Command) /\ <<>> \in Seq(Command)
    BY <1>1, <2>1
  <2>3. ReadPiece(r, piece) = [buf |-> <<>>, events |-> Append(r.events, {r.buf[1]}),
                               commands |-> Append(r.commands, r.buf[1])]
    BY <1>4 DEF ReadPiece
  <2> QED  BY <2>2, <2>3 DEF ReadStates
<1>5. CASE piece = Newline /\ r.buf # <<>> /\ Len(r.buf) # 1
  <2>1. ToSet(r.buf) \in SUBSET Command
    BY <1>1 DEF ToSet
  <2>2. Append(r.events, ToSet(r.buf)) \in Seq(SUBSET Command) /\ <<>> \in Seq(Command)
    BY <1>1, <2>1
  <2>3. ReadPiece(r, piece) = [r EXCEPT !.buf = <<>>, !.events = Append(@, ToSet(r.buf))]
    BY <1>5 DEF ReadPiece
  <2> QED  BY <1>1, <2>2, <2>3 DEF ReadStates
<1> QED  BY <1>2, <1>3, <1>4, <1>5

ReadBegin(c) == [buf |-> rx_buf[c], events |-> pending, commands |-> commands]

\* Reading(c, n) is what n pieces, one after the other, make of the state.
LEMMA ReadingRuns ==
  ASSUME NEW c \in Client, rx_buf[c] \in Seq(Command), pending \in Seq(SUBSET Command),
         commands \in Seq(Command), up[c] \in Seq(Command \cup {Newline})
  PROVE  /\ Reading(c, 0) = ReadBegin(c)
         /\ \A i \in 0..Len(up[c]) : Reading(c, i) \in ReadStates
         /\ \A i \in 1..Len(up[c]) : Reading(c, i) = ReadPiece(Reading(c, i - 1), up[c][i])
<1>1. PICK n \in Nat : n = Len(up[c])
  OBVIOUS
<1>2. \A i \in 1..n : up[c][i] \in Command \cup {Newline}
  BY <1>1
<1>3. ReadBegin(c) \in ReadStates
  BY DEF ReadBegin, ReadStates
<1> DEFINE step == [i \in 1..n |-> [r \in ReadStates |-> ReadPiece(r, up[c][i])]]
<1>4. Steps(ReadStates, n, step)
  BY <1>2, ReadPieceType DEF Steps
<1>5. PICK f : Run(ReadStates, ReadBegin(c), n, step, f)
  <2> HIDE DEF step
  <2> QED  BY <1>3, <1>4, RecursionExists
<1>6. f \in [0..n -> ReadStates] /\ f[0] = ReadBegin(c)
      /\ \A i \in 1..n : f[i] = step[i][f[i - 1]]
  BY <1>5 DEF Run
<1>7. ASSUME NEW i \in 1..n PROVE f[i] = ReadPiece(f[i - 1], up[c][i])
  <2>1. i - 1 \in 0..n
    OBVIOUS
  <2>2. f[i - 1] \in ReadStates
    BY <1>6, <2>1
  <2> QED  BY <1>6, <2>2
<1> HIDE DEF step
<1> DEFINE Def(h) == [i \in 0..n |-> IF i = 0 THEN ReadBegin(c) ELSE ReadPiece(h[i - 1], up[c][i])]
<1>8. f = Def(f)
  BY <1>6, <1>7
<1>9. PICK g : g = CHOOSE h : h = Def(h)
  OBVIOUS
<1>10. g = Def(g)
  <2> HIDE DEF Def
  <2> QED  BY <1>8, <1>9
<1>11. \A i : Reading(c, i) = g[i]
  BY <1>1, <1>9 DEF Reading, ReadBegin
<1>12. g[0] = ReadBegin(c) /\ \A i \in 1..n : g[i] = ReadPiece(g[i - 1], up[c][i])
  BY <1>10
<1> HIDE DEF Def
<1>13. \A i \in 0..n : f[i] = g[i]
  <2>1. Alike(f, g, 0, n)
    <3>1. ASSUME NEW i \in (0 + 1)..n, f[i - 1] = g[i - 1] PROVE f[i] = g[i]
      <4>1. i \in 1..n
        OBVIOUS
      <4> QED  BY <1>7, <1>12, <3>1, <4>1
    <3> QED  BY <1>6, <1>12, <3>1 DEF Alike
  <2> QED  BY <2>1, Agreement
<1>14. \A i \in 0..n : g[i] \in ReadStates
  BY <1>6, <1>13
<1> QED  BY <1>1, <1>11, <1>12, <1>14

-----------------------------------------------------------------------------
(* Decoding what a TUI receives, piece by piece.                           *)

ViewStates == [line : Seq(Piece), seen : Seq(1..MaxTick)]

\* A piece makes a state of one.
LEMMA DecodePieceType ==
  ASSUME NEW r \in ViewStates, NEW piece \in Piece
  PROVE  DecodePiece(r, piece) \in ViewStates
<1>1. r.line \in Seq(Piece) /\ r.seen \in Seq(1..MaxTick)
  BY DEF ViewStates
<1>2. Append(r.line, piece) \in Seq(Piece) /\ <<>> \in Seq(Piece)
  BY <1>1
<1>3. Append(r.seen, piece.of) \in Seq(1..MaxTick)
  BY <1>1 DEF Piece
<1> QED  BY <1>1, <1>2, <1>3 DEF DecodePiece, ViewStates

DecodeBegin(c) == [line |-> read_buffer[c], seen |-> seen[c]]

\* Decoding(c, n) is what n pieces, one after the other, make of the state.
LEMMA DecodingRuns ==
  ASSUME NEW c \in Client, read_buffer[c] \in Seq(Piece), seen[c] \in Seq(1..MaxTick),
         down[c] \in Seq(Piece)
  PROVE  /\ Decoding(c, 0) = DecodeBegin(c)
         /\ \A i \in 0..Len(down[c]) : Decoding(c, i) \in ViewStates
         /\ \A i \in 1..Len(down[c]) :
              Decoding(c, i) = DecodePiece(Decoding(c, i - 1), down[c][i])
<1>1. PICK n \in Nat : n = Len(down[c])
  OBVIOUS
<1>2. \A i \in 1..n : down[c][i] \in Piece
  BY <1>1
<1>3. DecodeBegin(c) \in ViewStates
  BY DEF DecodeBegin, ViewStates
<1> DEFINE step == [i \in 1..n |-> [r \in ViewStates |-> DecodePiece(r, down[c][i])]]
<1>4. Steps(ViewStates, n, step)
  BY <1>2, DecodePieceType DEF Steps
<1>5. PICK f : Run(ViewStates, DecodeBegin(c), n, step, f)
  <2> HIDE DEF step
  <2> QED  BY <1>3, <1>4, RecursionExists
<1>6. f \in [0..n -> ViewStates] /\ f[0] = DecodeBegin(c)
      /\ \A i \in 1..n : f[i] = step[i][f[i - 1]]
  BY <1>5 DEF Run
<1>7. ASSUME NEW i \in 1..n PROVE f[i] = DecodePiece(f[i - 1], down[c][i])
  <2>1. i - 1 \in 0..n
    OBVIOUS
  <2>2. f[i - 1] \in ViewStates
    BY <1>6, <2>1
  <2> QED  BY <1>6, <2>2
<1> HIDE DEF step
<1> DEFINE Def(h) ==
      [i \in 0..n |-> IF i = 0 THEN DecodeBegin(c) ELSE DecodePiece(h[i - 1], down[c][i])]
<1>8. f = Def(f)
  BY <1>6, <1>7
<1>9. PICK g : g = CHOOSE h : h = Def(h)
  OBVIOUS
<1>10. g = Def(g)
  <2> HIDE DEF Def
  <2> QED  BY <1>8, <1>9
<1>11. \A i : Decoding(c, i) = g[i]
  BY <1>1, <1>9 DEF Decoding, DecodeBegin
<1>12. g[0] = DecodeBegin(c) /\ \A i \in 1..n : g[i] = DecodePiece(g[i - 1], down[c][i])
  BY <1>10
<1> HIDE DEF Def
<1>13. \A i \in 0..n : f[i] = g[i]
  <2>1. Alike(f, g, 0, n)
    <3>1. ASSUME NEW i \in (0 + 1)..n, f[i - 1] = g[i - 1] PROVE f[i] = g[i]
      <4>1. i \in 1..n
        OBVIOUS
      <4> QED  BY <1>7, <1>12, <3>1, <4>1
    <3> QED  BY <1>6, <1>12, <3>1 DEF Alike
  <2> QED  BY <2>1, Agreement
<1>14. \A i \in 0..n : g[i] \in ViewStates
  BY <1>6, <1>13
<1> QED  BY <1>1, <1>11, <1>12, <1>14

-----------------------------------------------------------------------------
(* Types.                                                                  *)

Snap == [vm : Seq(Nat \X Nat), lines : Seq(SUBSET Command), answers : Seq(Command)]

LoopTypes == pc \in {"accept", "drain", "tick", "write"} /\ at \in Nat \ {0} /\ part \in 1..Parts
InTypes ==
    /\ rx_buf \in [Client -> Seq(Command)]
    /\ pending \in Seq(SUBSET Command) /\ commands \in Seq(Command)
VmTypes ==
    /\ pushed \in Seq(Nat) /\ cursor \in Nat /\ idle \in BOOLEAN /\ snaps \in Seq(Snap)
LinkTypes ==
    /\ clients \in Seq(Client) /\ backlog \in Seq(Client)
    /\ link \in [Client -> {"off", "on", "closed"}]
    /\ up \in [Client -> Seq(Command \cup {Newline})] /\ down \in [Client -> Seq(Piece)]
ViewTypes ==
    /\ read_buffer \in [Client -> Seq(Piece)] /\ seen \in [Client -> Seq(1..MaxTick)]
    /\ torn \in [Client -> BOOLEAN]
UserTypes ==
    /\ typed \in [Client -> Nat] /\ half \in [Client -> Seq(Command)]
    /\ sent \in [Client -> SUBSET Command]

\* The ticks within the bound: a snapshot is written once there is one.
TickInv ==
    /\ tick <= MaxTick
    /\ pc \in {"drain", "tick"} => tick < MaxTick
    /\ pc = "write" => tick >= 1

Types == LoopTypes /\ InTypes /\ VmTypes /\ LinkTypes /\ ViewTypes /\ UserTypes /\ TickInv

\* RemoveAt closes the gap.
LEMMA RemoveAtFacts ==
  ASSUME NEW X, NEW s \in Seq(X), NEW i \in 1..Len(s)
  PROVE  /\ RemoveAt(s, i) \in Seq(X) /\ Len(RemoveAt(s, i)) = Len(s) - 1
         /\ \A j \in 1..(Len(s) - 1) : RemoveAt(s, i)[j] = IF j < i THEN s[j] ELSE s[j + 1]
<1>1. PICK n \in Nat : n = Len(s)
  OBVIOUS
<1>2. \A j \in 1..n : s[j] \in X
  BY <1>1
<1>3. PICK a : a = SubSeq(s, 1, i - 1)
  OBVIOUS
<1>4. PICK b : b = SubSeq(s, i + 1, n)
  OBVIOUS
<1>5. a \in Seq(X) /\ Len(a) = i - 1 /\ \A j \in 1..(i - 1) : a[j] = s[j]
  BY <1>1, <1>2, <1>3
<1>6. b \in Seq(X) /\ Len(b) = n - i /\ \A j \in 1..(n - i) : b[j] = s[i + j]
  BY <1>1, <1>2, <1>4
<1>7. RemoveAt(s, i) = a \o b
  BY <1>1, <1>3, <1>4 DEF RemoveAt
<1>8. /\ a \o b \in Seq(X) /\ Len(a \o b) = n - 1
      /\ \A j \in 1..(n - 1) : (a \o b)[j] = IF j <= i - 1 THEN a[j] ELSE b[j - (i - 1)]
  <2>1. PICK x \in Seq(X), y \in Seq(X) : x = a /\ y = b
    BY <1>5, <1>6
  <2>2. /\ x \o y \in Seq(X) /\ Len(x \o y) = Len(x) + Len(y)
        /\ \A j \in 1..(Len(x) + Len(y)) : (x \o y)[j] = IF j <= Len(x) THEN x[j] ELSE y[j - Len(x)]
    BY ConcatProperties
  <2>3. Len(x) = i - 1 /\ Len(y) = n - i
    BY <1>5, <1>6, <2>1
  <2>4. (i - 1) + (n - i) = n - 1
    BY <1>1
  <2> QED  BY <2>1, <2>2, <2>3, <2>4
<1>9. ASSUME NEW j \in 1..(n - 1)
      PROVE  (a \o b)[j] = IF j < i THEN s[j] ELSE s[j + 1]
  <2>1. CASE j < i
    <3>1. j \in 1..(i - 1)
      BY <1>1, <2>1
    <3> QED  BY <1>5, <1>8, <2>1, <3>1
  <2>2. CASE ~ j < i
    <3>1. j - (i - 1) \in 1..(n - i) /\ i + (j - (i - 1)) = j + 1 /\ ~ j <= i - 1
      BY <1>1, <2>2
    <3>2. b[j - (i - 1)] = s[j + 1]
      BY <1>6, <3>1
    <3> QED  BY <1>8, <2>2, <3>1, <3>2
  <2> QED  BY <2>1, <2>2
<1> QED  BY <1>1, <1>7, <1>8, <1>9

\* The client the loop is at.
LEMMA ClientAt ==
  ASSUME LinkTypes, at \in 1..Len(clients)
  PROVE  clients[at] \in Client
<1>1. PICK s \in Seq(Client), i \in 1..Len(clients) : s = clients /\ i = at
  BY DEF LinkTypes
<1> QED  BY <1>1, ElementOfSeq

\* The list without one of its clients.
LEMMA RemovedTypes ==
  ASSUME LinkTypes, at \in 1..Len(clients)
  PROVE  RemoveAt(clients, at) \in Seq(Client)
<1>1. PICK s \in Seq(Client), i \in 1..Len(clients) : s = clients /\ i = at
  BY DEF LinkTypes
<1> QED  BY <1>1, RemoveAtFacts

\* Reading a socket keeps the types.
LEMMA ReadFromTypes ==
  ASSUME InTypes, LinkTypes, NEW c \in Client, NEW n \in 0..Len(up[c]), ReadFrom(c, n)
  PROVE  InTypes'
<1>1. Reading(c, n) \in ReadStates
  BY ReadingRuns DEF InTypes, LinkTypes
<1>2. /\ Reading(c, n).buf \in Seq(Command) /\ Reading(c, n).events \in Seq(SUBSET Command)
      /\ Reading(c, n).commands \in Seq(Command)
  BY <1>1 DEF ReadStates
<1> QED  BY <1>2 DEF ReadFrom, Keep, InTypes

\* So does decoding what a TUI receives.
LEMMA DecodeTypes ==
  ASSUME ViewTypes, LinkTypes, NEW c \in Client, NEW n \in 0..Len(down[c]), Decode(c, n)
  PROVE  /\ read_buffer' \in [Client -> Seq(Piece)] /\ seen' \in [Client -> Seq(1..MaxTick)]
<1>1. Decoding(c, n) \in ViewStates
  BY DecodingRuns DEF ViewTypes, LinkTypes
<1>2. Decoding(c, n).line \in Seq(Piece) /\ Decoding(c, n).seen \in Seq(1..MaxTick)
  BY <1>1 DEF ViewStates
<1> QED  BY <1>2 DEF Decode, ViewTypes

-----------------------------------------------------------------------------
(* What a tick does to the VM's runtimes.                                  *)

\* The last runtime's events have all been sent; there is one if the VM is not Idle.
RuntimeInv ==
    /\ ~ idle => pushed # <<>>
    /\ cursor = IF pushed = <<>> THEN 0 ELSE Last(pushed)

\* The events a tick adds and the snapshot carries: none, the first of a new runtime, or
\* the next of the last one.
Carries(n, vm) ==
    \/ pushed' = pushed /\ vm = <<>>
    \/ pushed' = Append(pushed, n) /\ vm = [i \in 1..n |-> <<Len(pushed) + 1, i>>]
    \/ /\ pushed # <<>> /\ pushed' = [pushed EXCEPT ![Len(pushed)] = @ + n]
       /\ vm = [i \in 1..n |-> <<Len(pushed), Last(pushed) + i>>]

\* Whatever the commands are, a tick is one of these.
LEMMA TickFacts ==
  ASSUME VmTypes, RuntimeInv, Tick
  PROVE  /\ \E n \in 0..1 : \E vm \in Seq(Nat \X Nat) :
              /\ Carries(n, vm)
              /\ snaps' = Append(snaps, [vm |-> vm, lines |-> pending, answers |-> commands])
         /\ pushed' \in Seq(Nat) /\ cursor' \in Nat /\ idle' \in BOOLEAN /\ RuntimeInv'
<1>1. /\ pushed \in Seq(Nat) /\ cursor \in Nat /\ idle \in BOOLEAN /\ Len(pushed) \in Nat
      /\ pushed # <<>> => Len(pushed) >= 1 /\ Last(pushed) \in Nat
  <2>1. pushed # <<>> => Len(pushed) \in 1..Len(pushed) /\ Len(pushed) >= 1
    BY EmptySeq DEF VmTypes
  <2> QED  BY <2>1 DEF VmTypes, Last
<1>2. PICK start \in {FALSE, commands # <<>>}, n \in 0..1, ends \in BOOLEAN :
        LET r == Handle([pushed |-> pushed, cursor |-> cursor, idle |-> idle], start) IN
        /\ IF r.idle THEN n = 0 /\ ends ELSE ends => n = 1
        /\ pushed' = IF r.idle THEN r.pushed
                     ELSE [r.pushed EXCEPT ![Len(r.pushed)] = @ + n]
        /\ idle' = ends
        /\ snaps' = Append(snaps,
               [vm |-> IF pushed' = <<>> THEN <<>> ELSE NewEvents(pushed', r.cursor),
                lines |-> pending, answers |-> commands])
        /\ cursor' = IF pushed' = <<>> THEN 0 ELSE Last(pushed')
  BY DEF Tick
<1> DEFINE h == Handle([pushed |-> pushed, cursor |-> cursor, idle |-> idle], start)
<1>6. ASSUME NEW p, NEW k, NEW b, h = [pushed |-> p, cursor |-> k, idle |-> b]
      PROVE  /\ IF b THEN n = 0 /\ ends ELSE ends => n = 1
             /\ pushed' = IF b THEN p ELSE [p EXCEPT ![Len(p)] = @ + n]
             /\ idle' = ends
             /\ snaps' = Append(snaps,
                    [vm |-> IF pushed' = <<>> THEN <<>> ELSE NewEvents(pushed', k),
                     lines |-> pending, answers |-> commands])
             /\ cursor' = IF pushed' = <<>> THEN 0 ELSE Last(pushed')
  <2>1. h.pushed = p /\ h.cursor = k /\ h.idle = b
    <3> HIDE DEF h
    <3> QED  BY <1>6
  <2> QED  BY <1>2, <2>1
<1> HIDE DEF h
<1>3. start \in BOOLEAN
  OBVIOUS
<1>4. CASE start /\ idle
  <2>1. h = [pushed |-> Append(pushed, 0), cursor |-> 0, idle |-> FALSE]
    BY <1>4 DEF Handle, NewRuntime, h
  <2> DEFINE q == Append(pushed, 0)
  <2>2. /\ pushed' = [q EXCEPT ![Len(q)] = @ + n]
        /\ idle' = ends
        /\ snaps' = Append(snaps,
               [vm |-> IF pushed' = <<>> THEN <<>> ELSE NewEvents(pushed', 0),
                lines |-> pending, answers |-> commands])
        /\ cursor' = IF pushed' = <<>> THEN 0 ELSE Last(pushed')
    <3> HIDE DEF q
    <3> QED  BY <1>6, <2>1 DEF q
  <2>7. q \in Seq(Nat) /\ Len(q) = Len(pushed) + 1 /\ q[Len(pushed) + 1] = 0
        /\ \A i \in 1..Len(pushed) : q[i] = pushed[i]
    BY <1>1
  <2>3. /\ pushed' = Append(pushed, n) /\ pushed' # <<>> /\ pushed' \in Seq(Nat)
        /\ Len(pushed') = Len(pushed) + 1 /\ pushed'[Len(pushed) + 1] = n
    <3>1. /\ pushed' \in Seq(Nat) /\ Len(pushed') = Len(pushed) + 1
          /\ pushed'[Len(pushed) + 1] = n
          /\ \A i \in 1..Len(pushed) : pushed'[i] = pushed[i]
      <4> HIDE DEF q
      <4> QED  BY <1>1, <2>2, <2>7
    <3>2. /\ Append(pushed, n) \in Seq(Nat) /\ Len(Append(pushed, n)) = Len(pushed) + 1
          /\ Append(pushed, n)[Len(pushed) + 1] = n
          /\ \A i \in 1..Len(pushed) : Append(pushed, n)[i] = pushed[i]
      BY <1>1
    <3>3. pushed' = Append(pushed, n)
      BY <1>1, <3>1, <3>2, SeqEqual
    <3> QED  BY <1>1, <3>1, <3>3, EmptySeq
  <2>4. NewEvents(pushed', 0) = [i \in 1..n |-> <<Len(pushed) + 1, i>>]
    <3>1. \A i \in 1..n : 0 + i = i
      OBVIOUS
    <3> QED  BY <2>3, <3>1 DEF NewEvents
  <2>5. NewEvents(pushed', 0) \in Seq(Nat \X Nat)
    BY <1>1, <2>4
  <2>6. cursor' = Last(pushed') /\ cursor' \in Nat
    BY <2>2, <2>3 DEF Last
  <2> QED  BY <2>2, <2>3, <2>4, <2>5, <2>6 DEF Carries, RuntimeInv
<1>5. CASE ~ (start /\ idle)
  <2>1. h = [pushed |-> pushed, cursor |-> cursor, idle |-> idle]
    BY <1>5 DEF Handle, h
  <2>2. /\ IF idle THEN n = 0 /\ ends ELSE ends => n = 1
        /\ pushed' = IF idle THEN pushed ELSE [pushed EXCEPT ![Len(pushed)] = @ + n]
        /\ idle' = ends
        /\ snaps' = Append(snaps,
               [vm |-> IF pushed' = <<>> THEN <<>> ELSE NewEvents(pushed', cursor),
                lines |-> pending, answers |-> commands])
        /\ cursor' = IF pushed' = <<>> THEN 0 ELSE Last(pushed')
    BY <1>6, <2>1
  <2>3. CASE idle
    <3>1. pushed' = pushed /\ idle' /\ cursor' = cursor
      BY <1>1, <2>2, <2>3 DEF RuntimeInv
    <3>2. pushed # <<>> => NewEvents(pushed', cursor) = <<>>
      BY <1>1, <3>1 DEF NewEvents, RuntimeInv, Last
    <3>3. snaps' = Append(snaps, [vm |-> <<>>, lines |-> pending, answers |-> commands])
      BY <2>2, <3>1, <3>2
    <3>4. <<>> \in Seq(Nat \X Nat)
      OBVIOUS
    <3> QED  BY <1>1, <2>2, <3>1, <3>3, <3>4 DEF Carries, RuntimeInv
  <2>4. CASE ~ idle
    <3>1. pushed # <<>> /\ pushed' = [pushed EXCEPT ![Len(pushed)] = @ + n]
          /\ cursor = Last(pushed)
      BY <2>2, <2>4 DEF RuntimeInv
    <3>2. /\ pushed' \in Seq(Nat) /\ pushed' # <<>> /\ Len(pushed') = Len(pushed)
          /\ pushed'[Len(pushed)] = Last(pushed) + n
      BY <1>1, <3>1 DEF Last
    <3>3. NewEvents(pushed', cursor) = [i \in 1..n |-> <<Len(pushed), Last(pushed) + i>>]
      BY <1>1, <3>1, <3>2 DEF NewEvents
    <3>4. NewEvents(pushed', cursor) \in Seq(Nat \X Nat)
      <4>1. PICK k \in Nat, l \in Nat : k = Len(pushed) /\ l = Last(pushed)
        BY <1>1, <3>1
      <4>2. [i \in 1..n |-> <<k, l + i>>] \in Seq(Nat \X Nat)
        OBVIOUS
      <4> QED  BY <3>3, <4>1, <4>2
    <3>5. cursor' = Last(pushed') /\ cursor' \in Nat
      BY <1>1, <2>2, <3>1, <3>2 DEF Last
    <3> QED  BY <2>2, <3>1, <3>2, <3>3, <3>4, <3>5 DEF Carries, RuntimeInv
  <2> QED  BY <1>1, <2>3, <2>4
<1> QED  BY <1>1, <1>3, <1>4, <1>5

-----------------------------------------------------------------------------
(* Every step keeps the types.                                             *)

TypesInv == Types /\ RuntimeInv

\* At the start.
LEMMA TypesInitially == ServerInit => TypesInv
<1> SUFFICES ASSUME ServerInit PROVE TypesInv
  OBVIOUS
<1>1. torn \in [Client -> BOOLEAN] /\ sent \in [Client -> SUBSET Command] /\ idle \in BOOLEAN
  BY Zenon DEF ServerInit
<1>2. LoopTypes /\ InTypes
  BY PartsAssumption DEF ServerInit, LoopTypes, InTypes
<1>3. VmTypes /\ RuntimeInv /\ TickInv
  <2>1. snaps = <<>> /\ pushed = <<>> /\ cursor = 0 /\ pc = "accept" /\ Len(snaps) = 0
    BY DEF ServerInit
  <2>2. RuntimeInv
    BY <2>1 DEF ServerInit, RuntimeInv
  <2>3. snaps \in Seq(Snap) /\ pushed \in Seq(Nat)
    BY <2>1
  <2> QED  BY <1>1, <2>1, <2>2, <2>3, BoundAssumption DEF VmTypes, TickInv, tick
<1>4. LinkTypes
  BY DEF ServerInit, LinkTypes
<1>5. ViewTypes /\ UserTypes
  BY <1>1 DEF ServerInit, ViewTypes, UserTypes
<1> QED  BY <1>2, <1>3, <1>4, <1>5 DEF TypesInv, Types

\* The steps of the daemon.
LEMMA TypesDaemon ==
  ASSUME TypesInv, Daemon
  PROVE  TypesInv'
<1>1. /\ LoopTypes /\ InTypes /\ VmTypes /\ LinkTypes /\ ViewTypes /\ UserTypes /\ TickInv
      /\ RuntimeInv /\ MaxTick \in Nat /\ tick \in Nat
  BY BoundAssumption DEF TypesInv, Types, VmTypes, tick
<1>2. ASSUME UNCHANGED vmVars PROVE VmTypes' /\ RuntimeInv' /\ tick' = tick
  BY <1>1, <1>2, Zenon DEF VmTypes, RuntimeInv, vmVars, tick
<1>3. ASSUME UNCHANGED viewVars PROVE ViewTypes'
  BY <1>1, <1>3 DEF ViewTypes, viewVars
<1>4. ASSUME UNCHANGED userVars PROVE UserTypes'
  BY <1>1, <1>4 DEF UserTypes, userVars
<1>5. ASSUME UNCHANGED inVars PROVE InTypes'
  BY <1>1, <1>5 DEF InTypes, inVars
<1>6. \A i \in 1..Len(clients) : clients[i] \in Client
  BY <1>1 DEF LinkTypes
<1>7. ASSUME Accept PROVE TypesInv'
  <2>1. LinkTypes'
    BY <1>1, <1>7 DEF Accept, LinkTypes
  <2>2. LoopTypes' /\ TickInv'
    BY <1>1, <1>2, <1>7 DEF Accept, LoopTypes, TickInv
  <2>3. VmTypes' /\ RuntimeInv' /\ ViewTypes' /\ UserTypes' /\ InTypes'
    BY <1>2, <1>3, <1>4, <1>5, <1>7 DEF Accept
  <2> QED  BY <2>1, <2>2, <2>3 DEF TypesInv, Types
<1>8. ASSUME Drain PROVE TypesInv'
  <2>1. at \in 1..Len(clients)
    BY <1>1, <1>8 DEF Drain, LoopTypes, LinkTypes
  <2>2. PICK c \in Client : c = clients[at]
    BY <1>6, <2>1
  <2>3. /\ ReadFrom(c, Len(up[c])) /\ up' = [up EXCEPT ![c] = <<>>]
        /\ IF link[c] = "closed" THEN clients' = RemoveAt(clients, at) /\ UNCHANGED at
                                 ELSE at' = at + 1 /\ UNCHANGED clients
        /\ UNCHANGED <<pc, part, vmVars, link, backlog, down, viewVars, userVars>>
    BY <1>8, <2>2 DEF Drain
  <2>4. InTypes'
    <3>1. Len(up[c]) \in 0..Len(up[c])
      BY <1>1 DEF LinkTypes
    <3> QED  BY <1>1, <2>3, <3>1, ReadFromTypes
  <2>5. LinkTypes'
    BY <1>1, <2>1, <2>3, RemoveAtFacts DEF LinkTypes
  <2>6. LoopTypes' /\ TickInv'
    BY <1>1, <1>2, <2>3 DEF LoopTypes, TickInv
  <2>7. VmTypes' /\ RuntimeInv' /\ ViewTypes' /\ UserTypes'
    BY <1>2, <1>3, <1>4, <2>3
  <2> QED  BY <2>4, <2>5, <2>6, <2>7 DEF TypesInv, Types
<1>9. ASSUME DrainTorn PROVE TypesInv'
  <2>1. at \in 1..Len(clients)
    BY <1>1, <1>9 DEF DrainTorn, LoopTypes, LinkTypes
  <2>2. PICK c \in Client : c = clients[at]
    BY <1>6, <2>1
  <2>3. PICK n \in 0..(Len(up[c]) - 1) :
          ReadFrom(c, n) /\ up' = [up EXCEPT ![c] = <<>>] /\ clients' = RemoveAt(clients, at)
    BY <1>9, <2>2 DEF DrainTorn
  <2>4. UNCHANGED <<loopVars, vmVars, link, backlog, down, viewVars, userVars>>
    BY <1>9 DEF DrainTorn
  <2>5. InTypes'
    <3>1. n \in 0..Len(up[c])
      BY <1>1 DEF LinkTypes
    <3> QED  BY <1>1, <2>3, <3>1, ReadFromTypes
  <2>6. LinkTypes'
    <3>1. clients' \in Seq(Client)
      BY <1>1, <2>1, <2>3, RemovedTypes
    <3>2. up' \in [Client -> Seq(Command \cup {Newline})]
      BY <1>1, <2>3, EmptySeq DEF LinkTypes
    <3> QED  BY <1>1, <2>4, <3>1, <3>2 DEF LinkTypes
  <2>7. LoopTypes' /\ TickInv'
    BY <1>1, <1>2, <2>4 DEF LoopTypes, TickInv, loopVars
  <2>8. VmTypes' /\ RuntimeInv' /\ ViewTypes' /\ UserTypes'
    BY <1>2, <1>3, <1>4, <2>4
  <2> QED  BY <2>5, <2>6, <2>7, <2>8 DEF TypesInv, Types
<1>10. ASSUME Drained PROVE TypesInv'
  <2>1. LinkTypes' /\ LoopTypes' /\ TickInv'
    BY <1>1, <1>2, <1>10 DEF Drained, LinkTypes, LoopTypes, TickInv
  <2>2. VmTypes' /\ RuntimeInv' /\ ViewTypes' /\ UserTypes' /\ InTypes'
    BY <1>2, <1>3, <1>4, <1>5, <1>10 DEF Drained
  <2> QED  BY <2>1, <2>2 DEF TypesInv, Types
<1>11. ASSUME Tick PROVE TypesInv'
  <2>1. PICK vm \in Seq(Nat \X Nat) :
          snaps' = Append(snaps, [vm |-> vm, lines |-> pending, answers |-> commands])
    BY <1>1, <1>11, TickFacts
  <2>2. [vm |-> vm, lines |-> pending, answers |-> commands] \in Snap
    BY <1>1 DEF Snap, InTypes
  <2>3. snaps' \in Seq(Snap) /\ tick' = tick + 1
    BY <1>1, <2>1, <2>2 DEF VmTypes, tick
  <2>4. VmTypes' /\ RuntimeInv'
    BY <1>1, <1>11, <2>3, TickFacts DEF VmTypes
  <2>5. LinkTypes' /\ LoopTypes' /\ TickInv'
    BY <1>1, <1>11, <2>3 DEF Tick, LinkTypes, LoopTypes, TickInv
  <2>6. InTypes'
    BY <1>1, <1>11 DEF Tick, InTypes, Rest
  <2>7. ViewTypes' /\ UserTypes'
    BY <1>3, <1>4, <1>11 DEF Tick
  <2> QED  BY <2>4, <2>5, <2>6, <2>7 DEF TypesInv, Types
<1>12. ASSUME Write PROVE TypesInv'
  <2>1. at \in 1..Len(clients) /\ pc = "write"
    BY <1>1, <1>12 DEF Write, LoopTypes, LinkTypes
  <2>2. PICK c \in Client : c = clients[at]
    BY <1>6, <2>1
  <2>3. /\ IF link[c] = "closed" \/ Len(down[c]) = Room
             THEN /\ clients' = RemoveAt(clients, at) /\ up' = [up EXCEPT ![c] = <<>>]
                  /\ at' = at /\ part' = 1 /\ UNCHANGED down
             ELSE /\ down' = [down EXCEPT ![c] = Append(@, [of |-> tick, no |-> part])]
                  /\ IF part = Parts THEN at' = at + 1 /\ part' = 1
                                     ELSE part' = part + 1 /\ UNCHANGED at
                  /\ UNCHANGED <<clients, up>>
        /\ UNCHANGED <<pc, inVars, vmVars, link, backlog, viewVars, userVars>>
    BY <1>12, <2>2 DEF Write, AfterRemoval
  <2>4. [of |-> tick, no |-> part] \in Piece
    BY <1>1, <2>1 DEF Piece, TickInv, LoopTypes
  <2>5. Append(down[c], [of |-> tick, no |-> part]) \in Seq(Piece)
    BY <1>1, <2>4 DEF LinkTypes
  <2>6. LinkTypes'
    <3>1. CASE link[c] = "closed" \/ Len(down[c]) = Room
      <4>1. RemoveAt(clients, at) \in Seq(Client)
        BY <1>1, <2>1, RemoveAtFacts DEF LinkTypes
      <4>2. <<>> \in Seq(Command \cup {Newline})
        OBVIOUS
      <4> QED  BY <1>1, <2>3, <3>1, <4>1, <4>2 DEF LinkTypes
    <3>2. CASE ~ (link[c] = "closed" \/ Len(down[c]) = Room)
      BY <1>1, <2>3, <2>5, <3>2 DEF LinkTypes
    <3> QED  BY <3>1, <3>2
  <2>7. LoopTypes' /\ TickInv'
    BY <1>1, <1>2, <2>3, PartsAssumption DEF LoopTypes, TickInv
  <2>8. VmTypes' /\ RuntimeInv' /\ ViewTypes' /\ UserTypes' /\ InTypes'
    BY <1>2, <1>3, <1>4, <1>5, <2>3
  <2> QED  BY <2>6, <2>7, <2>8 DEF TypesInv, Types
<1>13. ASSUME Written PROVE TypesInv'
  <2>1. LinkTypes' /\ LoopTypes' /\ TickInv'
    BY <1>1, <1>2, <1>13 DEF Written, LinkTypes, LoopTypes, TickInv
  <2>2. VmTypes' /\ RuntimeInv' /\ ViewTypes' /\ UserTypes' /\ InTypes'
    BY <1>2, <1>3, <1>4, <1>5, <1>13 DEF Written
  <2> QED  BY <2>1, <2>2 DEF TypesInv, Types
<1> QED  BY <1>7, <1>8, <1>9, <1>10, <1>11, <1>12, <1>13 DEF Daemon

\* The commands that the user of a TUI types.
LEMMA CommandType ==
  ASSUME NEW c \in Client, NEW n \in Nat
  PROVE  [by |-> c, no |-> n + 1] \in Command
  BY DEF Command

\* The steps of a TUI.
LEMMA TypesTui ==
  ASSUME TypesInv, NEW c \in Client, Tui(c)
  PROVE  TypesInv'
<1>1. /\ LoopTypes /\ InTypes /\ VmTypes /\ LinkTypes /\ ViewTypes /\ UserTypes /\ TickInv
      /\ RuntimeInv
  BY DEF TypesInv, Types
<1>2. UNCHANGED <<loopVars, inVars, vmVars>>
  BY DEF Tui, Connect, Close, Disconnect, Receive, ReceiveTorn, SendText, SendNewline
<1>3. LoopTypes' /\ InTypes' /\ VmTypes' /\ RuntimeInv' /\ TickInv'
  BY <1>1, <1>2, Zenon
     DEF LoopTypes, InTypes, VmTypes, RuntimeInv, TickInv, loopVars, inVars, vmVars, tick
<1>4. ASSUME UNCHANGED viewVars PROVE ViewTypes'
  BY <1>1, <1>4 DEF ViewTypes, viewVars
<1>5. ASSUME UNCHANGED userVars PROVE UserTypes'
  BY <1>1, <1>5 DEF UserTypes, userVars
<1>6. ASSUME Connect(c) PROVE LinkTypes' /\ ViewTypes' /\ UserTypes'
  BY <1>1, <1>4, <1>5, <1>6 DEF Connect, LinkTypes
<1>7. ASSUME Disconnect(c) PROVE LinkTypes' /\ ViewTypes' /\ UserTypes'
  BY <1>1, <1>7 DEF Disconnect, LinkTypes, ViewTypes, UserTypes
<1>8. ASSUME Receive(c) PROVE LinkTypes' /\ ViewTypes' /\ UserTypes'
  <2>1. Decode(c, Len(down[c])) /\ down' = [down EXCEPT ![c] = <<>>]
        /\ UNCHANGED <<clients, backlog, link, up, torn, userVars>>
    BY <1>8 DEF Receive
  <2>2. Len(down[c]) \in 0..Len(down[c])
    BY <1>1 DEF LinkTypes
  <2>3. ViewTypes'
    BY <1>1, <2>1, <2>2, DecodeTypes DEF ViewTypes
  <2> QED  BY <1>1, <1>5, <2>1, <2>3 DEF LinkTypes
<1>9. ASSUME ReceiveTorn(c), ~ Disconnect(c) PROVE LinkTypes' /\ ViewTypes' /\ UserTypes'
  <2>1. PICK n \in 0..(Len(down[c]) - 1) :
          Decode(c, n) /\ down' = [down EXCEPT ![c] = SubSeq(@, n + 2, Len(@))]
    BY <1>9 DEF ReceiveTorn
  <2>2. torn' = [torn EXCEPT ![c] = TRUE] /\ UNCHANGED <<clients, backlog, link, up, userVars>>
    BY <1>9 DEF ReceiveTorn
  <2>3. n \in 0..Len(down[c])
    BY <1>1 DEF LinkTypes
  <2>4. ViewTypes'
    BY <1>1, <2>1, <2>2, <2>3, DecodeTypes DEF ViewTypes
  <2>5. SubSeq(down[c], n + 2, Len(down[c])) \in Seq(Piece)
    BY <1>1 DEF LinkTypes
  <2>6. down' \in [Client -> Seq(Piece)]
    BY <1>1, <2>1, <2>5 DEF LinkTypes
  <2> QED  BY <1>1, <1>5, <2>2, <2>4, <2>6 DEF LinkTypes
<1>10. ASSUME SendText(c) PROVE LinkTypes' /\ ViewTypes' /\ UserTypes'
  <2>1. PICK cmd \in Command : cmd = [by |-> c, no |-> typed[c] + 1]
    BY <1>1, CommandType DEF UserTypes
  <2>2. /\ typed' = [typed EXCEPT ![c] = @ + 1] /\ UNCHANGED sent
        /\ \/ up' = [up EXCEPT ![c] = Append(@, cmd)] /\ half' = [half EXCEPT ![c] = <<cmd>>]
           \/ UNCHANGED <<up, half>>
        /\ UNCHANGED <<clients, backlog, link, down, viewVars>>
    BY <1>10, <2>1 DEF SendText
  <2>3. Append(up[c], cmd) \in Seq(Command \cup {Newline}) /\ <<cmd>> \in Seq(Command)
    BY <1>1, <2>1 DEF LinkTypes
  <2>4. LinkTypes'
    BY <1>1, <2>2, <2>3 DEF LinkTypes
  <2>5. UserTypes'
    <3>1. half' \in [Client -> Seq(Command)]
      BY <1>1, <2>2, <2>3 DEF UserTypes
    <3>2. typed' \in [Client -> Nat] /\ sent' \in [Client -> SUBSET Command]
      BY <1>1, <2>2 DEF UserTypes
    <3> QED  BY <3>1, <3>2 DEF UserTypes
  <2> QED  BY <1>4, <2>2, <2>4, <2>5
<1>11. ASSUME SendNewline(c) PROVE LinkTypes' /\ ViewTypes' /\ UserTypes'
  <2>1. /\ half[c] # <<>> /\ half' = [half EXCEPT ![c] = <<>>] /\ UNCHANGED typed
        /\ \/ up' = [up EXCEPT ![c] = Append(@, Newline)]
              /\ sent' = [sent EXCEPT ![c] = @ \cup {half[c][1]}]
           \/ UNCHANGED <<up, sent>>
        /\ UNCHANGED <<clients, backlog, link, down, viewVars>>
    BY <1>11 DEF SendNewline
  <2>2. half[c][1] \in Command
    BY <1>1, <2>1 DEF UserTypes
  <2>3. Append(up[c], Newline) \in Seq(Command \cup {Newline})
    BY <1>1 DEF LinkTypes
  <2>4. LinkTypes'
    BY <1>1, <2>1, <2>3 DEF LinkTypes
  <2>5. UserTypes'
    <3>1. half' \in [Client -> Seq(Command)]
      <4>1. <<>> \in Seq(Command)
        OBVIOUS
      <4> QED  BY <1>1, <2>1, <4>1 DEF UserTypes
    <3>2. sent' \in [Client -> SUBSET Command]
      <4>1. sent \in [Client -> SUBSET Command] /\ sent[c] \cup {half[c][1]} \in SUBSET Command
        BY <1>1, <2>2 DEF UserTypes
      <4> QED  BY <2>1, <4>1
    <3>3. typed' \in [Client -> Nat]
      BY <1>1, <2>1 DEF UserTypes
    <3> QED  BY <3>1, <3>2, <3>3 DEF UserTypes
  <2> QED  BY <1>4, <2>1, <2>4, <2>5
<1> QED
  BY <1>3, <1>6, <1>7, <1>8, <1>9, <1>10, <1>11 DEF Tui, Close, TypesInv, Types

\* Every step.
LEMMA TypesStep ==
  ASSUME TypesInv, [ServerNext]_serverVars
  PROVE  TypesInv'
<1>1. CASE UNCHANGED serverVars
  BY <1>1, Zenon
     DEF serverVars, loopVars, inVars, vmVars, viewVars, userVars, TypesInv, Types, LoopTypes,
         InTypes, VmTypes, LinkTypes, ViewTypes, UserTypes, TickInv, RuntimeInv, tick
<1> QED  BY <1>1, TypesDaemon, TypesTui DEF ServerNext

-----------------------------------------------------------------------------
(* The VM's events.                                                        *)

\* What the snapshots s have sent, and what runtimes with p events each have collected.
SentBy(s) == [t \in 1..Len(s) |-> s[t].vm]
Collected(g, n) == [i \in 1..n |-> <<g, i>>]
CollectedBy(p) == [g \in 1..Len(p) |-> Collected(g, p[g])]

Event == Nat \X Nat

\* One event more, or none.
LEMMA CollectedMore ==
  ASSUME NEW g \in Nat, NEW p \in Nat, NEW n \in 0..1
  PROVE  /\ Collected(g, p) \in Seq(Event)
         /\ [i \in 1..n |-> <<g, p + i>>] \in Seq(Event)
         /\ Collected(g, p + n) = Collected(g, p) \o [i \in 1..n |-> <<g, p + i>>]
<1>1. PICK a : a = Collected(g, p)
  OBVIOUS
<1>2. PICK b : b = [i \in 1..n |-> <<g, p + i>>]
  OBVIOUS
<1>3. PICK c : c = Collected(g, p + n)
  OBVIOUS
<1>4. a \in Seq(Event) /\ Len(a) = p /\ \A i \in 1..p : a[i] = <<g, i>>
  BY <1>1 DEF Collected, Event
<1>5. b \in Seq(Event) /\ Len(b) = n /\ \A i \in 1..n : b[i] = <<g, p + i>>
  BY <1>2 DEF Event
<1>6. c \in Seq(Event) /\ Len(c) = p + n /\ \A i \in 1..(p + n) : c[i] = <<g, i>>
  BY <1>3 DEF Collected, Event
<1>7. a \o b \in Seq(Event) /\ Len(a \o b) = p + n
      /\ \A i \in 1..(p + n) : (a \o b)[i] = IF i <= p THEN a[i] ELSE b[i - p]
  BY <1>4, <1>5, ConcatProperties
<1>8. ASSUME NEW i \in 1..(p + n) PROVE (a \o b)[i] = <<g, i>>
  <2>1. CASE i <= p
    <3>1. i \in 1..p
      BY <2>1
    <3> QED  BY <1>4, <1>7, <2>1, <3>1
  <2>2. CASE ~ i <= p
    <3>1. i - p \in 1..n /\ p + (i - p) = i
      BY <2>2
    <3> QED  BY <1>5, <1>7, <2>2, <3>1
  <2> QED  BY <2>1, <2>2
<1>9. c = a \o b
  BY <1>6, <1>7, <1>8, SeqEqual
<1> QED  BY <1>1, <1>2, <1>3, <1>4, <1>5, <1>9

\* What one snapshot more has sent.
LEMMA SentMore ==
  ASSUME NEW s \in Seq(Snap), NEW e \in Snap
  PROVE  /\ SentBy(s) \in Seq(Seq(Event)) /\ e.vm \in Seq(Event)
         /\ SentBy(Append(s, e)) = Append(SentBy(s), e.vm)
<1>1. PICK n \in Nat : n = Len(s)
  OBVIOUS
<1>2. PICK f : f = Append(s, e)
  OBVIOUS
<1>3. Len(f) = n + 1 /\ f[n + 1] = e /\ \A t \in 1..n : f[t] = s[t]
  BY <1>1, <1>2
<1>4. e.vm \in Seq(Event) /\ \A t \in 1..n : s[t].vm \in Seq(Event)
  <2>1. \A t \in 1..n : s[t] \in Snap
    BY <1>1
  <2>2. ASSUME NEW x \in Snap PROVE x.vm \in Seq(Event)
    BY DEF Snap, Event
  <2> QED  BY <2>1, <2>2
<1>5. PICK a : a = SentBy(s)
  OBVIOUS
<1>6. a \in Seq(Seq(Event)) /\ Len(a) = n /\ \A t \in 1..n : a[t] = s[t].vm
  BY <1>1, <1>4, <1>5 DEF SentBy
<1>7. PICK b : b = SentBy(f)
  OBVIOUS
<1>8. /\ b \in Seq(Seq(Event)) /\ Len(b) = n + 1 /\ b[n + 1] = e.vm
      /\ \A t \in 1..n : b[t] = s[t].vm
  <2>1. b = [t \in 1..(n + 1) |-> f[t].vm]
    BY <1>3, <1>7 DEF SentBy
  <2>2. \A t \in 1..(n + 1) : f[t].vm \in Seq(Event)
    BY <1>3, <1>4
  <2> QED  BY <1>3, <2>1, <2>2
<1>9. b = Append(a, e.vm)
  <2>1. PICK x \in Seq(Event) : x = e.vm
    BY <1>4
  <2>2. PICK c : c = Append(a, x)
    OBVIOUS
  <2>3. c \in Seq(Seq(Event)) /\ Len(c) = n + 1 /\ c[n + 1] = x /\ \A t \in 1..n : c[t] = a[t]
    BY <1>6, <2>2
  <2>4. \A t \in 1..(n + 1) : t = n + 1 \/ t \in 1..n
    OBVIOUS
  <2>5. Len(b) = Len(c) /\ \A t \in 1..Len(b) : b[t] = c[t]
    BY <1>6, <1>8, <2>1, <2>3, <2>4
  <2>6. b \in Seq(Seq(Event)) /\ c \in Seq(Seq(Event))
    BY <1>8, <2>3
  <2>7. b = c
    BY <2>5, <2>6, SeqEqual
  <2> QED  BY <2>1, <2>2, <2>7
<1> QED  BY <1>2, <1>4, <1>5, <1>6, <1>7, <1>9

\* What one runtime more has collected.
LEMMA CollectedNew ==
  ASSUME NEW p \in Seq(Nat), NEW n \in Nat
  PROVE  /\ CollectedBy(p) \in Seq(Seq(Event)) /\ Collected(Len(p) + 1, n) \in Seq(Event)
         /\ CollectedBy(Append(p, n)) = Append(CollectedBy(p), Collected(Len(p) + 1, n))
<1>1. PICK k \in Nat : k = Len(p)
  OBVIOUS
<1>2. PICK q : q = Append(p, n)
  OBVIOUS
<1>3. Len(q) = k + 1 /\ q[k + 1] = n /\ \A g \in 1..k : q[g] = p[g]
  BY <1>1, <1>2
<1>4. Collected(k + 1, n) \in Seq(Event) /\ \A g \in 1..k : Collected(g, p[g]) \in Seq(Event)
  <2>1. ASSUME NEW g \in Nat, NEW m \in Nat PROVE Collected(g, m) \in Seq(Event)
    BY DEF Collected, Event
  <2>2. \A g \in 1..k : g \in Nat /\ p[g] \in Nat
    BY <1>1
  <2>3. k + 1 \in Nat
    OBVIOUS
  <2> QED  BY <2>1, <2>2, <2>3
<1>5. PICK a : a = CollectedBy(p)
  OBVIOUS
<1>6. a \in Seq(Seq(Event)) /\ Len(a) = k /\ \A g \in 1..k : a[g] = Collected(g, p[g])
  BY <1>1, <1>4, <1>5 DEF CollectedBy
<1>7. PICK b : b = CollectedBy(q)
  OBVIOUS
<1>8. /\ b \in Seq(Seq(Event)) /\ Len(b) = k + 1 /\ b[k + 1] = Collected(k + 1, n)
      /\ \A g \in 1..k : b[g] = Collected(g, p[g])
  <2>1. b = [g \in 1..(k + 1) |-> Collected(g, q[g])]
    BY <1>3, <1>7 DEF CollectedBy
  <2>2. \A g \in 1..(k + 1) : g = k + 1 \/ g \in 1..k
    OBVIOUS
  <2>3. \A g \in 1..(k + 1) : Collected(g, q[g]) \in Seq(Event)
    BY <1>3, <1>4, <2>2
  <2>4. b \in Seq(Seq(Event)) /\ Len(b) = k + 1 /\ \A g \in 1..(k + 1) : b[g] = Collected(g, q[g])
    BY <2>1, <2>3
  <2>5. k + 1 \in 1..(k + 1) /\ \A g \in 1..k : g \in 1..(k + 1)
    OBVIOUS
  <2> QED  BY <1>3, <2>4, <2>5
<1>9. b = Append(a, Collected(k + 1, n))
  BY <1>4, <1>6, <1>8, SeqEqual
<1> QED  BY <1>1, <1>2, <1>4, <1>5, <1>6, <1>7, <1>9

\* A sequence of numbers whose last is replaced.
LEMMA LastReplaced ==
  ASSUME NEW p \in Seq(Nat), p # <<>>, NEW m \in Nat
  PROVE  \E f \in Seq(Nat) : /\ p = Append(f, Last(p)) /\ Len(f) = Len(p) - 1 /\ Last(p) \in Nat
                             /\ [p EXCEPT ![Len(p)] = m] = Append(f, m)
<1>1. PICK k \in Nat : k = Len(p) /\ k >= 1
  BY EmptySeq
<1>2. Last(p) = p[k] /\ p[k] \in Nat /\ k \in 1..k /\ \A i \in 1..k : p[i] \in Nat
  BY <1>1 DEF Last
<1>3. PICK f : f = [i \in 1..(k - 1) |-> p[i]]
  OBVIOUS
<1>4. f \in Seq(Nat) /\ Len(f) = k - 1 /\ \A i \in 1..(k - 1) : f[i] = p[i]
  <2>1. k - 1 \in Nat /\ \A i \in 1..(k - 1) : p[i] \in Nat
    BY <1>1, <1>2
  <2> QED  BY <1>3, <2>1
<1>5. ASSUME NEW q \in Seq(Nat), NEW l \in Nat, Len(q) = k, q[k] = l,
             \A i \in 1..(k - 1) : q[i] = p[i]
      PROVE  q = Append(f, l)
  <2>1. PICK a : a = Append(f, l)
    OBVIOUS
  <2>2. a \in Seq(Nat) /\ Len(a) = k /\ a[k] = l /\ \A i \in 1..(k - 1) : a[i] = p[i]
    BY <1>1, <1>4, <2>1
  <2>3. \A i \in 1..k : i = k \/ i \in 1..(k - 1)
    OBVIOUS
  <2> QED  BY <1>5, <2>1, <2>2, <2>3, SeqEqual
<1>6. p = Append(f, p[k])
  BY <1>1, <1>2, <1>5
<1>7. [p EXCEPT ![k] = m] = Append(f, m)
  <2>1. PICK q : q = [p EXCEPT ![k] = m]
    OBVIOUS
  <2>2. q \in Seq(Nat) /\ Len(q) = k /\ q[k] = m /\ \A i \in 1..(k - 1) : q[i] = p[i]
    BY <1>1, <1>2, <2>1
  <2> QED  BY <1>5, <2>1, <2>2
<1> QED  BY <1>1, <1>2, <1>4, <1>6, <1>7

\* What the last runtime has collected more.
LEMMA CollectedByMore ==
  ASSUME NEW p \in Seq(Nat), p # <<>>, NEW n \in 0..1
  PROVE  FlattenSeq(CollectedBy([p EXCEPT ![Len(p)] = @ + n])) =
           FlattenSeq(CollectedBy(p)) \o [i \in 1..n |-> <<Len(p), Last(p) + i>>]
<1>1. PICK k \in Nat, l \in Nat : k = Len(p) /\ l = Last(p) /\ p[k] = l
  <2>1. Len(p) \in Nat /\ Len(p) \in 1..Len(p)
    BY EmptySeq
  <2>2. p[Len(p)] \in Nat
    BY <2>1
  <2> QED  BY <2>1, <2>2 DEF Last
<1>2. PICK m \in Nat : m = l + n
  OBVIOUS
<1>3. PICK f \in Seq(Nat) : p = Append(f, l) /\ Len(f) + 1 = k /\ [p EXCEPT ![k] = m] = Append(f, m)
  <2>1. \E f \in Seq(Nat) : /\ p = Append(f, Last(p)) /\ Len(f) = Len(p) - 1 /\ Last(p) \in Nat
                             /\ [p EXCEPT ![Len(p)] = m] = Append(f, m)
    BY LastReplaced
  <2>2. PICK f \in Seq(Nat) : /\ p = Append(f, Last(p)) /\ Len(f) = Len(p) - 1
                              /\ [p EXCEPT ![Len(p)] = m] = Append(f, m)
    BY <2>1
  <2> QED  BY <1>1, <2>2
<1>4. PICK a : a = CollectedBy(f)
  OBVIOUS
<1>5. ASSUME NEW x \in Nat
       PROVE  /\ CollectedBy(Append(f, x)) = Append(a, Collected(k, x)) /\ a \in Seq(Seq(Event))
              /\ Collected(k, x) \in Seq(Event)
  <2>1. /\ CollectedBy(f) \in Seq(Seq(Event)) /\ Collected(Len(f) + 1, x) \in Seq(Event)
        /\ CollectedBy(Append(f, x)) = Append(CollectedBy(f), Collected(Len(f) + 1, x))
    BY CollectedNew
  <2> QED  BY <1>3, <1>4, <2>1
<1>6. /\ CollectedBy(p) = Append(a, Collected(k, l)) /\ a \in Seq(Seq(Event))
      /\ Collected(k, l) \in Seq(Event)
  BY <1>3, <1>5
<1>7. /\ CollectedBy([p EXCEPT ![k] = m]) = Append(a, Collected(k, m))
      /\ Collected(k, m) \in Seq(Event)
  BY <1>3, <1>5
<1>8. PICK e : e = [i \in 1..n |-> <<k, l + i>>]
  OBVIOUS
<1>9. e \in Seq(Event) /\ Collected(k, m) = Collected(k, l) \o e
  BY <1>2, <1>8, CollectedMore
<1>10. /\ FlattenSeq(CollectedBy(p)) = FlattenSeq(a) \o Collected(k, l)
      /\ FlattenSeq(a) \in Seq(Event)
      /\ FlattenSeq(CollectedBy([p EXCEPT ![k] = m])) = FlattenSeq(a) \o Collected(k, m)
  BY <1>6, <1>7, FlattenAppend
<1>11. FlattenSeq(CollectedBy([p EXCEPT ![k] = m])) = FlattenSeq(CollectedBy(p)) \o e
  <2>1. PICK x \in Seq(Event), y \in Seq(Event) : x = FlattenSeq(a) /\ y = Collected(k, l)
    BY <1>6, <1>10
  <2>2. PICK z \in Seq(Event) : z = e
    BY <1>9
  <2>3. (x \o y) \o z = x \o (y \o z)
    BY ConcatAssociative, SMTT(30)
  <2>4. (x \o y) \o e = x \o (y \o e)
    BY <2>2, <2>3
  <2> QED  BY <1>9, <1>10, <2>1, <2>4
<1>12. [p EXCEPT ![Len(p)] = @ + n] = [p EXCEPT ![k] = m]
  BY <1>1, <1>2
<1> QED  BY <1>1, <1>8, <1>11, <1>12

\* The two accounts of the events.
LEMMA EventsAccounts == EventsOnce <=> FlattenSeq(SentBy(snaps)) = FlattenSeq(CollectedBy(pushed))
BY DEF EventsOnce, SentBy, CollectedBy, Collected, tick

\* A tick keeps the two accounts of the events together.
LEMMA EventsTick ==
  ASSUME TypesInv, EventsOnce, Tick
  PROVE  FlattenSeq(SentBy(snaps')) = FlattenSeq(CollectedBy(pushed'))
<1>1. VmTypes /\ RuntimeInv /\ snaps \in Seq(Snap) /\ pushed \in Seq(Nat)
  BY DEF TypesInv, Types, VmTypes
<1>2. PICK n \in 0..1, vm \in Seq(Event) :
        /\ Carries(n, vm)
        /\ snaps' = Append(snaps, [vm |-> vm, lines |-> pending, answers |-> commands])
  BY <1>1, TickFacts DEF Event
<1>3. PICK e \in Snap : e.vm = vm /\ snaps' = Append(snaps, e)
  <2>1. [vm |-> vm, lines |-> pending, answers |-> commands] \in Snap
    BY DEF TypesInv, Types, InTypes, Snap, Event
  <2> QED  BY <1>2, <2>1
<1>4. FlattenSeq(SentBy(snaps')) = FlattenSeq(SentBy(snaps)) \o vm
      /\ FlattenSeq(SentBy(snaps)) \in Seq(Event)
  <2>1. SentBy(snaps) \in Seq(Seq(Event)) /\ SentBy(snaps') = Append(SentBy(snaps), vm)
    BY <1>1, <1>3, SentMore
  <2> QED  BY <2>1, FlattenAppend
<1>5. FlattenSeq(SentBy(snaps)) = FlattenSeq(CollectedBy(pushed))
  BY EventsAccounts
<1>6. FlattenSeq(CollectedBy(pushed')) = FlattenSeq(CollectedBy(pushed)) \o vm
  <2>1. CASE pushed' = pushed /\ vm = <<>>
    BY <1>4, <1>5, <2>1, ConcatEmptySeq
  <2>2. CASE pushed' = Append(pushed, n) /\ vm = [i \in 1..n |-> <<Len(pushed) + 1, i>>]
    <3>1. n \in Nat /\ vm = Collected(Len(pushed) + 1, n)
      BY <2>2 DEF Collected
    <3>2. /\ CollectedBy(pushed) \in Seq(Seq(Event))
          /\ CollectedBy(pushed') = Append(CollectedBy(pushed), vm)
      BY <1>1, <2>2, <3>1, CollectedNew
    <3> QED  BY <3>2, FlattenAppend
  <2>3. CASE /\ pushed # <<>> /\ pushed' = [pushed EXCEPT ![Len(pushed)] = @ + n]
             /\ vm = [i \in 1..n |-> <<Len(pushed), Last(pushed) + i>>]
    BY <1>1, <2>3, CollectedByMore
  <2> QED  BY <1>2, <2>1, <2>2, <2>3 DEF Carries
<1> QED  BY <1>4, <1>5, <1>6

\* Every step keeps them together.
LEMMA EventsStep ==
  ASSUME TypesInv, EventsOnce, [ServerNext]_serverVars
  PROVE  EventsOnce'
<1>1. CASE Tick
  <2>1. FlattenSeq(SentBy(snaps')) = FlattenSeq(CollectedBy(pushed'))
    BY <1>1, EventsTick
  <2> QED  BY <2>1 DEF EventsOnce, SentBy, CollectedBy, Collected, tick
<1>2. CASE ~ Tick
  <2>1. UNCHANGED vmVars
    BY <1>2 DEF ServerNext, Daemon, Tui, Accept, Drain, DrainTorn, Drained, Write, Written,
                Connect, Close, Disconnect, Receive, ReceiveTorn, SendText, SendNewline, serverVars
  <2> QED  BY <2>1 DEF EventsOnce, vmVars, tick
<1> QED  BY <1>1, <1>2

\* The types, at every step.
LEMMA TypesAlways == ServerSpec => []TypesInv
<1>1. TypesInv /\ [ServerNext]_serverVars => TypesInv'
  BY TypesStep
<1> QED  BY <1>1, TypesInitially, PTL DEF ServerSpec

\* However many runtimes a run has and however often it is ticked, what the snapshots
\* carry, joined together, is what the runtimes collected, joined together: no event is
\* lost when a runtime is replaced, and none is sent twice.
THEOREM EventsAlwaysOnce == ServerSpec => []EventsOnce
<1>1. ServerInit => EventsOnce
  <2>1. ASSUME ServerInit PROVE EventsOnce
    <3>1. tick = 0 /\ Len(pushed) = 0
      BY <2>1 DEF ServerInit, tick
    <3>2. [t \in 1..tick |-> snaps[t].vm] = <<>>
      BY <3>1
    <3>3. [g \in 1..Len(pushed) |-> [i \in 1..pushed[g] |-> <<g, i>>]] = <<>>
      BY <3>1
    <3> QED  BY <3>2, <3>3 DEF EventsOnce
  <2> QED  BY <2>1
<1>2. TypesInv /\ EventsOnce /\ [ServerNext]_serverVars => EventsOnce'
  BY EventsStep
<1> QED  BY <1>1, <1>2, TypesAlways, PTL DEF ServerSpec

-----------------------------------------------------------------------------
(* The connections.                                                        *)

\* A TUI has at most one connection, accepted or not, and none before it connects.
SeatInv ==
    /\ \A i, j \in 1..Len(clients) : clients[i] = clients[j] => i = j
    /\ \A i, j \in 1..Len(backlog) : backlog[i] = backlog[j] => i = j
    /\ \A i \in 1..Len(clients), j \in 1..Len(backlog) : clients[i] # backlog[j]
    /\ \A i \in 1..Len(clients) : link[clients[i]] # "off"
    /\ \A i \in 1..Len(backlog) : link[backlog[i]] # "off"

\* The loops over the clients begin with the first and end after the last.
LoopInv ==
    /\ at <= Len(clients) + 1
    /\ pc \in {"accept", "tick"} => at = 1

\* The sockets hold what fits into them.
RoomInv ==
    \A c \in Client : Len(up[c]) <= Room /\ Len(down[c]) <= Room /\ Len(half[c]) <= 1

SeatsInv == SeatInv /\ LoopInv /\ RoomInv

\* Without one of its clients the list is as before, and the loop is within it.
LEMMA SeatRemoved ==
  ASSUME LinkTypes, LoopTypes, SeatInv, at <= Len(clients), UNCHANGED <<link, backlog>>,
         clients' = RemoveAt(clients, at)
  PROVE  SeatInv' /\ at <= Len(clients') + 1
<1>1. at \in 1..Len(clients) /\ Len(clients) \in Nat
  BY DEF LoopTypes, LinkTypes
<1>2. /\ Len(clients') = Len(clients) - 1
      /\ \A j \in 1..(Len(clients) - 1) :
            clients'[j] = IF j < at THEN clients[j] ELSE clients[j + 1]
  BY <1>1, RemoveAtFacts DEF LinkTypes
<1>3. \A j \in 1..(Len(clients) - 1) :
         j \in 1..Len(clients) /\ j + 1 \in 1..Len(clients) /\ j \in Int
  BY <1>1
<1> DEFINE old(j) == IF j < at THEN j ELSE j + 1
<1>4. ASSUME NEW j \in 1..Len(clients')
      PROVE  old(j) \in 1..Len(clients) /\ clients'[j] = clients[old(j)]
  BY <1>1, <1>2, <1>3
<1>5. ASSUME NEW i \in 1..Len(clients'), NEW j \in 1..Len(clients'), old(i) = old(j) PROVE i = j
  BY <1>1, <1>5
<1> HIDE DEF old
<1>6. \A i, j \in 1..Len(clients') : clients'[i] = clients'[j] => i = j
  BY <1>4, <1>5 DEF SeatInv
<1>7. SeatInv'
  BY <1>4, <1>6 DEF SeatInv
<1> QED  BY <1>1, <1>2, <1>7

\* Whether the daemon accepts, reads or writes, a connection is in one place.
LEMMA SeatsDaemon ==
  ASSUME TypesInv, SeatsInv, Daemon
  PROVE  SeatsInv'
<1>1. /\ LinkTypes /\ LoopTypes /\ UserTypes /\ SeatInv /\ LoopInv /\ RoomInv
      /\ Len(clients) \in Nat /\ Len(backlog) \in Nat /\ Room \in Nat \ {0}
      /\ \A c \in Client : Len(up[c]) \in Nat /\ Len(down[c]) \in Nat
  BY RoomAssumption DEF TypesInv, Types, LinkTypes, SeatsInv
<1>2. ASSUME UNCHANGED <<clients, backlog, link>> PROVE SeatInv'
  BY <1>1, <1>2 DEF SeatInv
<1>3. ASSUME UNCHANGED <<up, down, half>> PROVE RoomInv'
  BY <1>1, <1>3 DEF RoomInv
<1>4. ASSUME NEW c \in Client, up' = [up EXCEPT ![c] = <<>>], UNCHANGED <<down, half>>
      PROVE  RoomInv'
  BY <1>1, <1>4 DEF RoomInv, LinkTypes
<1>5. CASE Accept
  <2>1. /\ clients' = clients \o backlog /\ backlog' = <<>> /\ link' = link /\ at' = at
        /\ pc' = "drain" /\ at = 1
    BY <1>1, <1>5 DEF Accept, LoopInv
  <2>2. /\ Len(clients') = Len(clients) + Len(backlog)
        /\ \A i \in 1..(Len(clients) + Len(backlog)) :
              clients'[i] = IF i <= Len(clients) THEN clients[i] ELSE backlog[i - Len(clients)]
    BY <1>1, <2>1, ConcatProperties DEF LinkTypes
  <2>3. \A i \in 1..(Len(clients) + Len(backlog)) :
           /\ i <= Len(clients) => i \in 1..Len(clients)
           /\ ~ i <= Len(clients) => i - Len(clients) \in 1..Len(backlog) /\ i \in Int
    BY <1>1
  <2>4. Len(backlog') = 0
    BY <2>1
  <2>5. SeatInv'
    BY <1>1, <2>1, <2>2, <2>3, <2>4 DEF SeatInv
  <2>6. LoopInv'
    BY <1>1, <2>1, <2>2 DEF LoopInv
  <2> QED  BY <1>3, <1>5, <2>5, <2>6 DEF Accept, SeatsInv, userVars
<1>6. CASE Drain
  <2>1. at <= Len(clients) /\ at \in 1..Len(clients) /\ pc = "drain" /\ at \in Nat
    BY <1>1, <1>6 DEF Drain, LoopTypes
  <2>2. PICK c \in Client : c = clients[at]
    BY <1>1, <2>1, ClientAt
  <2>3. /\ up' = [up EXCEPT ![c] = <<>>]
        /\ IF link[c] = "closed" THEN clients' = RemoveAt(clients, at) /\ UNCHANGED at
                                 ELSE at' = at + 1 /\ UNCHANGED clients
        /\ UNCHANGED <<pc, link, backlog, down, half>>
    BY <1>6, <2>2 DEF Drain, userVars
  <2>4. SeatInv' /\ LoopInv'
    BY <1>1, <1>2, <2>1, <2>3, SeatRemoved DEF LoopInv
  <2> QED  BY <1>4, <2>3, <2>4 DEF SeatsInv
<1>7. CASE DrainTorn
  <2>1. at <= Len(clients) /\ at \in 1..Len(clients) /\ pc = "drain"
    BY <1>1, <1>7 DEF DrainTorn, LoopTypes
  <2>2. PICK c \in Client : c = clients[at]
    BY <1>1, <2>1, ClientAt
  <2>3. /\ up' = [up EXCEPT ![c] = <<>>] /\ clients' = RemoveAt(clients, at)
        /\ UNCHANGED <<pc, at, link, backlog, down, half>>
    BY <1>7, <2>2 DEF DrainTorn, userVars, loopVars
  <2>4. SeatInv' /\ LoopInv'
    BY <1>1, <2>1, <2>3, SeatRemoved DEF LoopInv
  <2> QED  BY <1>4, <2>3, <2>4 DEF SeatsInv
<1>8. CASE Drained
  BY <1>1, <1>2, <1>3, <1>8 DEF Drained, SeatsInv, LoopInv, userVars
<1>9. CASE Tick
  BY <1>1, <1>2, <1>3, <1>9 DEF Tick, SeatsInv, LoopInv, userVars
<1>10. CASE Write
  <2>1. at <= Len(clients) /\ at \in 1..Len(clients) /\ pc = "write" /\ at \in Nat
    BY <1>1, <1>10 DEF Write, LoopTypes
  <2>2. PICK c \in Client : c = clients[at]
    BY <1>1, <2>1, ClientAt
  <2>3. /\ IF link[c] = "closed" \/ Len(down[c]) = Room
             THEN /\ clients' = RemoveAt(clients, at) /\ up' = [up EXCEPT ![c] = <<>>]
                  /\ at' = at /\ UNCHANGED down
             ELSE /\ down' = [down EXCEPT ![c] = Append(@, [of |-> tick, no |-> part])]
                  /\ IF part = Parts THEN at' = at + 1 ELSE UNCHANGED at
                  /\ UNCHANGED <<clients, up>>
        /\ UNCHANGED <<pc, link, backlog, half>>
    BY <1>10, <2>2 DEF Write, AfterRemoval, userVars
  <2>4. SeatInv' /\ LoopInv'
    BY <1>1, <1>2, <2>1, <2>3, SeatRemoved DEF LoopInv
  <2>5. RoomInv'
    <3>1. CASE link[c] = "closed" \/ Len(down[c]) = Room
      BY <1>4, <2>3, <3>1
    <3>2. CASE ~ (link[c] = "closed" \/ Len(down[c]) = Room)
      <4>1. Len(Append(down[c], [of |-> tick, no |-> part])) = Len(down[c]) + 1
        BY <1>1 DEF LinkTypes
      <4>2. Len(down[c]) + 1 <= Room
        BY <1>1, <3>2 DEF RoomInv
      <4> QED  BY <1>1, <2>3, <3>2, <4>1, <4>2 DEF RoomInv, LinkTypes
    <3> QED  BY <3>1, <3>2
  <2> QED  BY <2>4, <2>5 DEF SeatsInv
<1>11. CASE Written
  BY <1>1, <1>2, <1>3, <1>11 DEF Written, SeatsInv, LoopInv, userVars
<1> QED  BY <1>5, <1>6, <1>7, <1>8, <1>9, <1>10, <1>11 DEF Daemon

\* The steps of a TUI.
LEMMA SeatsTui ==
  ASSUME TypesInv, SeatsInv, NEW c \in Client, Tui(c)
  PROVE  SeatsInv'
<1>1. /\ LinkTypes /\ LoopTypes /\ UserTypes /\ SeatInv /\ LoopInv /\ RoomInv
      /\ Len(clients) \in Nat /\ Len(backlog) \in Nat /\ Room \in Nat \ {0}
      /\ \A d \in Client : Len(up[d]) \in Nat /\ Len(down[d]) \in Nat
  BY RoomAssumption DEF TypesInv, Types, LinkTypes, SeatsInv
<1>2. /\ \A i \in 1..Len(clients) : clients[i] \in Client
      /\ \A i \in 1..Len(backlog) : backlog[i] \in Client
  BY <1>1 DEF LinkTypes
<1>3. UNCHANGED <<loopVars, clients>>
  BY DEF Tui, Connect, Close, Disconnect, Receive, ReceiveTorn, SendText, SendNewline
<1>4. LoopInv'
  BY <1>1, <1>3 DEF LoopInv, loopVars
<1>5. ASSUME UNCHANGED <<clients, backlog, link>> PROVE SeatInv'
  BY <1>1, <1>5 DEF SeatInv
<1>6. ASSUME UNCHANGED <<up, down, half>> PROVE RoomInv'
  BY <1>1, <1>6 DEF RoomInv
<1>7. CASE Connect(c)
  <2>1. /\ link[c] = "off" /\ link' = [link EXCEPT ![c] = "on"] /\ backlog' = Append(backlog, c)
        /\ UNCHANGED <<up, down, half>>
    BY <1>7 DEF Connect, userVars
  <2>2. /\ Len(backlog') = Len(backlog) + 1 /\ backlog'[Len(backlog) + 1] = c
        /\ \A i \in 1..Len(backlog) : backlog'[i] = backlog[i]
    BY <1>1, <2>1 DEF LinkTypes
  <2>3. /\ \A i \in 1..Len(clients) : clients[i] # c
        /\ \A i \in 1..Len(backlog) : backlog[i] # c
    BY <1>1, <2>1 DEF SeatInv
  <2>4. \A i \in 1..(Len(backlog) + 1) : i = Len(backlog) + 1 \/ i \in 1..Len(backlog)
    BY <1>1
  <2>5. \A d \in Client : link[d] # "off" \/ d = c => link'[d] # "off"
    BY <1>1, <2>1 DEF LinkTypes
  <2>6. SeatInv'
    <3>1. clients' = clients
      BY <1>3
    <3>2. \A i, j \in 1..Len(backlog') : backlog'[i] = backlog'[j] => i = j
      BY <1>1, <2>2, <2>3, <2>4 DEF SeatInv
    <3>3. \A i \in 1..Len(clients), j \in 1..Len(backlog') : clients[i] # backlog'[j]
      BY <1>1, <2>2, <2>3, <2>4 DEF SeatInv
    <3>4. \A i \in 1..Len(backlog') : link'[backlog'[i]] # "off"
      BY <1>1, <1>2, <2>2, <2>4, <2>5 DEF SeatInv
    <3>5. \A i \in 1..Len(clients) : link'[clients[i]] # "off"
      BY <1>1, <1>2, <2>5 DEF SeatInv
    <3> QED  BY <1>1, <3>1, <3>2, <3>3, <3>4, <3>5 DEF SeatInv
  <2> QED  BY <1>4, <1>6, <2>1, <2>6 DEF SeatsInv
<1>8. ASSUME Disconnect(c) PROVE SeatsInv'
  <2>1. /\ link' = [link EXCEPT ![c] = "closed"] /\ down' = [down EXCEPT ![c] = <<>>]
        /\ half' = [half EXCEPT ![c] = <<>>] /\ UNCHANGED <<clients, backlog, up>>
    BY <1>8 DEF Disconnect
  <2>2. \A d \in Client : link[d] # "off" => link'[d] # "off"
    BY <1>1, <2>1 DEF LinkTypes
  <2>3. SeatInv'
    BY <1>1, <1>2, <2>1, <2>2 DEF SeatInv
  <2>4. RoomInv'
    BY <1>1, <2>1 DEF RoomInv, LinkTypes, UserTypes
  <2> QED  BY <1>4, <2>3, <2>4 DEF SeatsInv
<1>9. CASE Receive(c)
  <2>1. down' = [down EXCEPT ![c] = <<>>] /\ UNCHANGED <<up, half, clients, backlog, link>>
    BY <1>9 DEF Receive, userVars
  <2>2. RoomInv'
    BY <1>1, <2>1 DEF RoomInv, LinkTypes
  <2> QED  BY <1>4, <1>5, <2>1, <2>2 DEF SeatsInv
<1>10. CASE ReceiveTorn(c) /\ ~ Disconnect(c)
  <2>1. PICK n \in 0..(Len(down[c]) - 1) : down' = [down EXCEPT ![c] = SubSeq(@, n + 2, Len(@))]
    BY <1>10 DEF ReceiveTorn
  <2>2. UNCHANGED <<up, half, clients, backlog, link>>
    BY <1>10 DEF ReceiveTorn, userVars
  <2>3. Len(SubSeq(down[c], n + 2, Len(down[c]))) <= Len(down[c])
    BY <1>1 DEF LinkTypes
  <2>4. RoomInv'
    BY <1>1, <2>1, <2>2, <2>3 DEF RoomInv, LinkTypes
  <2> QED  BY <1>4, <1>5, <2>2, <2>4 DEF SeatsInv
<1>11. ASSUME TRUE \in WriteUp(c) PROVE Len(up[c]) + 1 <= Room
  <2>1. Len(up[c]) # Room
    BY <1>11 DEF WriteUp
  <2> QED  BY <1>1, <2>1 DEF RoomInv
<1>12. CASE SendText(c)
  <2>1. PICK cmd : cmd = [by |-> c, no |-> typed[c] + 1]
    OBVIOUS
  <2>2. PICK ok \in WriteUp(c) :
          IF ok THEN /\ up' = [up EXCEPT ![c] = Append(@, cmd)]
                     /\ half' = [half EXCEPT ![c] = <<cmd>>]
                ELSE UNCHANGED <<up, half>>
    BY <1>12, <2>1 DEF SendText
  <2>3. UNCHANGED <<clients, backlog, link, down>>
    BY <1>12 DEF SendText
  <2>4. CASE ok
    <3>1. Len(Append(up[c], cmd)) = Len(up[c]) + 1 /\ Len(<<cmd>>) = 1
      BY <1>1 DEF LinkTypes
    <3>2. ok = TRUE
      BY <2>4 DEF WriteUp
    <3>3. Len(up[c]) + 1 <= Room
      BY <1>11, <3>2
    <3>4. RoomInv'
      <4>1. up' = [up EXCEPT ![c] = Append(@, cmd)] /\ half' = [half EXCEPT ![c] = <<cmd>>]
        BY <2>2, <2>4
      <4>2. \A d \in Client : Len(up'[d]) <= Room
        BY <1>1, <3>1, <3>3, <4>1 DEF RoomInv, LinkTypes
      <4>3. \A d \in Client : Len(half'[d]) <= 1
        BY <1>1, <3>1, <4>1 DEF RoomInv, UserTypes
      <4> QED  BY <1>1, <2>3, <4>2, <4>3 DEF RoomInv
    <3> QED  BY <1>4, <1>5, <2>3, <3>4 DEF SeatsInv
  <2> QED  BY <1>4, <1>5, <1>6, <2>2, <2>3, <2>4 DEF SeatsInv
<1>13. CASE SendNewline(c)
  <2>1. PICK ok \in WriteUp(c) :
          IF ok THEN up' = [up EXCEPT ![c] = Append(@, Newline)] ELSE UNCHANGED up
    BY <1>13 DEF SendNewline
  <2>2. half' = [half EXCEPT ![c] = <<>>] /\ UNCHANGED <<clients, backlog, link, down>>
    BY <1>13 DEF SendNewline
  <2>3. CASE ok
    <3>1. Len(Append(up[c], Newline)) = Len(up[c]) + 1
      BY <1>1 DEF LinkTypes
    <3>2. ok = TRUE
      BY <2>3 DEF WriteUp
    <3>3. Len(up[c]) + 1 <= Room
      BY <1>11, <3>2
    <3>4. RoomInv'
      BY <1>1, <2>1, <2>2, <2>3, <3>1, <3>3 DEF RoomInv, LinkTypes, UserTypes
    <3> QED  BY <1>4, <1>5, <2>2, <3>4 DEF SeatsInv
  <2>4. CASE ~ ok
    <3>1. RoomInv'
      BY <1>1, <2>1, <2>2, <2>4 DEF RoomInv, UserTypes
    <3> QED  BY <1>4, <1>5, <2>2, <3>1 DEF SeatsInv
  <2> QED  BY <2>3, <2>4
<1> QED
  BY <1>7, <1>8, <1>9, <1>10, <1>12, <1>13 DEF Tui, Close

\* Every step.
LEMMA SeatsStep ==
  ASSUME TypesInv, SeatsInv, [ServerNext]_serverVars
  PROVE  SeatsInv'
<1>1. CASE UNCHANGED serverVars
  BY <1>1, Zenon
     DEF serverVars, loopVars, userVars, SeatsInv, SeatInv, LoopInv, RoomInv
<1> QED  BY <1>1, SeatsDaemon, SeatsTui DEF ServerNext

\* The connections, at every step.
LEMMA SeatsAlways == ServerSpec => []SeatsInv
<1>1. ServerInit => SeatsInv
  <2>1. ASSUME ServerInit PROVE SeatsInv
    <3>1. Len(clients) = 0 /\ Len(backlog) = 0 /\ pc = "accept" /\ at = 1
      BY <2>1 DEF ServerInit
    <3>2. SeatInv /\ LoopInv
      BY <3>1 DEF SeatInv, LoopInv
    <3>3. RoomInv
      BY <2>1, RoomAssumption DEF ServerInit, RoomInv
    <3> QED  BY <3>2, <3>3 DEF SeatsInv
  <2> QED  BY <2>1
<1>2. TypesInv /\ SeatsInv /\ [ServerNext]_serverVars => SeatsInv'
  BY SeatsStep
<1> QED  BY <1>1, <1>2, TypesAlways, PTL DEF ServerSpec

\* The sockets never hold more than they can, the loops of the daemon never leave the
\* list of its clients, no connection is served twice, and the cursor never passes what
\* the VM's runtime has collected, for any clients and any room.
THEOREM ServerTypeCorrect == ServerSpec => []ServerTypeOK
<1>1. ASSUME TypesInv, SeatsInv PROVE ServerTypeOK
  <2>1. /\ LinkTypes /\ LoopTypes /\ UserTypes /\ InTypes /\ VmTypes /\ SeatInv /\ LoopInv
        /\ RoomInv /\ RuntimeInv
    BY <1>1 DEF TypesInv, Types, SeatsInv
  <2>2. at \in 1..(Len(clients) + 1)
    BY <2>1 DEF LoopTypes, LoopInv, LinkTypes
  <2>3. \A c \in Client :
          /\ link[c] \in {"off", "on", "closed"}
          /\ \A i \in DOMAIN rx_buf[c] : rx_buf[c][i] \in Command
          /\ \A i \in DOMAIN up[c] : up[c][i] \in Command \cup {Newline}
          /\ \A i \in DOMAIN down[c] : down[c][i] \in Piece
          /\ Len(up[c]) <= Room /\ Len(down[c]) <= Room /\ Len(half[c]) <= 1
    BY <2>1 DEF LinkTypes, InTypes, RoomInv
  <2>4. IsInjective(clients)
    <3>1. DOMAIN clients = 1..Len(clients)
      BY <2>1 DEF LinkTypes
    <3> QED  BY <2>1, <3>1 DEF IsInjective, SeatInv
  <2>5. ToSet(clients) \cap ToSet(backlog) = {}
    <3>1. DOMAIN clients = 1..Len(clients) /\ DOMAIN backlog = 1..Len(backlog)
      BY <2>1 DEF LinkTypes
    <3> QED  BY <2>1, <3>1 DEF ToSet, SeatInv
  <2>6. pushed # <<>> => cursor \in 0..Last(pushed)
    BY <2>1 DEF RuntimeInv, VmTypes
  <2> QED  BY <2>1, <2>2, <2>3, <2>4, <2>5, <2>6 DEF ServerTypeOK, LoopTypes
<1> QED  BY <1>1, TypesAlways, SeatsAlways, PTL

-----------------------------------------------------------------------------
(* What becomes of a command that was written.                             *)

\* The elements of a sequence with one more.
LEMMA ToSetAppend ==
  ASSUME NEW X, NEW s \in Seq(X), NEW x \in X
  PROVE  ToSet(Append(s, x)) = ToSet(s) \cup {x}
<1>1. PICK n \in Nat : n = Len(s)
  OBVIOUS
<1>2. PICK t : t = Append(s, x)
  OBVIOUS
<1>3. /\ DOMAIN t = 1..(n + 1) /\ t[n + 1] = x /\ DOMAIN s = 1..n
      /\ \A i \in 1..n : t[i] = s[i]
  BY <1>1, <1>2
<1>4. \A i \in 1..(n + 1) : i = n + 1 \/ i \in 1..n
  OBVIOUS
<1>5. n + 1 \in 1..(n + 1) /\ \A i \in 1..n : i \in 1..(n + 1)
  OBVIOUS
<1>6. ToSet(t) = ToSet(s) \cup {x}
  BY <1>3, <1>4, <1>5 DEF ToSet
<1> QED  BY <1>2, <1>6

\* The empty sequence has no elements.
LEMMA ToSetEmpty == ToSet(<<>>) = {}
BY DEF ToSet

\* The texts of lines that have ended, and of the one that has not.
Ended(r) == UNION ToSet(r.events)
Held(r) == Ended(r) \cup ToSet(r.buf)

\* A piece is held, and nothing is lost by it.
LEMMA ReadPieceHolds ==
  ASSUME NEW r \in ReadStates, NEW piece \in Command \cup {Newline}
  PROVE  /\ Ended(r) \subseteq Ended(ReadPiece(r, piece))
         /\ Held(r) \cup {piece} \subseteq Held(ReadPiece(r, piece)) \cup {Newline}
<1>1. r.buf \in Seq(Command) /\ r.events \in Seq(SUBSET Command) /\ r.commands \in Seq(Command)
  BY DEF ReadStates
<1>2. PICK q : q = ReadPiece(r, piece)
  OBVIOUS
<1>3. CASE piece # Newline
  <2>1. q.buf = Append(r.buf, piece) /\ q.events = r.events
    BY <1>2, <1>3 DEF ReadPiece, ReadStates
  <2>2. ToSet(Append(r.buf, piece)) = ToSet(r.buf) \cup {piece}
    BY <1>1, <1>3, ToSetAppend
  <2> QED  BY <1>2, <2>1, <2>2 DEF Ended, Held
<1>4. CASE piece = Newline /\ r.buf = <<>>
  BY <1>4 DEF ReadPiece
<1>5. CASE piece = Newline /\ r.buf # <<>>
  <2>1. PICK line \in SUBSET Command : line = ToSet(r.buf)
    <3>1. ToSet(r.buf) \subseteq Command
      BY <1>1 DEF ToSet
    <3> QED  BY <3>1
  <2>2. q.buf = <<>> /\ q.events = Append(r.events, line)
    <3>1. CASE Len(r.buf) = 1
      <4>1. q = [buf |-> <<>>, events |-> Append(r.events, {r.buf[1]}),
                 commands |-> Append(r.commands, r.buf[1])]
        BY <1>2, <1>5, <3>1 DEF ReadPiece
      <4>2. ToSet(r.buf) = {r.buf[1]}
        BY <1>1, <3>1 DEF ToSet
      <4> QED  BY <2>1, <4>1, <4>2
    <3>2. CASE Len(r.buf) # 1
      BY <1>2, <1>5, <2>1, <3>2 DEF ReadPiece, ReadStates
    <3> QED  BY <3>1, <3>2
  <2>3. ToSet(Append(r.events, line)) = ToSet(r.events) \cup {line}
    BY <1>1, ToSetAppend
  <2> QED  BY <1>2, <1>5, <2>1, <2>2, <2>3, ToSetEmpty DEF Ended, Held
<1> QED  BY <1>3, <1>4, <1>5

\* Nor by all the pieces that are read.
LEMMA ReadingHolds ==
  ASSUME InTypes, LinkTypes, NEW c \in Client, NEW n \in 0..Len(up[c])
  PROVE  /\ UNION ToSet(pending) \subseteq UNION ToSet(Reading(c, n).events)
         /\ ToSet(rx_buf[c]) \cup {up[c][k] : k \in 1..n}
              \subseteq (UNION ToSet(Reading(c, n).events)) \cup ToSet(Reading(c, n).buf) \cup {Newline}
<1>1. /\ Reading(c, 0) = ReadBegin(c)
      /\ \A i \in 0..Len(up[c]) : Reading(c, i) \in ReadStates
      /\ \A i \in 1..Len(up[c]) : Reading(c, i) = ReadPiece(Reading(c, i - 1), up[c][i])
  BY ReadingRuns DEF InTypes, LinkTypes
<1>2. Len(up[c]) \in Nat /\ \A i \in 1..Len(up[c]) : up[c][i] \in Command \cup {Newline}
  BY DEF LinkTypes
<1> DEFINE P(i) == /\ Ended(ReadBegin(c)) \subseteq Ended(Reading(c, i))
                   /\ Held(ReadBegin(c)) \cup {up[c][k] : k \in 1..i}
                        \subseteq Held(Reading(c, i)) \cup {Newline}
<1> DEFINE S == {i \in 0..Len(up[c]) : P(i)}
<1>3. 0 \in S
  BY <1>1, <1>2
<1>4. ASSUME NEW i \in 0..(Len(up[c]) - 1), i \in S PROVE i + 1 \in S
  <2>1. i + 1 \in 1..Len(up[c]) /\ (i + 1) - 1 = i /\ i \in 0..Len(up[c])
        /\ i + 1 \in 0..Len(up[c])
    BY <1>2
  <2>2. /\ Reading(c, i) \in ReadStates /\ up[c][i + 1] \in Command \cup {Newline}
        /\ Reading(c, i + 1) = ReadPiece(Reading(c, i), up[c][i + 1])
    BY <1>1, <1>2, <2>1
  <2>3. PICK r \in ReadStates, piece \in Command \cup {Newline} :
          r = Reading(c, i) /\ piece = up[c][i + 1]
    BY <2>2
  <2>4. PICK q : q = ReadPiece(r, piece)
    OBVIOUS
  <2>5. Ended(r) \subseteq Ended(q) /\ Held(r) \cup {piece} \subseteq Held(q) \cup {Newline}
    BY <2>4, ReadPieceHolds
  <2>6. {up[c][k] : k \in 1..(i + 1)} = {up[c][k] : k \in 1..i} \cup {piece}
    <3>1. \A k \in 1..(i + 1) : k = i + 1 \/ k \in 1..i
      OBVIOUS
    <3>2. i + 1 \in 1..(i + 1) /\ \A k \in 1..i : k \in 1..(i + 1)
      OBVIOUS
    <3> QED  BY <2>3, <3>1, <3>2
  <2>7. Reading(c, i + 1) = q /\ P(i)
    BY <1>4, <2>2, <2>3, <2>4
  <2>8. P(i + 1)
    BY <2>3, <2>5, <2>6, <2>7
  <2> QED  BY <2>1, <2>8
<1>5. n \in S
  <2>1. \A k \in 0..Len(up[c]) : k \in S
    <3> HIDE DEF S
    <3> QED  BY <1>2, <1>3, <1>4, BoundedInduction
  <2> QED  BY <2>1
<1> QED  BY <1>5 DEF ReadBegin, Ended, Held

\* A client that the daemon still serves, or will.
Served(c) == (\E i \in 1..Len(clients) : clients[i] = c) \/ (\E i \in 1..Len(backlog) : backlog[i] = c)

\* Every command it was sent without an error is somewhere.
Traced(c) == sent[c] \cup ToSet(half[c])
               \subseteq Accounted \cup (UNION ToSet(pending)) \cup ToSet(rx_buf[c]) \cup ToSet(up[c])

AccountInv ==
    /\ \A c \in Client : Served(c) => Traced(c)
    /\ \A c \in Client : link[c] = "off" => sent[c] = {} /\ half[c] = <<>>
    /\ pc \in {"write", "accept"} => pending = <<>>

\* A client that is removed is no longer served, and nobody else comes in.
LEMMA RemovedNotServed ==
  ASSUME LinkTypes, LoopTypes, SeatInv, at <= Len(clients), UNCHANGED backlog,
         clients' = RemoveAt(clients, at)
  PROVE  \A d \in Client : Served(d)' => Served(d) /\ d # clients[at]
<1>1. at \in 1..Len(clients) /\ Len(clients) \in Nat
  BY DEF LoopTypes, LinkTypes
<1>2. /\ Len(clients') = Len(clients) - 1
      /\ \A j \in 1..(Len(clients) - 1) :
            clients'[j] = IF j < at THEN clients[j] ELSE clients[j + 1]
  BY <1>1, RemoveAtFacts DEF LinkTypes
<1>3. ASSUME NEW j \in 1..Len(clients')
      PROVE  \E k \in 1..Len(clients) : clients'[j] = clients[k] /\ k # at
  <2>1. j \in 1..(Len(clients) - 1) /\ j \in 1..Len(clients) /\ j + 1 \in 1..Len(clients)
        /\ j \in Int /\ at \in Int
    BY <1>1, <1>2
  <2>2. CASE j < at
    BY <1>2, <2>1, <2>2
  <2>3. CASE ~ j < at
    <3>1. j + 1 # at
      BY <2>1, <2>3
    <3> QED  BY <1>2, <2>1, <2>3, <3>1
  <2> QED  BY <2>2, <2>3
<1>4. ASSUME NEW d \in Client, NEW j \in 1..Len(clients'), clients'[j] = d
      PROVE  Served(d) /\ d # clients[at]
  <2>1. PICK k \in 1..Len(clients) : clients[k] = d /\ k # at
    BY <1>3, <1>4
  <2> QED  BY <1>1, <2>1 DEF Served, SeatInv
<1>5. ASSUME NEW d \in Client, NEW j \in 1..Len(backlog), backlog[j] = d
      PROVE  Served(d) /\ d # clients[at]
  BY <1>1, <1>5 DEF Served, SeatInv
<1> QED  BY <1>4, <1>5 DEF Served

\* What is accounted for changes with a tick only, which accounts for what is pending.
LEMMA AccountedMore ==
  ASSUME VmTypes
  PROVE  /\ UNCHANGED snaps => Accounted' = Accounted
         /\ InTypes /\ RuntimeInv /\ Tick => Accounted \cup (UNION ToSet(pending)) \subseteq Accounted'
<1>1. ASSUME UNCHANGED snaps PROVE Accounted' = Accounted
  BY <1>1 DEF Accounted, tick
<1>2. ASSUME InTypes, RuntimeInv, Tick
      PROVE  Accounted \cup (UNION ToSet(pending)) \subseteq Accounted'
  <2>1. PICK e \in Snap : e.lines = pending /\ snaps' = Append(snaps, e)
    <3>1. PICK vm \in Seq(Nat \X Nat) :
            snaps' = Append(snaps, [vm |-> vm, lines |-> pending, answers |-> commands])
      BY <1>2, TickFacts
    <3>2. [vm |-> vm, lines |-> pending, answers |-> commands] \in Snap
      BY <1>2 DEF InTypes, Snap
    <3> QED  BY <3>1, <3>2
  <2>2. PICK n \in Nat : n = Len(snaps)
    BY DEF VmTypes
  <2>3. Len(snaps') = n + 1 /\ snaps'[n + 1] = e /\ \A t \in 1..n : snaps'[t] = snaps[t]
    BY <2>1, <2>2 DEF VmTypes
  <2>4. n + 1 \in 1..(n + 1) /\ \A t \in 1..n : t \in 1..(n + 1)
    OBVIOUS
  <2>5. ToSet(pending) \in {ToSet(snaps'[t].lines) : t \in 1..Len(snaps')}
    BY <2>1, <2>3, <2>4
  <2>6. \A t \in 1..n : ToSet(snaps[t].lines) \in {ToSet(snaps'[u].lines) : u \in 1..Len(snaps')}
    BY <2>3, <2>4
  <2> QED  BY <2>2, <2>5, <2>6 DEF Accounted, tick
<1> QED  BY <1>1, <1>2

\* Reading a socket to its end loses nothing of its client, nor, however far it is read,
\* of another.
LEMMA TracedByReading ==
  ASSUME InTypes, LinkTypes, NEW c \in Client, NEW n \in 0..Len(up[c]), ReadFrom(c, n),
         UNCHANGED <<snaps, sent, half>>, VmTypes, up' = [up EXCEPT ![c] = <<>>]
  PROVE  /\ n = Len(up[c]) /\ Traced(c) /\ Newline \notin sent[c] \cup ToSet(half[c]) => Traced(c)'
         /\ \A d \in Client \ {c} : Traced(d) => Traced(d)'
<1>1. /\ UNION ToSet(pending) \subseteq UNION ToSet(Reading(c, n).events)
      /\ ToSet(rx_buf[c]) \cup {up[c][k] : k \in 1..n}
           \subseteq (UNION ToSet(Reading(c, n).events)) \cup ToSet(Reading(c, n).buf) \cup {Newline}
  BY ReadingHolds
<1>2. /\ rx_buf'[c] = Reading(c, n).buf /\ pending' = Reading(c, n).events
      /\ \A d \in Client \ {c} : rx_buf'[d] = rx_buf[d] /\ up'[d] = up[d]
  BY DEF ReadFrom, Keep, InTypes, LinkTypes
<1>3. Accounted' = Accounted
  BY AccountedMore
<1>4. n = Len(up[c]) => ToSet(up[c]) = {up[c][k] : k \in 1..n}
  <2>1. DOMAIN up[c] = 1..Len(up[c])
    BY DEF LinkTypes
  <2> QED  BY <2>1 DEF ToSet
<1>5. ASSUME n = Len(up[c]), Traced(c), Newline \notin sent[c] \cup ToSet(half[c])
      PROVE  Traced(c)'
  <2>1. sent[c] \cup ToSet(half[c])
          \subseteq Accounted \cup (UNION ToSet(pending')) \cup ToSet(rx_buf'[c])
    BY <1>1, <1>2, <1>4, <1>5 DEF Traced
  <2> QED  BY <1>3, <2>1 DEF Traced
<1>6. ASSUME NEW d \in Client \ {c}, Traced(d) PROVE Traced(d)'
  BY <1>1, <1>2, <1>3, <1>6 DEF Traced
<1> QED  BY <1>5, <1>6

\* The steps of the daemon.
LEMMA AccountDaemon ==
  ASSUME TypesInv, SeatsInv, AccountInv, Daemon
  PROVE  AccountInv'
<1>1. /\ LinkTypes /\ LoopTypes /\ UserTypes /\ InTypes /\ VmTypes /\ RuntimeInv /\ SeatInv
      /\ Len(clients) \in Nat
  BY DEF TypesInv, Types, LinkTypes, SeatsInv
<1>2. UNCHANGED <<link, userVars>>
  BY DEF Daemon, Accept, Drain, DrainTorn, Drained, Tick, Write, Written
<1>3. sent' = sent /\ half' = half /\ link' = link
  BY <1>2 DEF userVars
<1>4. \A c \in Client : link'[c] = "off" => sent'[c] = {} /\ half'[c] = <<>>
  BY <1>3 DEF AccountInv
<1>5. \A c \in Client : Newline \notin sent[c] \cup ToSet(half[c])
  <2>1. ASSUME NEW c \in Client PROVE ToSet(half[c]) \subseteq Command
    BY <1>1 DEF UserTypes, ToSet
  <2> QED  BY <1>1, <2>1, NewlineAssumption DEF UserTypes
<1>6. ASSUME UNCHANGED <<inVars, vmVars, up>>
      PROVE  \A c \in Client : Traced(c) => Traced(c)'
  BY <1>1, <1>3, <1>6, AccountedMore DEF Traced, inVars, vmVars
<1>7. ASSUME UNCHANGED <<clients, backlog>> PROVE \A c \in Client : Served(c)' = Served(c)
  BY <1>7 DEF Served
<1>8. CASE Accept
  <2>1. clients' = clients \o backlog /\ backlog' = <<>> /\ pc = "accept" /\ pc' = "drain"
        /\ UNCHANGED <<inVars, vmVars, up>>
    BY <1>8 DEF Accept
  <2>2. /\ Len(clients') = Len(clients) + Len(backlog)
        /\ \A i \in 1..(Len(clients) + Len(backlog)) :
              clients'[i] = IF i <= Len(clients) THEN clients[i] ELSE backlog[i - Len(clients)]
    BY <1>1, <2>1, ConcatProperties DEF LinkTypes
  <2>3. ASSUME NEW i \in 1..Len(clients') PROVE Served(clients'[i])
    <3>1. i \in 1..(Len(clients) + Len(backlog)) /\ Len(backlog) \in Nat /\ i \in Int
      BY <1>1, <2>2 DEF LinkTypes
    <3>2. CASE i <= Len(clients)
      <4>1. i \in 1..Len(clients)
        BY <1>1, <3>1, <3>2
      <4> QED  BY <2>2, <3>1, <3>2, <4>1 DEF Served
    <3>3. CASE ~ i <= Len(clients)
      <4>1. i - Len(clients) \in 1..Len(backlog)
        BY <1>1, <3>1, <3>3
      <4> QED  BY <2>2, <3>1, <3>3, <4>1 DEF Served
    <3> QED  BY <3>2, <3>3
  <2>4. \A c \in Client : Served(c)' => Served(c)
    BY <2>1, <2>3 DEF Served
  <2> QED  BY <1>4, <1>6, <2>1, <2>4 DEF AccountInv
<1>9. CASE Drain
  <2>1. at <= Len(clients) /\ at \in 1..Len(clients) /\ pc = "drain"
    BY <1>1, <1>9 DEF Drain, LoopTypes
  <2>2. PICK c \in Client : c = clients[at]
    BY <1>1, <2>1, ClientAt
  <2>3. /\ ReadFrom(c, Len(up[c])) /\ up' = [up EXCEPT ![c] = <<>>]
        /\ clients' = RemoveAt(clients, at) \/ clients' = clients
        /\ UNCHANGED <<pc, vmVars, backlog>>
    BY <1>9, <2>2 DEF Drain
  <2>4. \A d \in Client : Served(d)' => Served(d)
    BY <1>1, <1>7, <2>1, <2>3, RemovedNotServed
  <2>5. Len(up[c]) \in 0..Len(up[c]) /\ UNCHANGED <<snaps, sent, half>>
    BY <1>1, <1>3, <2>3 DEF LinkTypes, vmVars
  <2>6. \A d \in Client : Traced(d) => Traced(d)'
    BY <1>1, <1>5, <2>3, <2>5, TracedByReading
  <2> QED  BY <1>4, <2>1, <2>3, <2>4, <2>6 DEF AccountInv
<1>10. CASE DrainTorn
  <2>1. at <= Len(clients) /\ at \in 1..Len(clients) /\ pc = "drain"
    BY <1>1, <1>10 DEF DrainTorn, LoopTypes
  <2>2. PICK c \in Client : c = clients[at]
    BY <1>1, <2>1, ClientAt
  <2>3. PICK n \in 0..(Len(up[c]) - 1) :
          ReadFrom(c, n) /\ up' = [up EXCEPT ![c] = <<>>] /\ clients' = RemoveAt(clients, at)
    BY <1>10, <2>2 DEF DrainTorn
  <2>4. UNCHANGED <<pc, vmVars, backlog>>
    BY <1>10 DEF DrainTorn, loopVars
  <2>5. \A d \in Client : Served(d)' => Served(d) /\ d # c
    BY <1>1, <2>1, <2>2, <2>3, <2>4, RemovedNotServed
  <2>6. n \in 0..Len(up[c]) /\ UNCHANGED <<snaps, sent, half>>
    BY <1>1, <1>3, <2>4 DEF LinkTypes, vmVars
  <2>7. \A d \in Client \ {c} : Traced(d) => Traced(d)'
    BY <1>1, <2>3, <2>6, TracedByReading
  <2> QED  BY <1>4, <2>1, <2>4, <2>5, <2>7 DEF AccountInv
<1>11. CASE Drained
  BY <1>4, <1>6, <1>7, <1>11 DEF Drained, AccountInv
<1>12. CASE Tick
  <2>1. /\ pending' = <<>> /\ UNCHANGED <<clients, backlog, rx_buf, up>>
    BY <1>12 DEF Tick
  <2>2. Accounted \cup (UNION ToSet(pending)) \subseteq Accounted'
    BY <1>1, <1>12, AccountedMore
  <2>3. \A c \in Client : Traced(c) => Traced(c)'
    BY <1>3, <2>1, <2>2 DEF Traced
  <2> QED  BY <1>4, <1>7, <2>1, <2>3 DEF AccountInv
<1>13. CASE Write
  <2>1. at <= Len(clients) /\ at \in 1..Len(clients) /\ pc = "write"
    BY <1>1, <1>13 DEF Write, LoopTypes
  <2>2. PICK c \in Client : c = clients[at]
    BY <1>1, <2>1, ClientAt
  <2>3. /\ \/ clients' = RemoveAt(clients, at) /\ up' = [up EXCEPT ![c] = <<>>]
           \/ UNCHANGED <<clients, up>>
        /\ UNCHANGED <<pc, inVars, vmVars, backlog>>
    BY <1>13, <2>2 DEF Write
  <2>4. CASE clients' = RemoveAt(clients, at) /\ up' = [up EXCEPT ![c] = <<>>]
    <3>1. \A d \in Client : Served(d)' => Served(d) /\ d # c
      BY <1>1, <2>1, <2>2, <2>3, <2>4, RemovedNotServed
    <3>2. \A d \in Client \ {c} : up'[d] = up[d]
      BY <1>1, <2>4 DEF LinkTypes
    <3>3. \A d \in Client \ {c} : Traced(d) => Traced(d)'
      BY <1>1, <1>3, <2>3, <3>2, AccountedMore DEF Traced, inVars, vmVars
    <3> QED  BY <1>4, <2>1, <2>3, <3>1, <3>3 DEF AccountInv, inVars
  <2>5. CASE UNCHANGED <<clients, up>>
    BY <1>4, <1>6, <1>7, <2>1, <2>3, <2>5 DEF AccountInv, inVars
  <2> QED  BY <2>3, <2>4, <2>5
<1>14. CASE Written
  BY <1>4, <1>6, <1>7, <1>14 DEF Written, AccountInv, inVars
<1> QED  BY <1>8, <1>9, <1>10, <1>11, <1>12, <1>13, <1>14 DEF Daemon

\* A piece that is written to a socket.
LEMMA UpMore ==
  ASSUME LinkTypes, NEW c \in Client, NEW x \in Command \cup {Newline}
  PROVE  ToSet(Append(up[c], x)) = ToSet(up[c]) \cup {x}
<1>1. PICK u \in Seq(Command \cup {Newline}) : u = up[c]
  BY DEF LinkTypes
<1> QED  BY <1>1, ToSetAppend

\* The steps of a TUI.
LEMMA AccountTui ==
  ASSUME TypesInv, AccountInv, NEW c \in Client, Tui(c)
  PROVE  AccountInv'
<1>1. LinkTypes /\ UserTypes /\ VmTypes
  BY DEF TypesInv, Types
<1>2. UNCHANGED <<pc, inVars, vmVars, clients>>
  BY DEF Tui, Connect, Close, Disconnect, Receive, ReceiveTorn, SendText, SendNewline, loopVars
<1>3. pc' \in {"write", "accept"} => pending' = <<>>
  BY <1>2 DEF AccountInv, inVars
<1>4. Accounted' = Accounted /\ pending' = pending /\ rx_buf' = rx_buf
  BY <1>1, <1>2, AccountedMore DEF inVars, vmVars
<1>5. ASSUME UNCHANGED <<backlog, link, up, sent, half>> PROVE AccountInv'
  BY <1>2, <1>3, <1>4, <1>5 DEF AccountInv, Served, Traced
<1>6. ASSUME UNCHANGED backlog PROVE \A d \in Client : Served(d)' = Served(d)
  BY <1>2, <1>6 DEF Served
<1>7. CASE Connect(c)
  <2>1. link[c] = "off" /\ link' = [link EXCEPT ![c] = "on"] /\ UNCHANGED <<up, sent, half>>
        /\ backlog' = Append(backlog, c)
    BY <1>7 DEF Connect, userVars
  <2>2. sent[c] = {} /\ half[c] = <<>>
    BY <2>1 DEF AccountInv
  <2>3. \A d \in Client : Served(d)' => Served(d) \/ d = c
    BY <1>1, <1>2, <2>1 DEF Served, LinkTypes
  <2>4. \A d \in Client : Traced(d) => Traced(d)'
    BY <1>4, <2>1 DEF Traced
  <2>5. Traced(c)
    BY <2>2, ToSetEmpty DEF Traced
  <2>6. \A d \in Client : link'[d] = "off" => link[d] = "off"
    BY <1>1, <2>1 DEF LinkTypes
  <2> QED  BY <1>3, <2>1, <2>3, <2>4, <2>5, <2>6 DEF AccountInv
<1>8. ASSUME Disconnect(c) PROVE AccountInv'
  <2>1. link' = [link EXCEPT ![c] = "closed"] /\ half' = [half EXCEPT ![c] = <<>>]
        /\ UNCHANGED <<up, sent, backlog>>
    BY <1>8 DEF Disconnect
  <2>2. \A d \in Client : ToSet(half'[d]) \subseteq ToSet(half[d])
    BY <1>1, <2>1, ToSetEmpty DEF UserTypes
  <2>3. \A d \in Client : Traced(d) => Traced(d)'
    BY <1>4, <2>1, <2>2 DEF Traced
  <2>4. \A d \in Client : link'[d] = "off" => link[d] = "off" /\ half'[d] = half[d]
    BY <1>1, <2>1 DEF LinkTypes, UserTypes
  <2> QED  BY <1>3, <1>6, <2>1, <2>3, <2>4 DEF AccountInv
<1>9. CASE Receive(c)
  BY <1>5, <1>9 DEF Receive, userVars
<1>10. CASE ReceiveTorn(c) /\ ~ Disconnect(c)
  BY <1>5, <1>10 DEF ReceiveTorn, userVars
<1>11. CASE SendText(c)
  <2>1. PICK cmd \in Command : cmd = [by |-> c, no |-> typed[c] + 1]
    BY <1>1, CommandType DEF UserTypes
  <2>2. /\ \/ up' = [up EXCEPT ![c] = Append(@, cmd)] /\ half' = [half EXCEPT ![c] = <<cmd>>]
           \/ UNCHANGED <<up, half>>
        /\ UNCHANGED <<backlog, link, sent>> /\ link[c] = "on"
    BY <1>11, <2>1 DEF SendText, Connected
  <2>3. CASE up' = [up EXCEPT ![c] = Append(@, cmd)] /\ half' = [half EXCEPT ![c] = <<cmd>>]
    <3>1. ToSet(Append(up[c], cmd)) = ToSet(up[c]) \cup {cmd}
      BY <1>1, <2>1, UpMore
    <3>2. ToSet(<<cmd>>) = {cmd}
      BY DEF ToSet
    <3>3. /\ up'[c] = Append(up[c], cmd) /\ half'[c] = <<cmd>>
          /\ \A d \in Client \ {c} : up'[d] = up[d] /\ half'[d] = half[d]
      BY <1>1, <2>3 DEF LinkTypes, UserTypes
    <3>4. Traced(c) => Traced(c)'
      BY <1>4, <2>2, <3>1, <3>2, <3>3 DEF Traced
    <3>5. \A d \in Client \ {c} : Traced(d) => Traced(d)'
      BY <1>4, <2>2, <3>3 DEF Traced
    <3>6. \A d \in Client : link'[d] = "off" => sent'[d] = {} /\ half'[d] = <<>>
      BY <2>2, <3>3 DEF AccountInv
    <3> QED  BY <1>3, <1>6, <2>2, <3>4, <3>5, <3>6 DEF AccountInv
  <2> QED  BY <1>5, <2>2, <2>3
<1>12. CASE SendNewline(c)
  <2>1. /\ half[c] # <<>> /\ half' = [half EXCEPT ![c] = <<>>]
        /\ \/ up' = [up EXCEPT ![c] = Append(@, Newline)]
              /\ sent' = [sent EXCEPT ![c] = @ \cup {half[c][1]}]
           \/ UNCHANGED <<up, sent>>
        /\ UNCHANGED <<backlog, link>> /\ link[c] = "on"
    BY <1>12 DEF SendNewline
  <2>2. half[c][1] \in ToSet(half[c])
    BY <1>1, <2>1 DEF UserTypes, ToSet
  <2>3. ToSet(Append(up[c], Newline)) = ToSet(up[c]) \cup {Newline}
    BY <1>1, UpMore
  <2>4. /\ ToSet(up[c]) \subseteq ToSet(up'[c]) /\ half'[c] = <<>>
        /\ sent'[c] \subseteq sent[c] \cup ToSet(half[c])
        /\ \A d \in Client \ {c} : up'[d] = up[d] /\ half'[d] = half[d] /\ sent'[d] = sent[d]
    <3>1. half'[c] = <<>> /\ \A d \in Client \ {c} : half'[d] = half[d]
      BY <1>1, <2>1 DEF UserTypes
    <3>2. CASE UNCHANGED <<up, sent>>
      BY <3>1, <3>2
    <3>3. CASE /\ up' = [up EXCEPT ![c] = Append(@, Newline)]
               /\ sent' = [sent EXCEPT ![c] = @ \cup {half[c][1]}]
      <4>1. /\ up'[c] = Append(up[c], Newline) /\ sent'[c] = sent[c] \cup {half[c][1]}
            /\ \A d \in Client \ {c} : up'[d] = up[d] /\ sent'[d] = sent[d]
        BY <1>1, <3>3 DEF LinkTypes, UserTypes
      <4> QED  BY <2>2, <2>3, <3>1, <4>1
    <3> QED  BY <2>1, <3>2, <3>3
  <2>5. Traced(c) => Traced(c)'
    BY <1>4, <2>4, ToSetEmpty DEF Traced
  <2>6. \A d \in Client \ {c} : Traced(d) => Traced(d)'
    BY <1>4, <2>4 DEF Traced
  <2>7. \A d \in Client : link'[d] = "off" => sent'[d] = {} /\ half'[d] = <<>>
    BY <2>1, <2>4 DEF AccountInv
  <2> QED  BY <1>3, <1>6, <2>1, <2>5, <2>6, <2>7 DEF AccountInv
<1> QED
  BY <1>7, <1>8, <1>9, <1>10, <1>11, <1>12 DEF Tui, Close

\* Every step.
LEMMA AccountStep ==
  ASSUME TypesInv, SeatsInv, AccountInv, [ServerNext]_serverVars
  PROVE  AccountInv'
<1>1. CASE UNCHANGED serverVars
  <2>1. UNCHANGED <<pc, clients, backlog, link, up, sent, half, pending, rx_buf, snaps>>
    BY <1>1 DEF serverVars, loopVars, inVars, vmVars, userVars
  <2>2. Accounted' = Accounted
    BY <2>1, AccountedMore DEF TypesInv, Types
  <2> QED  BY <2>1, <2>2 DEF AccountInv, Served, Traced
<1> QED  BY <1>1, AccountDaemon, AccountTui DEF ServerNext

\* A command whose text and newline were both taken by the socket of a connection that
\* still stands is echoed or reported as invalid once the daemon has read the socket to
\* its end, whatever full sockets, torn reads and closed connections did to others.
THEOREM SentAlwaysAccounted == ServerSpec => []SentAccounted
<1>1. ServerInit => AccountInv
  <2>1. ASSUME ServerInit PROVE AccountInv
    <3>1. /\ Len(clients) = 0 /\ Len(backlog) = 0 /\ pending = <<>>
          /\ \A c \in Client : sent[c] = {} /\ half[c] = <<>>
      BY <2>1 DEF ServerInit
    <3> QED  BY <3>1 DEF AccountInv, Served
  <2> QED  BY <2>1
<1>2. TypesInv /\ SeatsInv /\ AccountInv /\ [ServerNext]_serverVars => AccountInv'
  BY AccountStep
<1>3. ASSUME TypesInv, AccountInv PROVE SentAccounted
  <2>1. SUFFICES ASSUME pc = "accept", NEW c \in ToSet(clients), up[c] = <<>>, rx_buf[c] = <<>>
                 PROVE  sent[c] \subseteq Accounted
    BY DEF SentAccounted
  <2>2. c \in Client /\ Served(c)
    BY <1>3 DEF TypesInv, Types, LinkTypes, ToSet, Served
  <2>3. Traced(c) /\ pending = <<>>
    BY <1>3, <2>1, <2>2 DEF AccountInv
  <2> QED  BY <2>1, <2>3, ToSetEmpty DEF Traced
<1> QED  BY <1>1, <1>2, <1>3, TypesAlways, SeatsAlways, PTL DEF ServerSpec

-----------------------------------------------------------------------------
(* The order of the commands.                                              *)

\* Among the commands of one user, those of S were typed before those of T.
Earlier(S, T) == \A x \in S, y \in T : x.by = y.by => x.no < y.no

\* So it is along a sequence, newlines aside.
Increasing(s) ==
    \A i, j \in 1..Len(s) :
        i < j /\ s[i] # Newline /\ s[j] # Newline /\ s[i].by = s[j].by => s[i].no < s[j].no

\* One more command, later than the others.
LEMMA IncreasingAppend ==
  ASSUME NEW s \in Seq(Command \cup {Newline}), Increasing(s), NEW x \in Command \cup {Newline},
         x # Newline => Earlier(ToSet(s) \ {Newline}, {x})
  PROVE  Increasing(Append(s, x))
<1>1. PICK n \in Nat : n = Len(s)
  OBVIOUS
<1>2. PICK t : t = Append(s, x)
  OBVIOUS
<1>3. /\ Len(t) = n + 1 /\ t[n + 1] = x /\ DOMAIN s = 1..n
      /\ \A i \in 1..n : t[i] = s[i]
  BY <1>1, <1>2
<1>4. ASSUME NEW i \in 1..(n + 1), NEW j \in 1..(n + 1), i < j, t[i] # Newline, t[j] # Newline,
             t[i].by = t[j].by
      PROVE  t[i].no < t[j].no
  <2>1. i \in 1..n /\ t[i] = s[i]
    BY <1>3, <1>4
  <2>2. CASE j = n + 1
    <3>1. s[i] \in ToSet(s) \ {Newline} /\ t[j] = x
      BY <1>3, <1>4, <2>1, <2>2 DEF ToSet
    <3> QED  BY <1>4, <2>1, <3>1 DEF Earlier
  <2>3. CASE j # n + 1
    <3>1. j \in 1..n /\ t[j] = s[j]
      BY <1>3, <2>3
    <3> QED  BY <1>1, <1>4, <2>1, <3>1 DEF Increasing
  <2> QED  BY <2>2, <2>3
<1>5. Increasing(t)
  BY <1>3, <1>4 DEF Increasing
<1> QED  BY <1>2, <1>5

\* Two sequences of commands, one after the other.
LEMMA IncreasingConcat ==
  ASSUME NEW s \in Seq(Command), NEW t \in Seq(Command), Increasing(s), Increasing(t),
         Earlier(ToSet(s), ToSet(t))
  PROVE  /\ s \o t \in Seq(Command) /\ Increasing(s \o t)
         /\ ToSet(s \o t) \subseteq ToSet(s) \cup ToSet(t)
<1>1. PICK m \in Nat, n \in Nat : m = Len(s) /\ n = Len(t)
  OBVIOUS
<1>2. PICK u : u = s \o t
  OBVIOUS
<1>3. /\ u \in Seq(Command) /\ Len(u) = m + n
      /\ \A i \in 1..(m + n) : u[i] = IF i <= m THEN s[i] ELSE t[i - m]
  BY <1>1, <1>2, ConcatProperties
<1>4. DOMAIN s = 1..m /\ DOMAIN t = 1..n /\ DOMAIN u = 1..(m + n)
  BY <1>1, <1>3
<1>5. \A i \in 1..(m + n) :
         \/ i \in 1..m /\ u[i] = s[i]
         \/ i - m \in 1..n /\ u[i] = t[i - m] /\ i > m
  BY <1>3
<1>6. ASSUME NEW i \in 1..(m + n), NEW j \in 1..(m + n), i < j, u[i] # Newline, u[j] # Newline,
             u[i].by = u[j].by
      PROVE  u[i].no < u[j].no
  <2>1. CASE j \in 1..m /\ u[j] = s[j]
    <3>1. i \in 1..m /\ u[i] = s[i]
      BY <1>5, <1>6, <2>1
    <3> QED  BY <1>1, <1>6, <2>1, <3>1 DEF Increasing
  <2>2. CASE j - m \in 1..n /\ u[j] = t[j - m] /\ i \in 1..m /\ u[i] = s[i]
    <3>1. u[i] \in ToSet(s) /\ u[j] \in ToSet(t)
      BY <1>4, <2>2 DEF ToSet
    <3> QED  BY <1>6, <3>1 DEF Earlier
  <2>3. CASE j - m \in 1..n /\ u[j] = t[j - m] /\ i - m \in 1..n /\ u[i] = t[i - m]
    <3>1. i - m < j - m
      BY <1>6
    <3> QED  BY <1>1, <1>6, <2>3, <3>1 DEF Increasing
  <2> QED  BY <1>5, <2>1, <2>2, <2>3
<1>7. Increasing(u)
  BY <1>3, <1>6 DEF Increasing
<1>8. ToSet(u) \subseteq ToSet(s) \cup ToSet(t)
  BY <1>4, <1>5 DEF ToSet
<1> QED  BY <1>2, <1>3, <1>7, <1>8

\* Reading the socket of c, which holds the commands U still: the commands A answered, those
\* to be handled, those of the current line and those unread follow each other, and a
\* command to be handled is a line of its own.
InOrder(A, r, U, c) ==
    /\ Increasing(r.commands) /\ Increasing(r.buf)
    /\ Earlier(A, ToSet(r.commands))
    /\ Earlier(A \cup ToSet(r.commands), ToSet(r.buf) \cup U)
    /\ Earlier(ToSet(r.buf), U)
    /\ \A x \in ToSet(r.buf) \cup U : x.by = c
    /\ \A x \in ToSet(r.commands) : {x} \in ToSet(r.events)

\* A piece keeps that order, and brings in no command but itself.
LEMMA ReadPieceOrder ==
  ASSUME NEW r \in ReadStates, NEW piece \in Command \cup {Newline}, NEW c \in Client,
         NEW A \in SUBSET Command, NEW U \in SUBSET Command,
         InOrder(A, r, ({piece} \ {Newline}) \cup U, c), Earlier({piece} \ {Newline}, U)
  PROVE  /\ InOrder(A, ReadPiece(r, piece), U, c)
         /\ ToSet(ReadPiece(r, piece).commands) \cup ToSet(ReadPiece(r, piece).buf)
              \subseteq ToSet(r.commands) \cup ToSet(r.buf) \cup ({piece} \ {Newline})
<1>1. r.buf \in Seq(Command) /\ r.events \in Seq(SUBSET Command) /\ r.commands \in Seq(Command)
  BY DEF ReadStates
<1>2. PICK q : q = ReadPiece(r, piece)
  OBVIOUS
<1>3. /\ ToSet(r.buf) \subseteq Command /\ ToSet(r.commands) \subseteq Command
      /\ r.buf \in Seq(Command \cup {Newline}) /\ r.commands \in Seq(Command \cup {Newline})
  BY <1>1 DEF ToSet
<1>4. CASE piece # Newline
  <2>1. q.buf = Append(r.buf, piece) /\ q.events = r.events /\ q.commands = r.commands
    BY <1>2, <1>4 DEF ReadPiece, ReadStates
  <2>2. ToSet(Append(r.buf, piece)) = ToSet(r.buf) \cup {piece}
    BY <1>1, <1>4, ToSetAppend
  <2>3. Earlier(ToSet(r.buf) \ {Newline}, {piece}) /\ Increasing(r.buf)
    BY <1>4 DEF InOrder, Earlier
  <2>4. Increasing(Append(r.buf, piece))
    BY <1>3, <2>3, IncreasingAppend
  <2>5. InOrder(A, q, U, c)
    BY <1>4, <2>1, <2>2, <2>4 DEF InOrder, Earlier
  <2> QED  BY <1>2, <1>4, <2>1, <2>2, <2>5
<1>5. CASE piece = Newline /\ r.buf = <<>>
  <2>1. q = r
    BY <1>2, <1>5 DEF ReadPiece
  <2> QED  BY <1>2, <1>5, <2>1 DEF InOrder
<1>6. CASE piece = Newline /\ r.buf # <<>> /\ Len(r.buf) = 1
  <2>1. PICK x \in Command : x = r.buf[1] /\ ToSet(r.buf) = {x}
    BY <1>1, <1>6 DEF ToSet
  <2>2. q = [buf |-> <<>>, events |-> Append(r.events, {x}), commands |-> Append(r.commands, x)]
    BY <1>2, <1>6, <2>1 DEF ReadPiece
  <2>3. ToSet(Append(r.events, {x})) = ToSet(r.events) \cup {{x}}
        /\ ToSet(Append(r.commands, x)) = ToSet(r.commands) \cup {x}
    <3>1. PICK line \in SUBSET Command : line = {x}
      OBVIOUS
    <3>2. ToSet(Append(r.events, line)) = ToSet(r.events) \cup {line}
      BY <1>1, ToSetAppend
    <3>3. ToSet(Append(r.commands, x)) = ToSet(r.commands) \cup {x}
      BY <1>1, ToSetAppend
    <3> QED  BY <3>1, <3>2, <3>3
  <2>4. Earlier(ToSet(r.commands) \ {Newline}, {x}) /\ Increasing(r.commands)
    BY <2>1 DEF InOrder, Earlier
  <2>5. Increasing(Append(r.commands, x))
    BY <1>3, <2>4, IncreasingAppend
  <2>6. Increasing(<<>>)
    BY DEF Increasing
  <2>7. InOrder(A, q, U, c)
    BY <1>6, <2>1, <2>2, <2>3, <2>5, <2>6, ToSetEmpty DEF InOrder, Earlier
  <2>8. q.buf = <<>> /\ q.commands = Append(r.commands, x)
    BY <2>2
  <2> QED  BY <1>2, <1>6, <2>1, <2>3, <2>7, <2>8, ToSetEmpty
<1>7. CASE piece = Newline /\ r.buf # <<>> /\ Len(r.buf) # 1
  <2>1. PICK line \in SUBSET Command : line = ToSet(r.buf)
    BY <1>3
  <2>2. q.buf = <<>> /\ q.events = Append(r.events, line) /\ q.commands = r.commands
    BY <1>2, <1>7, <2>1 DEF ReadPiece, ReadStates
  <2>3. ToSet(Append(r.events, line)) = ToSet(r.events) \cup {line}
    BY <1>1, ToSetAppend
  <2>4. Increasing(<<>>)
    BY DEF Increasing
  <2>5. InOrder(A, q, U, c)
    BY <1>7, <2>2, <2>3, <2>4, ToSetEmpty DEF InOrder, Earlier
  <2> QED  BY <1>2, <1>7, <2>2, <2>5, ToSetEmpty
<1> QED  BY <1>4, <1>5, <1>6, <1>7

\* The commands in the socket of c after its first i pieces.
Unread(c, i) == {up[c][k] : k \in (i + 1)..Len(up[c])} \ {Newline}

\* However far the socket is read, the order is kept.
LEMMA ReadingOrder ==
  ASSUME InTypes, LinkTypes, NEW c \in Client, NEW n \in 0..Len(up[c]), Increasing(up[c]),
         NEW A \in SUBSET Command, InOrder(A, ReadBegin(c), Unread(c, 0), c)
  PROVE  /\ InOrder(A, Reading(c, n), Unread(c, n), c)
         /\ ToSet(Reading(c, n).commands) \cup ToSet(Reading(c, n).buf)
              \subseteq ToSet(commands) \cup ToSet(rx_buf[c]) \cup Unread(c, 0)
<1>1. /\ Reading(c, 0) = ReadBegin(c)
      /\ \A i \in 0..Len(up[c]) : Reading(c, i) \in ReadStates
      /\ \A i \in 1..Len(up[c]) : Reading(c, i) = ReadPiece(Reading(c, i - 1), up[c][i])
  BY ReadingRuns DEF InTypes, LinkTypes
<1>2. Len(up[c]) \in Nat /\ \A i \in 1..Len(up[c]) : up[c][i] \in Command \cup {Newline}
  BY DEF LinkTypes
<1> DEFINE P(i) == /\ InOrder(A, Reading(c, i), Unread(c, i), c)
                   /\ ToSet(Reading(c, i).commands) \cup ToSet(Reading(c, i).buf)
                        \subseteq ToSet(commands) \cup ToSet(rx_buf[c]) \cup Unread(c, 0)
<1> DEFINE S == {i \in 0..Len(up[c]) : P(i)}
<1>3. 0 \in S
  <2>1. ToSet(Reading(c, 0).commands) = ToSet(commands) /\ ToSet(Reading(c, 0).buf) = ToSet(rx_buf[c])
    BY <1>1 DEF ReadBegin
  <2> QED  BY <1>1, <1>2, <2>1
<1>4. ASSUME NEW i \in 0..(Len(up[c]) - 1), i \in S PROVE i + 1 \in S
  <2>1. i + 1 \in 1..Len(up[c]) /\ (i + 1) - 1 = i /\ i \in 0..Len(up[c])
        /\ i + 1 \in 0..Len(up[c])
    BY <1>2
  <2>2. /\ Reading(c, i) \in ReadStates /\ up[c][i + 1] \in Command \cup {Newline}
        /\ Reading(c, i + 1) = ReadPiece(Reading(c, i), up[c][i + 1])
    BY <1>1, <1>2, <2>1
  <2>3. PICK r \in ReadStates, piece \in Command \cup {Newline} :
          r = Reading(c, i) /\ piece = up[c][i + 1]
    BY <2>2
  <2>4. \A k \in (i + 1)..Len(up[c]) : k = i + 1 \/ k \in ((i + 1) + 1)..Len(up[c])
    BY <1>2
  <2>5. i + 1 \in (i + 1)..Len(up[c])
        /\ \A k \in ((i + 1) + 1)..Len(up[c]) : k \in (i + 1)..Len(up[c]) /\ k \in 1..Len(up[c])
                                             /\ i + 1 < k
    BY <2>1
  <2>6. Unread(c, i + 1) \subseteq Command
    BY <1>2, <2>5 DEF Unread
  <2>7. PICK V \in SUBSET Command : V = Unread(c, i + 1)
    BY <2>6
  <2>8. Unread(c, i) = ({piece} \ {Newline}) \cup V
    BY <2>3, <2>7, <2>4, <2>5 DEF Unread
  <2>9. Earlier({piece} \ {Newline}, V)
    BY <2>1, <2>3, <2>7, <2>5 DEF Earlier, Unread, Increasing
  <2>10. InOrder(A, r, ({piece} \ {Newline}) \cup V, c)
    BY <1>4, <2>3, <2>8
  <2>11. PICK q : q = ReadPiece(r, piece)
    OBVIOUS
  <2>12. /\ InOrder(A, q, V, c)
         /\ ToSet(q.commands) \cup ToSet(q.buf)
              \subseteq ToSet(r.commands) \cup ToSet(r.buf) \cup ({piece} \ {Newline})
    BY <2>9, <2>10, <2>11, ReadPieceOrder
  <2>13. {piece} \ {Newline} \subseteq Unread(c, 0)
    <3>1. i + 1 \in (0 + 1)..Len(up[c])
      BY <2>1
    <3> QED  BY <2>3, <3>1 DEF Unread
  <2>14. Reading(c, i + 1) = q
    BY <2>2, <2>3, <2>11
  <2>15. ToSet(r.commands) \cup ToSet(r.buf)
           \subseteq ToSet(commands) \cup ToSet(rx_buf[c]) \cup Unread(c, 0)
    BY <1>4, <2>3
  <2>16. P(i + 1)
    BY <2>7, <2>12, <2>13, <2>14, <2>15
  <2> QED  BY <2>1, <2>16
<1>5. n \in S
  <2>1. \A k \in 0..Len(up[c]) : k \in S
    <3> HIDE DEF S
    <3> QED  BY <1>2, <1>3, <1>4, BoundedInduction
  <2> QED  BY <2>1
<1> QED  BY <1>5

\* What the snapshots s have answered.
AnsweredBy(s) == [t \in 1..Len(s) |-> s[t].answers]

\* One snapshot more.
LEMMA AnsweredMore ==
  ASSUME NEW s \in Seq(Snap), NEW e \in Snap
  PROVE  /\ FlattenSeq(AnsweredBy(s)) \in Seq(Command) /\ e.answers \in Seq(Command)
         /\ FlattenSeq(AnsweredBy(Append(s, e))) = FlattenSeq(AnsweredBy(s)) \o e.answers
<1>1. PICK n \in Nat : n = Len(s)
  OBVIOUS
<1>2. PICK f : f = Append(s, e)
  OBVIOUS
<1>3. Len(f) = n + 1 /\ f[n + 1] = e /\ \A t \in 1..n : f[t] = s[t]
  BY <1>1, <1>2
<1>4. e.answers \in Seq(Command) /\ \A t \in 1..n : s[t].answers \in Seq(Command)
  <2>1. \A t \in 1..n : s[t] \in Snap
    BY <1>1
  <2>2. ASSUME NEW x \in Snap PROVE x.answers \in Seq(Command)
    BY DEF Snap
  <2> QED  BY <2>1, <2>2
<1>5. PICK a : a = AnsweredBy(s)
  OBVIOUS
<1>6. a \in Seq(Seq(Command)) /\ Len(a) = n /\ \A t \in 1..n : a[t] = s[t].answers
  BY <1>1, <1>4, <1>5 DEF AnsweredBy
<1>7. PICK b : b = AnsweredBy(f)
  OBVIOUS
<1>8. /\ b \in Seq(Seq(Command)) /\ Len(b) = n + 1 /\ b[n + 1] = e.answers
      /\ \A t \in 1..n : b[t] = s[t].answers
  <2>1. b = [t \in 1..(n + 1) |-> f[t].answers]
    BY <1>3, <1>7 DEF AnsweredBy
  <2>2. \A t \in 1..(n + 1) : f[t].answers \in Seq(Command)
    BY <1>3, <1>4
  <2> QED  BY <1>3, <2>1, <2>2
<1>9. PICK x \in Seq(Command) : x = e.answers
  BY <1>4
<1>10. b = Append(a, x)
  <2>1. PICK c : c = Append(a, x)
    OBVIOUS
  <2>2. c \in Seq(Seq(Command)) /\ Len(c) = n + 1 /\ c[n + 1] = x /\ \A t \in 1..n : c[t] = a[t]
    BY <1>6, <2>1
  <2>3. \A t \in 1..(n + 1) : t = n + 1 \/ t \in 1..n
    OBVIOUS
  <2>4. Len(b) = Len(c) /\ \A t \in 1..Len(b) : b[t] = c[t]
    BY <1>6, <1>8, <1>9, <2>2, <2>3
  <2>5. b \in Seq(Seq(Command)) /\ c \in Seq(Seq(Command))
    BY <1>8, <2>2
  <2>6. b = c
    BY <2>4, <2>5, SeqEqual
  <2> QED  BY <2>1, <2>6
<1>11. FlattenSeq(a) \in Seq(Command) /\ FlattenSeq(b) = FlattenSeq(a) \o x
  BY <1>6, <1>10, FlattenAppend
<1> QED  BY <1>2, <1>5, <1>7, <1>9, <1>11

-----------------------------------------------------------------------------
(* The commands on their way: written by the TUI, read, handled, answered. *)

\* What c has written and the daemon has not handled is in the order it was typed in, and
\* after what has been handled.
OrderOf(c) == Increasing(up[c]) /\ InOrder(ToSet(Answers), ReadBegin(c), Unread(c, 0), c)

\* Until its connection closes, what c types next comes after all it has written.
FreshNext(c) ==
    link[c] # "closed" =>
        \A x \in ToSet(Answers) \cup ToSet(commands) \cup ToSet(rx_buf[c]) \cup Unread(c, 0) :
            x.by = c => x.no <= typed[c]

\* What is handled next comes after what was answered, and is echoed.
HandledInv ==
    /\ Increasing(commands) /\ Earlier(ToSet(Answers), ToSet(commands))
    /\ \A x \in ToSet(commands) : {x} \in ToSet(pending)

AnsweredInv ==
    /\ Increasing(Answers)
    /\ \A t \in 1..tick : \A i \in DOMAIN snaps[t].answers :
          {snaps[t].answers[i]} \in ToSet(snaps[t].lines)

OrderInv ==
    /\ AnsweredInv /\ HandledInv
    /\ \A c \in Client : OrderOf(c) /\ FreshNext(c)

\* The answers are commands.
LEMMA AnswersType ==
  ASSUME VmTypes
  PROVE  /\ Answers = FlattenSeq(AnsweredBy(snaps)) /\ Answers \in Seq(Command)
         /\ ToSet(Answers) \subseteq Command
<1>1. Answers = FlattenSeq(AnsweredBy(snaps))
  BY DEF Answers, AnsweredBy, tick
<1>2. snaps \in Seq(Snap)
  BY DEF VmTypes
<1>3. [vm |-> <<>>, lines |-> <<>>, answers |-> <<>>] \in Snap
  BY DEF Snap
<1>4. Answers \in Seq(Command)
  BY <1>1, <1>2, <1>3, AnsweredMore
<1>5. ToSet(Answers) \subseteq Command
  BY <1>4 DEF ToSet
<1> QED  BY <1>1, <1>4, <1>5

\* All of a socket is unread at first.
LEMMA UnreadAll ==
  ASSUME LinkTypes, NEW c \in Client
  PROVE  Unread(c, 0) = ToSet(up[c]) \ {Newline}
<1>1. DOMAIN up[c] = 1..Len(up[c]) /\ 0 + 1 = 1
  BY DEF LinkTypes
<1> QED  BY <1>1 DEF Unread, ToSet

\* Reading any number of pieces of a socket that is emptied then.
LEMMA OrderRead ==
  ASSUME VmTypes, InTypes, LinkTypes, InTypes', LinkTypes', OrderInv,
         NEW c \in Client, NEW n \in 0..Len(up[c]), ReadFrom(c, n),
         up' = [up EXCEPT ![c] = <<>>], UNCHANGED <<snaps, link, typed>>
  PROVE  OrderInv'
<1>1. PICK A \in SUBSET Command : A = ToSet(Answers)
  BY AnswersType
<1>2. ToSet(Answers)' = A /\ AnsweredInv' = AnsweredInv
  BY <1>1 DEF Answers, tick, AnsweredInv
<1>3. OrderOf(c) /\ FreshNext(c) /\ HandledInv /\ AnsweredInv
  BY DEF OrderInv
<1>4. PICK r : r = Reading(c, n)
  OBVIOUS
<1>5. /\ InOrder(A, r, Unread(c, n), c)
      /\ ToSet(r.commands) \cup ToSet(r.buf) \subseteq ToSet(commands) \cup ToSet(rx_buf[c]) \cup Unread(c, 0)
  BY <1>1, <1>3, <1>4, ReadingOrder DEF OrderOf
<1>6. /\ rx_buf'[c] = r.buf /\ pending' = r.events /\ commands' = r.commands /\ up'[c] = <<>>
      /\ \A d \in Client \ {c} : rx_buf'[d] = rx_buf[d] /\ up'[d] = up[d]
  BY <1>4 DEF ReadFrom, Keep, InTypes, LinkTypes
<1>7. Unread(c, 0)' = {}
  BY <1>6 DEF Unread
<1>8. HandledInv'
  BY <1>2, <1>5, <1>6 DEF InOrder, HandledInv
<1>9. OrderOf(c)'
  <2>1. Increasing(<<>>)
    BY DEF Increasing
  <2>2. ReadBegin(c)' = [buf |-> r.buf, events |-> r.events, commands |-> r.commands]
    BY <1>6 DEF ReadBegin
  <2>3. InOrder(A, ReadBegin(c)', {}, c)
    BY <1>5, <2>2 DEF InOrder, Earlier
  <2> QED  BY <1>2, <1>6, <1>7, <2>1, <2>3 DEF OrderOf
<1>10. FreshNext(c)'
  BY <1>1, <1>2, <1>3, <1>5, <1>6, <1>7 DEF FreshNext
<1>11. ASSUME NEW d \in Client \ {c} PROVE OrderOf(d)' /\ FreshNext(d)'
  <2>1. OrderOf(d) /\ FreshNext(d)
    BY DEF OrderInv
  <2>2. PICK U : U = Unread(d, 0)
    OBVIOUS
  <2>3. Unread(d, 0)' = U
    BY <1>6, <2>2 DEF Unread
  <2>4. \A x \in ToSet(commands') : x \in ToSet(commands) \/ x.by = c
    BY <1>3, <1>5, <1>6 DEF OrderOf, InOrder, ReadBegin
  <2>5. InOrder(A, ReadBegin(d)', U, d)
    <3>1. InOrder(A, ReadBegin(d), U, d)
      BY <1>1, <2>1, <2>2 DEF OrderOf
    <3>2. /\ ReadBegin(d).buf = rx_buf[d] /\ ReadBegin(d)'.buf = rx_buf[d]
          /\ ReadBegin(d).commands = commands /\ ReadBegin(d)'.commands = commands'
          /\ ReadBegin(d)'.events = pending'
      BY <1>6 DEF ReadBegin
    <3>3. Earlier(A \cup ToSet(commands'), ToSet(rx_buf[d]) \cup U)
      BY <2>4, <3>1, <3>2 DEF InOrder, Earlier
    <3>4. Increasing(commands') /\ Earlier(A, ToSet(commands'))
          /\ \A x \in ToSet(commands') : {x} \in ToSet(pending')
      BY <1>2, <1>8 DEF HandledInv
    <3> QED  BY <3>1, <3>2, <3>3, <3>4 DEF InOrder
  <2>6. OrderOf(d)'
    BY <1>2, <1>6, <2>1, <2>3, <2>5 DEF OrderOf
  <2>7. FreshNext(d)'
    BY <1>1, <1>2, <1>6, <2>1, <2>2, <2>3, <2>4 DEF FreshNext
  <2> QED  BY <2>6, <2>7
<1> QED  BY <1>2, <1>3, <1>8, <1>9, <1>10, <1>11 DEF OrderInv


\* A step that changes at most what c has written and its connection.
LEMMA OrderElsewhere ==
  ASSUME OrderInv, NEW c \in Client, UNCHANGED <<snaps, rx_buf, pending, commands>>,
         \A d \in Client \ {c} : up'[d] = up[d] /\ link'[d] = link[d] /\ typed'[d] = typed[d]
  PROVE  /\ HandledInv' /\ AnsweredInv'
         /\ ToSet(Answers)' = ToSet(Answers) /\ ReadBegin(c)' = ReadBegin(c)
         /\ \A d \in Client \ {c} : OrderOf(d)' /\ FreshNext(d)'
<1>1. ToSet(Answers)' = ToSet(Answers) /\ AnsweredInv'
  BY DEF Answers, tick, AnsweredInv, OrderInv
<1>2. HandledInv'
  BY <1>1 DEF HandledInv, OrderInv
<1>3. \A d \in Client : ReadBegin(d)' = ReadBegin(d)
  BY DEF ReadBegin
<1>4. ASSUME NEW d \in Client \ {c} PROVE OrderOf(d)' /\ FreshNext(d)'
  <2>1. OrderOf(d) /\ FreshNext(d)
    BY DEF OrderInv
  <2>2. Unread(d, 0)' = Unread(d, 0)
    BY DEF Unread
  <2>3. OrderOf(d)'
    BY <1>1, <1>3, <2>1, <2>2 DEF OrderOf
  <2>4. FreshNext(d)'
    BY <1>1, <2>1, <2>2 DEF FreshNext
  <2> QED  BY <2>3, <2>4
<1> QED  BY <1>1, <1>2, <1>3, <1>4

\* A step that changes none of it.
LEMMA OrderUnchanged ==
  ASSUME OrderInv, UNCHANGED <<snaps, rx_buf, pending, commands, up, link, typed>>
  PROVE  OrderInv'
<1>1. Answers' = Answers /\ AnsweredInv'
  BY DEF Answers, tick, AnsweredInv, OrderInv
<1>2. HandledInv'
  BY <1>1 DEF HandledInv, OrderInv
<1>3. ASSUME NEW c \in Client PROVE OrderOf(c)' /\ FreshNext(c)'
  <2>1. OrderOf(c) /\ FreshNext(c)
    BY DEF OrderInv
  <2>2. Unread(c, 0)' = Unread(c, 0) /\ ReadBegin(c)' = ReadBegin(c)
    BY DEF Unread, ReadBegin
  <2> QED  BY <1>1, <2>1, <2>2 DEF OrderOf, FreshNext
<1> QED  BY <1>1, <1>2, <1>3 DEF OrderInv

\* A socket that is emptied without being read.
LEMMA OrderEmptied ==
  ASSUME LinkTypes, OrderInv, NEW c \in Client, up' = [up EXCEPT ![c] = <<>>],
         UNCHANGED <<snaps, rx_buf, pending, commands, link, typed>>
  PROVE  OrderInv'
<1>1. up'[c] = <<>> /\ \A d \in Client \ {c} : up'[d] = up[d]
  BY DEF LinkTypes
<1>2. /\ HandledInv' /\ AnsweredInv'
      /\ ToSet(Answers)' = ToSet(Answers) /\ ReadBegin(c)' = ReadBegin(c)
      /\ \A d \in Client \ {c} : OrderOf(d)' /\ FreshNext(d)'
  BY <1>1, OrderElsewhere
<1>3. Unread(c, 0)' = {}
  BY <1>1 DEF Unread
<1>4. OrderOf(c) /\ FreshNext(c)
  BY DEF OrderInv
<1>5. Increasing(<<>>)
  BY DEF Increasing
<1>6. InOrder(ToSet(Answers), ReadBegin(c), {}, c)
  BY <1>4 DEF OrderOf, InOrder, Earlier
<1>7. OrderOf(c)'
  BY <1>1, <1>2, <1>3, <1>5, <1>6 DEF OrderOf
<1>8. FreshNext(c)'
  BY <1>2, <1>3, <1>4 DEF FreshNext
<1> QED  BY <1>2, <1>7, <1>8 DEF OrderInv

\* A tick answers the commands, in their order and echoed, and there are none left.
LEMMA OrderTick ==
  ASSUME TypesInv, OrderInv, Tick
  PROVE  OrderInv'
<1>1. VmTypes /\ RuntimeInv /\ InTypes /\ snaps \in Seq(Snap) /\ commands \in Seq(Command)
  BY DEF TypesInv, Types, VmTypes, InTypes
<1>2. PICK e \in Snap : e.lines = pending /\ e.answers = commands /\ snaps' = Append(snaps, e)
  <2>1. PICK vm \in Seq(Nat \X Nat) :
          snaps' = Append(snaps, [vm |-> vm, lines |-> pending, answers |-> commands])
    BY <1>1, TickFacts
  <2>2. [vm |-> vm, lines |-> pending, answers |-> commands] \in Snap
    BY <1>1 DEF InTypes, Snap
  <2> QED  BY <2>1, <2>2
<1>3. PICK a \in Seq(Command) : a = Answers
  BY <1>1, AnswersType
<1>4. Answers' = a \o commands
  <2>1. FlattenSeq(AnsweredBy(Append(snaps, e))) = FlattenSeq(AnsweredBy(snaps)) \o e.answers
    BY <1>1, AnsweredMore
  <2>2. Answers = FlattenSeq(AnsweredBy(snaps)) /\ Answers' = FlattenSeq(AnsweredBy(snaps'))
    BY DEF Answers, AnsweredBy, tick
  <2> QED  BY <1>2, <1>3, <2>1, <2>2
<1>5. AnsweredInv /\ HandledInv
  BY DEF OrderInv
<1>6. /\ Increasing(a \o commands)
      /\ ToSet(a \o commands) \subseteq ToSet(a) \cup ToSet(commands)
  BY <1>1, <1>3, <1>5, IncreasingConcat DEF AnsweredInv, HandledInv
<1>7. ToSet(Answers)' \subseteq ToSet(Answers) \cup ToSet(commands) /\ Increasing(Answers)'
  BY <1>3, <1>4, <1>6
<1>8. ASSUME NEW t \in 1..tick', NEW i \in DOMAIN snaps'[t].answers
      PROVE  {snaps'[t].answers[i]} \in ToSet(snaps'[t].lines)
  <2>1. PICK n \in Nat : n = Len(snaps)
    BY <1>1
  <2>2. Len(snaps') = n + 1 /\ snaps'[n + 1] = e /\ \A u \in 1..n : snaps'[u] = snaps[u]
    BY <1>1, <1>2, <2>1
  <2>3. CASE t = n + 1
    <3>1. commands[i] \in ToSet(commands)
      BY <1>2, <1>8, <2>2, <2>3 DEF ToSet
    <3> QED  BY <1>2, <1>5, <2>2, <2>3, <3>1 DEF HandledInv
  <2>4. CASE t # n + 1
    <3>1. t \in 1..n
      BY <1>8, <2>2, <2>4 DEF tick
    <3> QED  BY <1>5, <1>8, <2>1, <2>2, <3>1 DEF AnsweredInv, tick
  <2> QED  BY <2>3, <2>4
<1>9. AnsweredInv'
  BY <1>7, <1>8 DEF AnsweredInv
<1>10. pending' = <<>> /\ commands' = <<>> /\ UNCHANGED <<rx_buf, up, link, typed>>
  BY DEF Tick, Rest, userVars
<1>11. ToSet(commands)' = {} /\ ToSet(pending)' = {} /\ Increasing(commands)'
  BY <1>10, ToSetEmpty DEF Increasing
<1>12. HandledInv'
  BY <1>11 DEF HandledInv, Earlier
<1>13. ASSUME NEW c \in Client PROVE OrderOf(c)' /\ FreshNext(c)'
  <2>1. OrderOf(c) /\ FreshNext(c)
    BY DEF OrderInv
  <2>2. Unread(c, 0)' = Unread(c, 0)
    BY <1>10 DEF Unread
  <2>3. PICK U : U = Unread(c, 0)
    OBVIOUS
  <2>4. PICK A : A = ToSet(Answers)'
    OBVIOUS
  <2>5. /\ ReadBegin(c).buf = rx_buf[c] /\ ReadBegin(c)'.buf = rx_buf[c]
        /\ ReadBegin(c).commands = commands /\ ReadBegin(c)'.commands = commands'
    BY <1>10 DEF ReadBegin
  <2>6. Earlier(A, ToSet(rx_buf[c]) \cup U)
    BY <1>7, <2>1, <2>3, <2>4, <2>5 DEF OrderOf, InOrder, Earlier
  <2>7. InOrder(A, ReadBegin(c)', U, c)
    BY <1>11, <2>1, <2>3, <2>5, <2>6 DEF OrderOf, InOrder, Earlier
  <2>8. OrderOf(c)'
    BY <1>10, <2>1, <2>2, <2>3, <2>4, <2>7 DEF OrderOf
  <2>9. FreshNext(c)'
    BY <1>7, <1>10, <1>11, <2>1, <2>2 DEF FreshNext
  <2> QED  BY <2>8, <2>9
<1> QED  BY <1>9, <1>12, <1>13 DEF OrderInv


\* The steps of the daemon.
LEMMA OrderDaemon ==
  ASSUME TypesInv, TypesInv', OrderInv, Daemon
  PROVE  OrderInv'
<1>1. /\ LinkTypes /\ LoopTypes /\ InTypes /\ VmTypes /\ Len(clients) \in Nat
      /\ InTypes' /\ LinkTypes'
  BY DEF TypesInv, Types, LinkTypes
<1>2. UNCHANGED <<link, typed>>
  BY DEF Daemon, Accept, Drain, DrainTorn, Drained, Tick, Write, Written, userVars
<1>3. CASE Drain
  <2>1. at \in 1..Len(clients)
    BY <1>1, <1>3 DEF Drain, LoopTypes
  <2>2. PICK c \in Client : c = clients[at]
    BY <1>1, <2>1, ClientAt
  <2>3. PICK n \in 0..Len(up[c]) : n = Len(up[c])
    BY <1>1 DEF LinkTypes
  <2>4. ReadFrom(c, n) /\ up' = [up EXCEPT ![c] = <<>>] /\ UNCHANGED snaps
    BY <1>3, <2>2, <2>3 DEF Drain, vmVars
  <2> QED  BY <1>1, <1>2, <2>4, OrderRead
<1>4. CASE DrainTorn
  <2>1. at \in 1..Len(clients)
    BY <1>1, <1>4 DEF DrainTorn, LoopTypes
  <2>2. PICK c \in Client : c = clients[at]
    BY <1>1, <2>1, ClientAt
  <2>3. PICK n \in 0..Len(up[c]) : ReadFrom(c, n) /\ up' = [up EXCEPT ![c] = <<>>]
    <3>1. PICK n \in 0..(Len(up[c]) - 1) : ReadFrom(c, n) /\ up' = [up EXCEPT ![c] = <<>>]
      BY <1>4, <2>2 DEF DrainTorn
    <3>2. n \in 0..Len(up[c])
      BY <1>1 DEF LinkTypes
    <3> QED  BY <3>1, <3>2
  <2>4. UNCHANGED snaps
    BY <1>4 DEF DrainTorn, vmVars
  <2> QED  BY <1>1, <1>2, <2>3, <2>4, OrderRead
<1>5. CASE Tick
  BY <1>5, OrderTick
<1>6. CASE Write
  <2>1. at \in 1..Len(clients)
    BY <1>1, <1>6 DEF Write, LoopTypes
  <2>2. PICK c \in Client : c = clients[at]
    BY <1>1, <2>1, ClientAt
  <2>3. /\ up' = [up EXCEPT ![c] = <<>>] \/ UNCHANGED up
        /\ UNCHANGED <<snaps, rx_buf, pending, commands>>
    BY <1>6, <2>2 DEF Write, inVars, vmVars
  <2> QED  BY <1>1, <1>2, <2>3, OrderEmptied, OrderUnchanged
<1>7. CASE Accept \/ Drained \/ Written
  <2>1. UNCHANGED <<snaps, rx_buf, pending, commands, up>>
    BY <1>7 DEF Accept, Drained, Written, inVars, vmVars
  <2> QED  BY <1>2, <2>1, OrderUnchanged
<1> QED  BY <1>3, <1>4, <1>5, <1>6, <1>7 DEF Daemon

\* What a TUI writes comes after what it has written.
LEMMA OrderWritten ==
  ASSUME LinkTypes, UserTypes, OrderInv, NEW c \in Client, NEW x \in Command \cup {Newline},
         x # Newline => x.by = c /\ x.no = typed'[c] /\ typed[c] < typed'[c],
         up' = [up EXCEPT ![c] = Append(@, x)], typed[c] <= typed'[c],
         typed'[c] \in Nat, link[c] # "closed",
         \A d \in Client \ {c} : typed'[d] = typed[d],
         UNCHANGED <<snaps, rx_buf, pending, commands, link>>,
         LinkTypes', InTypes, VmTypes
  PROVE  OrderInv'
<1>1. up'[c] = Append(up[c], x) /\ \A d \in Client \ {c} : up'[d] = up[d]
  BY DEF LinkTypes
<1>2. /\ HandledInv' /\ AnsweredInv'
      /\ ToSet(Answers)' = ToSet(Answers) /\ ReadBegin(c)' = ReadBegin(c)
      /\ \A d \in Client \ {c} : OrderOf(d)' /\ FreshNext(d)'
  BY <1>1, OrderElsewhere
<1>3. OrderOf(c) /\ FreshNext(c)
  BY DEF OrderInv
<1>4. PICK A \in SUBSET Command, K \in SUBSET Command, B \in SUBSET Command, U \in SUBSET Command :
        A = ToSet(Answers) /\ K = ToSet(commands) /\ B = ToSet(rx_buf[c]) /\ U = Unread(c, 0)
  <2>1. ToSet(Answers) \subseteq Command
    BY AnswersType
  <2>2. ToSet(commands) \subseteq Command /\ ToSet(rx_buf[c]) \subseteq Command
    BY DEF InTypes, ToSet
  <2>3. Unread(c, 0) \subseteq Command
    BY DEF LinkTypes, Unread
  <2> QED  BY <2>1, <2>2, <2>3
<1>5. Unread(c, 0) = ToSet(up[c]) \ {Newline}
  BY UnreadAll
<1>6. Unread(c, 0)' = U \cup ({x} \ {Newline})
  <2>1. DOMAIN up'[c] = 1..Len(up'[c]) /\ 0 + 1 = 1
    BY DEF LinkTypes
  <2>2. Unread(c, 0)' = ToSet(Append(up[c], x)) \ {Newline}
    BY <1>1, <2>1 DEF Unread, ToSet
  <2>3. ToSet(Append(up[c], x)) = ToSet(up[c]) \cup {x}
    BY UpMore
  <2> QED  BY <1>4, <1>5, <2>2, <2>3
<1>7. \A y \in A \cup K \cup B \cup U : y.by = c => y.no <= typed[c]
  BY <1>3, <1>4 DEF FreshNext
<1>8. typed[c] \in Nat /\ \A y \in Command : y.no \in Nat
  BY DEF UserTypes, Command
<1>9. Earlier(A \cup K \cup B \cup U, {x} \ {Newline})
  BY <1>7, <1>8 DEF Earlier
<1>10. Increasing(up[c]) /\ InOrder(A, ReadBegin(c), U, c)
  BY <1>3, <1>4 DEF OrderOf
<1>11. Increasing(up'[c])
  <2>1. PICK s \in Seq(Command \cup {Newline}) : s = up[c]
    BY DEF LinkTypes
  <2>2. x # Newline => Earlier(ToSet(s) \ {Newline}, {x})
    BY <1>4, <1>5, <1>9, <2>1 DEF Earlier
  <2> QED  BY <1>1, <1>10, <2>1, <2>2, IncreasingAppend
<1>12. ToSet(ReadBegin(c).commands) = K /\ ToSet(ReadBegin(c).buf) = B
  BY <1>4 DEF ReadBegin
<1>13. InOrder(A, ReadBegin(c), U \cup ({x} \ {Newline}), c)
  BY <1>9, <1>10, <1>12 DEF InOrder, Earlier
<1>14. OrderOf(c)'
  BY <1>2, <1>4, <1>6, <1>11, <1>13 DEF OrderOf
<1>15. FreshNext(c)'
  BY <1>2, <1>4, <1>6, <1>7, <1>8 DEF FreshNext
<1> QED  BY <1>2, <1>14, <1>15 DEF OrderInv

\* The steps of a TUI.
LEMMA OrderTui ==
  ASSUME TypesInv, TypesInv', OrderInv, NEW c \in Client, Tui(c)
  PROVE  OrderInv'
<1>1. LinkTypes /\ UserTypes /\ VmTypes /\ InTypes /\ LinkTypes' /\ UserTypes'
  BY DEF TypesInv, Types
<1>2. UNCHANGED <<snaps, rx_buf, pending, commands>>
  BY DEF Tui, Connect, Close, Disconnect, Receive, ReceiveTorn, SendText, SendNewline,
         inVars, vmVars
<1>3. ASSUME UNCHANGED up, typed'[c] >= typed[c] \/ link'[c] = "closed",
             \A d \in Client \ {c} : link'[d] = link[d] /\ typed'[d] = typed[d],
             link[c] = "closed" => link'[c] = "closed"
      PROVE  OrderInv'
  <2>1. /\ HandledInv' /\ AnsweredInv'
        /\ ToSet(Answers)' = ToSet(Answers) /\ ReadBegin(c)' = ReadBegin(c)
        /\ \A d \in Client \ {c} : OrderOf(d)' /\ FreshNext(d)'
    BY <1>2, <1>3, OrderElsewhere
  <2>2. OrderOf(c) /\ FreshNext(c)
    BY DEF OrderInv
  <2>3. Unread(c, 0)' = Unread(c, 0)
    BY <1>3 DEF Unread
  <2>4. OrderOf(c)'
    BY <1>3, <2>1, <2>2, <2>3 DEF OrderOf
  <2>5. FreshNext(c)'
    <3>1. \A y \in ToSet(Answers) \cup ToSet(commands) \cup ToSet(rx_buf[c]) \cup Unread(c, 0) :
            y \in Command
      <4>1. ToSet(Answers) \subseteq Command
        BY <1>1, AnswersType
      <4>2. ToSet(commands) \subseteq Command /\ ToSet(rx_buf[c]) \subseteq Command
        BY <1>1 DEF InTypes, ToSet
      <4>3. Unread(c, 0) \subseteq Command
        BY <1>1 DEF LinkTypes, Unread
      <4> QED  BY <4>1, <4>2, <4>3
    <3>2. typed[c] \in Nat /\ typed'[c] \in Nat /\ \A y \in Command : y.no \in Nat
      BY <1>1 DEF UserTypes, Command
    <3> QED  BY <1>2, <1>3, <2>1, <2>2, <2>3, <3>1, <3>2 DEF FreshNext
  <2> QED  BY <2>1, <2>4, <2>5 DEF OrderInv
<1>4. CASE Connect(c)
  <2>1. link[c] = "off" /\ link' = [link EXCEPT ![c] = "on"] /\ UNCHANGED <<up, typed>>
    BY <1>4 DEF Connect, userVars
  <2>2. typed[c] \in Nat /\ \A d \in Client \ {c} : link'[d] = link[d]
    BY <1>1, <2>1 DEF UserTypes, LinkTypes
  <2> QED  BY <1>3, <2>1, <2>2
<1>5. ASSUME Disconnect(c) PROVE OrderInv'
  <2>1. /\ link' = [link EXCEPT ![c] = "closed"] /\ typed' = [typed EXCEPT ![c] = 0]
        /\ UNCHANGED up
    BY <1>5 DEF Disconnect
  <2>2. link'[c] = "closed" /\ \A d \in Client \ {c} : link'[d] = link[d] /\ typed'[d] = typed[d]
    BY <1>1, <2>1 DEF UserTypes, LinkTypes
  <2> QED  BY <1>3, <2>1, <2>2
<1>6. CASE Receive(c) \/ (ReceiveTorn(c) /\ ~ Disconnect(c))
  <2>1. UNCHANGED <<up, link, typed>>
    BY <1>6 DEF Receive, ReceiveTorn, userVars
  <2> QED  BY <1>2, <2>1, OrderUnchanged
<1>7. CASE SendText(c)
  <2>1. PICK x \in Command : x = [by |-> c, no |-> typed[c] + 1]
    BY <1>1, CommandType DEF UserTypes
  <2>2. /\ up' = [up EXCEPT ![c] = Append(@, x)] \/ UNCHANGED up
        /\ typed' = [typed EXCEPT ![c] = @ + 1] /\ UNCHANGED link /\ link[c] = "on"
    BY <1>7, <2>1 DEF SendText, Connected
  <2>3. /\ typed'[c] = typed[c] + 1 /\ typed[c] \in Nat /\ typed'[c] \in Nat
        /\ \A d \in Client \ {c} : typed'[d] = typed[d]
    BY <1>1, <2>2 DEF UserTypes
  <2>4. x.by = c /\ x.no = typed'[c] /\ typed[c] < typed'[c] /\ typed[c] <= typed'[c]
        /\ link[c] # "closed" /\ typed'[c] >= typed[c]
    BY <2>1, <2>2, <2>3
  <2>5. CASE UNCHANGED up
    BY <1>3, <2>2, <2>3, <2>4, <2>5
  <2>6. CASE up' = [up EXCEPT ![c] = Append(@, x)]
    BY <1>1, <1>2, <2>2, <2>3, <2>4, <2>6, OrderWritten
  <2> QED  BY <2>2, <2>5, <2>6
<1>8. CASE SendNewline(c)
  <2>1. /\ up' = [up EXCEPT ![c] = Append(@, Newline)] \/ UNCHANGED up
        /\ UNCHANGED <<typed, link>> /\ link[c] # "closed"
    BY <1>8 DEF SendNewline
  <2>2. typed[c] \in Nat /\ typed'[c] \in Nat /\ typed[c] <= typed'[c]
    BY <1>1, <2>1 DEF UserTypes
  <2>3. CASE up' = [up EXCEPT ![c] = Append(@, Newline)]
    <3>1. PICK x \in Command \cup {Newline} : x = Newline
      OBVIOUS
    <3> QED  BY <1>1, <1>2, <2>1, <2>2, <2>3, <3>1, OrderWritten
  <2>4. CASE UNCHANGED up
    BY <1>2, <2>1, <2>4, OrderUnchanged
  <2> QED  BY <2>1, <2>3, <2>4
<1> QED  BY <1>4, <1>5, <1>6, <1>7, <1>8 DEF Tui, Close

\* Every step.
LEMMA OrderStep ==
  ASSUME TypesInv, TypesInv', OrderInv, [ServerNext]_serverVars
  PROVE  OrderInv'
<1>1. CASE UNCHANGED serverVars
  <2>1. UNCHANGED <<snaps, rx_buf, pending, commands, up, link, typed>>
    BY <1>1 DEF serverVars, inVars, vmVars, userVars
  <2> QED  BY <2>1, OrderUnchanged
<1> QED  BY <1>1, OrderDaemon, OrderTui DEF ServerNext

\* However the pieces of different users' commands interleave, however many are cut by a
\* full socket or a torn read, those that are answered are in the order their user typed
\* them, once each, and each was a line of its own, echoed by the same snapshot.
THEOREM CommandsAlwaysInOrder == ServerSpec => []CommandsInOrder
<1>1. ServerInit => OrderInv
  <2>1. ASSUME ServerInit PROVE OrderInv
    <3>1. /\ snaps = <<>> /\ commands = <<>> /\ pending = <<>> /\ tick = 0
          /\ \A c \in Client : rx_buf[c] = <<>> /\ up[c] = <<>>
      BY <2>1 DEF ServerInit, tick
    <3>2. [t \in 1..tick |-> snaps[t].answers] = <<>>
      BY <3>1
    <3>3. Answers = <<>>
      BY <3>2, FlattenEmpty DEF Answers
    <3>4. Increasing(<<>>)
      BY DEF Increasing
    <3>5. AnsweredInv
      BY <3>1, <3>3, <3>4 DEF AnsweredInv
    <3>6. HandledInv
      BY <3>1, <3>3, <3>4, ToSetEmpty DEF HandledInv, Earlier
    <3>7. ASSUME NEW c \in Client PROVE OrderOf(c) /\ FreshNext(c)
      <4>1. Unread(c, 0) = {}
        BY <3>1 DEF Unread
      <4>2. InOrder(ToSet(Answers), ReadBegin(c), Unread(c, 0), c)
        BY <3>1, <3>3, <3>4, <4>1, ToSetEmpty DEF InOrder, ReadBegin, Earlier
      <4> QED  BY <3>1, <3>3, <3>4, <4>1, <4>2, ToSetEmpty DEF OrderOf, FreshNext
    <3> QED  BY <3>5, <3>6, <3>7 DEF OrderInv
  <2> QED  BY <2>1
<1>2. TypesInv /\ TypesInv' /\ OrderInv /\ [ServerNext]_serverVars => OrderInv'
  BY OrderStep
<1>3. ASSUME TypesInv, OrderInv PROVE CommandsInOrder
  <2>1. AnsweredInv
    BY <1>3 DEF OrderInv
  <2>2. Answers \in Seq(Command)
    BY <1>3, AnswersType DEF TypesInv, Types
  <2>3. DOMAIN Answers = 1..Len(Answers) /\ \A i \in 1..Len(Answers) : Answers[i] # Newline
    BY <2>2, NewlineAssumption
  <2>4. \A i, j \in DOMAIN Answers :
          i < j /\ Answers[i].by = Answers[j].by => Answers[i].no < Answers[j].no
    BY <2>1, <2>3 DEF AnsweredInv, Increasing
  <2> QED  BY <2>1, <2>4 DEF AnsweredInv, CommandsInOrder
<1> QED  BY <1>1, <1>2, <1>3, TypesAlways, PTL DEF ServerSpec

-----------------------------------------------------------------------------
(* The pieces of the snapshots on their way to a TUI.                      *)

\* The piece q is the one after p.
Follows(p, q) ==
    IF p.no = Parts THEN q.of = p.of + 1 /\ q.no = 1 ELSE q.of = p.of /\ q.no = p.no + 1

\* The piece q comes after p.
Before(p, q) == p.of < q.of \/ (p.of = q.of /\ p.no < q.no)

\* The pieces of s from the n-th on come one after the other, all of them after the
\* snapshots seen, and those came one after the other.
Ahead(view, s, n) ==
    /\ \A i, j \in 1..Len(view) : i < j => view[i] < view[j]
    /\ \A i \in 1..Len(view) : \A k \in (n + 1)..Len(s) : view[i] < s[k].of
    /\ \A k, l \in (n + 1)..Len(s) : k < l => Before(s[k], s[l])

\* The same without a gap: the first of the pieces ends or goes on with the line so far,
\* and that is the snapshot after the last one seen.
InLine(line, view, s, n) ==
    /\ \A i \in 1..(Len(view) - 1) : view[i + 1] = view[i] + 1
    /\ \A k \in (n + 1)..(Len(s) - 1) : Follows(s[k], s[k + 1])
    /\ view # <<>> => s[n + 1].of = view[Len(view)] + 1
    /\ Len(line) + 1 = s[n + 1].no
    /\ \A i \in 1..Len(line) : line[i] = [of |-> s[n + 1].of, no |-> i]

\* What the daemon writes next to the j-th of its clients.
NextPiece(j) ==
    [of |-> IF pc = "write" /\ at <= j THEN tick ELSE tick + 1,
     no |-> IF pc = "write" /\ at = j THEN part ELSE 1]

AnyPiece == [of : Nat \ {0}, no : 1..Parts]

\* q is what comes next for c, if the daemon still has it.
NextFor(c, q) == \A j \in 1..Len(clients) : clients[j] = c => q = NextPiece(j)

\* The socket of c and then q go on from what c has read.
Streams(c, q) ==
    /\ Ahead(seen[c], Append(down[c], q), 0)
    /\ link[c] = "on" /\ ~ torn[c] => InLine(read_buffer[c], seen[c], Append(down[c], q), 0)

\* A TUI that has received nothing.
Blank(c) == down[c] = <<>> /\ read_buffer[c] = <<>> /\ seen[c] = <<>> /\ torn[c] = FALSE

StreamsInv == \A c \in Client : \E q \in AnyPiece : NextFor(c, q) /\ Streams(c, q)

WrittenInv == \A c \in Client : \A k \in 1..Len(down[c]) : down[c][k].of <= tick

BlankInv ==
    /\ \A c \in Client : link[c] # "on" => Blank(c)
    /\ \A j \in 1..Len(backlog) : Blank(backlog[j])

PartInv == part = 1 \/ (pc = "write" /\ at <= Len(clients))

ViewInv == StreamsInv /\ WrittenInv /\ BlankInv /\ PartInv

\* The pieces come later and later.
LEMMA FollowsBefore ==
  ASSUME NEW p \in AnyPiece, NEW q \in AnyPiece, Follows(p, q)
  PROVE  Before(p, q) /\ \A o \in AnyPiece : Before(o, p) => Before(o, q)
BY PartsAssumption DEF AnyPiece, Follows, Before

\* A view with one snapshot more.
LEMMA ViewMore ==
  ASSUME NEW view \in Seq(1..MaxTick), NEW s \in Seq(AnyPiece), NEW n \in 0..(Len(s) - 2),
         Ahead(view, s, n), s[n + 1].of \in 1..MaxTick, s[n + 1].no = Parts
  PROVE  Ahead(Append(view, s[n + 1].of), s, n + 1)
<1>1. PICK t \in 1..MaxTick : t = s[n + 1].of
  OBVIOUS
<1>2. PICK m \in Nat : m = Len(view)
  OBVIOUS
<1>3. PICK w : w = Append(view, t)
  OBVIOUS
<1>4. Len(w) = m + 1 /\ w[m + 1] = t /\ \A i \in 1..m : w[i] = view[i]
  BY <1>2, <1>3
<1>5. \A i \in 1..(m + 1) : i = m + 1 \/ i \in 1..m
  OBVIOUS
<1>6. n + 1 \in (n + 1)..Len(s) /\ n + 1 \in 1..Len(s) /\ Len(s) \in Nat
      /\ \A k \in ((n + 1) + 1)..Len(s) : k \in (n + 1)..Len(s) /\ k \in 1..Len(s) /\ n + 1 < k
  OBVIOUS
<1>7. \A k \in ((n + 1) + 1)..Len(s) : t < s[k].of
  <2>1. ASSUME NEW k \in ((n + 1) + 1)..Len(s) PROVE t < s[k].of
    <3>1. Before(s[n + 1], s[k])
      BY <1>6 DEF Ahead
    <3>2. PICK p \in AnyPiece : p = s[k]
      BY <1>6
    <3>3. p.no \in 1..Parts /\ p.of \in Nat
      BY DEF AnyPiece
    <3> QED  BY <1>1, <3>1, <3>2, <3>3, PartsAssumption DEF Before
  <2> QED  BY <2>1
<1>8. ASSUME NEW i \in 1..(m + 1), NEW j \in 1..(m + 1), i < j PROVE w[i] < w[j]
  <2>1. i \in 1..m /\ w[i] = view[i]
    BY <1>4, <1>8
  <2>2. view[i] < t
    BY <1>1, <1>2, <1>6, <2>1 DEF Ahead
  <2>3. j \in 1..m => view[i] < view[j]
    BY <1>2, <1>8, <2>1 DEF Ahead
  <2> QED  BY <1>4, <1>5, <2>1, <2>2, <2>3
<1>9. ASSUME NEW i \in 1..(m + 1), NEW k \in ((n + 1) + 1)..Len(s) PROVE w[i] < s[k].of
  <2>1. i \in 1..m => view[i] < s[k].of
    BY <1>2, <1>6 DEF Ahead
  <2> QED  BY <1>4, <1>5, <1>7, <2>1
<1>10. \A k, l \in ((n + 1) + 1)..Len(s) : k < l => Before(s[k], s[l])
  BY <1>6 DEF Ahead
<1>11. Ahead(w, s, n + 1)
  BY <1>4, <1>8, <1>9, <1>10 DEF Ahead
<1> QED  BY <1>1, <1>3, <1>11

\* Decoding a piece leaves what comes after it ahead.
LEMMA DecodePieceAhead ==
  ASSUME NEW r \in ViewStates, NEW s \in Seq(AnyPiece), NEW n \in 0..(Len(s) - 2),
         Ahead(r.seen, s, n), s[n + 1] \in Piece
  PROVE  Ahead(DecodePiece(r, s[n + 1]).seen, s, n + 1)
<1>1. r.seen \in Seq(1..MaxTick) /\ s[n + 1].of \in 1..MaxTick /\ s[n + 1].no \in 1..Parts
  BY DEF ViewStates, Piece
<1>2. \A k \in ((n + 1) + 1)..Len(s) : k \in (n + 1)..Len(s)
  OBVIOUS
<1>3. Ahead(r.seen, s, n + 1)
  BY <1>2 DEF Ahead
<1>4. CASE s[n + 1].no < Parts
  BY <1>3, <1>4 DEF DecodePiece, ViewStates
<1>5. CASE ~ s[n + 1].no < Parts
  <2>1. s[n + 1].no = Parts
    BY <1>1, <1>5, PartsAssumption
  <2>2. Ahead(Append(r.seen, s[n + 1].of), s, n + 1)
    BY <1>1, <2>1, ViewMore
  <2>3. DecodePiece(r, s[n + 1]).seen \in {r.seen, Append(r.seen, s[n + 1].of)}
    BY <1>5 DEF DecodePiece
  <2> QED  BY <1>3, <2>2, <2>3
<1> QED  BY <1>4, <1>5

\* And if there was no gap there is none: a line that is ended is a snapshot.
LEMMA DecodePieceInLine ==
  ASSUME NEW r \in ViewStates, NEW s \in Seq(AnyPiece), NEW n \in 0..(Len(s) - 2),
         InLine(r.line, r.seen, s, n), s[n + 1] \in Piece, s[n + 1].of <= tick, tick \in Nat
  PROVE  InLine(DecodePiece(r, s[n + 1]).line, DecodePiece(r, s[n + 1]).seen, s, n + 1)
<1>1. /\ r.seen \in Seq(1..MaxTick) /\ r.line \in Seq(Piece)
      /\ s[n + 1].of \in 1..MaxTick /\ s[n + 1].no \in 1..Parts
  BY DEF ViewStates, Piece
<1>2. PICK t \in 1..MaxTick, k \in 1..Parts : t = s[n + 1].of /\ k = s[n + 1].no
  BY <1>1
<1>3. PICK p \in Piece : p = s[n + 1] /\ p.of = t /\ p.no = k /\ p = [of |-> t, no |-> k]
  BY <1>2 DEF Piece
<1>4. PICK line : line = Append(r.line, p)
  OBVIOUS
<1>5. Len(r.line) + 1 = k /\ \A i \in 1..Len(r.line) : r.line[i] = [of |-> t, no |-> i]
  BY <1>2 DEF InLine
<1>6. line \in Seq(Piece) /\ Len(line) = k /\ \A i \in 1..k : line[i] = [of |-> t, no |-> i]
  <2>1. /\ line \in Seq(Piece) /\ Len(line) = Len(r.line) + 1 /\ line[Len(r.line) + 1] = p
        /\ \A i \in 1..Len(r.line) : line[i] = r.line[i]
    BY <1>1, <1>4
  <2>2. \A i \in 1..k : i = k \/ i \in 1..Len(r.line)
    BY <1>1, <1>5
  <2> QED  BY <1>3, <1>5, <2>1, <2>2
<1>7. PICK q \in AnyPiece : q = s[(n + 1) + 1] /\ Follows(p, q)
  <2>1. n + 1 \in (n + 1)..(Len(s) - 1) /\ (n + 1) + 1 \in 1..Len(s)
    OBVIOUS
  <2>2. Follows(s[n + 1], s[(n + 1) + 1]) /\ s[(n + 1) + 1] \in AnyPiece
    BY <2>1 DEF InLine
  <2> QED  BY <1>3, <2>2
<1>8. \A j \in ((n + 1) + 1)..(Len(s) - 1) : Follows(s[j], s[j + 1])
  BY DEF InLine
<1>9. CASE k < Parts
  <2>1. q.of = t /\ q.no = k + 1
    BY <1>3, <1>7, <1>9 DEF Follows
  <2>2. DecodePiece(r, p).line = line /\ DecodePiece(r, p).seen = r.seen
    BY <1>3, <1>4, <1>9 DEF DecodePiece, ViewStates
  <2>3. /\ \A i \in 1..(Len(r.seen) - 1) : r.seen[i + 1] = r.seen[i] + 1
        /\ r.seen # <<>> => t = r.seen[Len(r.seen)] + 1
    BY <1>2 DEF InLine
  <2>4. InLine(line, r.seen, s, n + 1)
    BY <1>6, <1>7, <1>8, <2>1, <2>3 DEF InLine
  <2> QED  BY <1>3, <2>2, <2>4
<1>10. CASE ~ k < Parts
  <2>1. k = Parts /\ q.of = t + 1 /\ q.no = 1
    BY <1>2, <1>3, <1>7, <1>10, PartsAssumption DEF Follows
  <2>2. line = [i \in 1..Parts |-> [of |-> t, no |-> i]]
    BY <1>6, <2>1
  <2>3. Whole(line)
    BY <1>2, <2>2 DEF Whole
  <2>4. PICK v : v = Append(r.seen, t)
    OBVIOUS
  <2>5. DecodePiece(r, p).line = <<>> /\ DecodePiece(r, p).seen = v
    BY <1>3, <1>4, <1>10, <2>3, <2>4 DEF DecodePiece
  <2>6. PICK m \in Nat : m = Len(r.seen)
    BY <1>1
  <2>7. Len(v) = m + 1 /\ v[m + 1] = t /\ \A i \in 1..m : v[i] = r.seen[i]
    BY <1>1, <2>4, <2>6
  <2>8. \A i \in 1..(m - 1) : r.seen[i + 1] = r.seen[i] + 1
    BY <2>6 DEF InLine
  <2>9. m > 0 => t = r.seen[m] + 1
    BY <1>1, <1>2, <2>6 DEF InLine
  <2>10. \A i \in 1..((m + 1) - 1) : v[i + 1] = v[i] + 1
    <3>1. ASSUME NEW i \in 1..((m + 1) - 1) PROVE v[i + 1] = v[i] + 1
      <4>1. CASE i = m
        BY <2>7, <2>9, <4>1
      <4>2. CASE i # m
        <5>1. i \in 1..(m - 1) /\ i \in 1..m /\ i + 1 \in 1..m
          BY <4>2
        <5> QED  BY <2>7, <2>8, <5>1
      <4> QED  BY <4>1, <4>2
    <3> QED  BY <3>1
  <2>11. InLine(<<>>, v, s, n + 1)
    BY <1>7, <1>8, <2>1, <2>7, <2>10 DEF InLine
  <2> QED  BY <1>3, <2>5, <2>11
<1> QED  BY <1>9, <1>10


\* Decoding any number of the pieces in a socket leaves what comes after them ahead, and in
\* line if all before was.
LEMMA DecodingStreams ==
  ASSUME ViewTypes, LinkTypes, tick \in Nat, NEW c \in Client, NEW q \in AnyPiece,
         NEW n \in 0..Len(down[c]), NEW s \in Seq(AnyPiece), s = Append(down[c], q),
         \A k \in 1..Len(down[c]) : down[c][k].of <= tick, Ahead(seen[c], s, 0)
  PROVE  /\ Ahead(Decoding(c, n).seen, s, n)
         /\ InLine(read_buffer[c], seen[c], s, 0) =>
              InLine(Decoding(c, n).line, Decoding(c, n).seen, s, n)
<1>1. PICK m \in Nat : m = Len(down[c])
  BY DEF LinkTypes
<1>2. /\ Decoding(c, 0) = DecodeBegin(c)
      /\ \A i \in 0..m : Decoding(c, i) \in ViewStates
      /\ \A i \in 1..m : Decoding(c, i) = DecodePiece(Decoding(c, i - 1), down[c][i])
  BY <1>1, DecodingRuns DEF ViewTypes, LinkTypes
<1>3. Len(s) = m + 1 /\ \A k \in 1..m : s[k] = down[c][k] /\ s[k] \in Piece
  BY <1>1 DEF LinkTypes
<1> DEFINE P(i) == /\ Ahead(Decoding(c, i).seen, s, i)
                   /\ InLine(read_buffer[c], seen[c], s, 0) =>
                        InLine(Decoding(c, i).line, Decoding(c, i).seen, s, i)
<1> DEFINE S == {i \in 0..m : P(i)}
<1>4. 0 \in S
  <2>1. Decoding(c, 0).seen = seen[c] /\ Decoding(c, 0).line = read_buffer[c]
    BY <1>2 DEF DecodeBegin
  <2> QED  BY <2>1
<1>5. ASSUME NEW i \in 0..(m - 1), i \in S PROVE i + 1 \in S
  <2>1. /\ i + 1 \in 1..m /\ (i + 1) - 1 = i /\ i \in 0..m /\ i + 1 \in 0..m
        /\ i \in 0..(Len(s) - 2)
    BY <1>3
  <2>2. PICK r \in ViewStates : r = Decoding(c, i)
    BY <1>2, <2>1
  <2>3. s[i + 1] = down[c][i + 1] /\ s[i + 1] \in Piece /\ s[i + 1].of <= tick
    BY <1>1, <1>3, <2>1
  <2>4. Decoding(c, i + 1) = DecodePiece(r, s[i + 1])
    BY <1>2, <2>1, <2>2, <2>3
  <2>5. Ahead(DecodePiece(r, s[i + 1]).seen, s, i + 1)
    BY <1>5, <2>1, <2>2, <2>3, DecodePieceAhead
  <2>6. InLine(read_buffer[c], seen[c], s, 0) =>
          InLine(DecodePiece(r, s[i + 1]).line, DecodePiece(r, s[i + 1]).seen, s, i + 1)
    BY <1>5, <2>1, <2>2, <2>3, DecodePieceInLine
  <2> QED  BY <2>1, <2>4, <2>5, <2>6
<1>6. n \in S
  <2>1. \A k \in 0..m : k \in S
    <3> HIDE DEF S
    <3> QED  BY <1>4, <1>5, BoundedInduction
  <2> QED  BY <1>1, <2>1
<1> QED  BY <1>6

\* t is s without its first n elements.
Rests(s, n, t) == Len(s) = n + Len(t) /\ \A k \in 1..Len(t) : t[k] = s[n + k]

\* What is left of the pieces.
LEMMA AheadRest ==
  ASSUME NEW view \in Seq(1..MaxTick), NEW s \in Seq(AnyPiece), NEW n \in Nat,
         NEW t \in Seq(AnyPiece), Rests(s, n, t), Ahead(view, s, n)
  PROVE  Ahead(view, t, 0)
<1>1. PICK m \in Nat : m = Len(t)
  OBVIOUS
<1>2. \A k \in (0 + 1)..m : n + k \in (n + 1)..Len(s) /\ t[k] = s[n + k] /\ k \in 1..m
  BY <1>1 DEF Rests
<1>3. \A i \in 1..Len(view) : \A k \in (0 + 1)..m : view[i] < t[k].of
  BY <1>2 DEF Ahead
<1>4. ASSUME NEW k \in (0 + 1)..m, NEW l \in (0 + 1)..m, k < l PROVE Before(t[k], t[l])
  <2>1. PICK x \in (n + 1)..Len(s), y \in (n + 1)..Len(s) : x = n + k /\ y = n + l /\ x < y
    BY <1>2, <1>4
  <2>2. Before(s[x], s[y])
    BY <2>1 DEF Ahead
  <2> QED  BY <1>2, <2>1, <2>2
<1>5. \A i, j \in 1..Len(view) : i < j => view[i] < view[j]
  BY DEF Ahead
<1> QED  BY <1>1, <1>3, <1>4, <1>5 DEF Ahead

\* The last one is left.
LEMMA InLineRest ==
  ASSUME NEW line, NEW view, NEW s \in Seq(AnyPiece), NEW n \in Nat, Len(s) = n + 1,
         InLine(line, view, s, n)
  PROVE  InLine(line, view, <<s[n + 1]>>, 0)
<1>1. PICK q : q = s[n + 1]
  OBVIOUS
<1>2. Len(<<q>>) = 1 /\ <<q>>[0 + 1] = q
  OBVIOUS
<1>3. InLine(line, view, <<q>>, 0)
  BY <1>1, <1>2 DEF InLine
<1> QED  BY <1>1, <1>3

\* The snapshots seen are numbers.
LEMMA ViewElement ==
  ASSUME NEW view \in Seq(1..MaxTick), NEW i \in 1..Len(view)
  PROVE  view[i] \in Nat
<1>1. view[i] \in 1..MaxTick
  BY ElementOfSeq
<1> QED  BY <1>1, BoundAssumption

\* The piece after the last.
LEMMA StreamMore ==
  ASSUME NEW view \in Seq(1..MaxTick), NEW line \in Seq(Piece), NEW s \in Seq(AnyPiece), s # <<>>,
         NEW q \in AnyPiece, Follows(s[Len(s)], q)
  PROVE  /\ Ahead(view, s, 0) => Ahead(view, Append(s, q), 0)
         /\ InLine(line, view, s, 0) => InLine(line, view, Append(s, q), 0)
<1>1. PICK n \in Nat : n = Len(s)
  OBVIOUS
<1>2. n >= 1 /\ n \in 1..n
  BY <1>1, EmptySeq
<1>3. PICK p \in AnyPiece : p = s[n]
  BY <1>1, <1>2
<1>4. Follows(p, q) /\ Before(p, q) /\ \A o \in AnyPiece : Before(o, p) => Before(o, q)
  <2>1. Follows(p, q)
    BY <1>1, <1>3
  <2> QED  BY <2>1, FollowsBefore
<1>5. PICK t : t = Append(s, q)
  OBVIOUS
<1>6. /\ Len(t) = n + 1 /\ t[n + 1] = q /\ \A k \in 1..n : t[k] = s[k] /\ s[k] \in AnyPiece
  BY <1>1, <1>5
<1>7. \A k \in (0 + 1)..(n + 1) : k = n + 1 \/ k \in 1..n
  OBVIOUS
<1>8. ASSUME Ahead(view, s, 0) PROVE Ahead(view, t, 0)
  <2>1. \A i \in 1..Len(view) : \A k \in 1..n : view[i] < s[k].of
    BY <1>1, <1>8 DEF Ahead
  <2>2. \A i \in 1..Len(view) : view[i] < q.of
    <3>1. p.of \in Nat /\ q.of \in Nat /\ p.of <= q.of
      BY <1>4 DEF AnyPiece, Before
    <3>2. ASSUME NEW i \in 1..Len(view) PROVE view[i] < q.of
      <4>1. view[i] < s[n].of
        BY <1>2, <2>1
      <4>2. PICK v \in Nat : v = view[i]
        BY ViewElement
      <4>3. v < p.of
        BY <1>3, <4>1, <4>2
      <4> QED  BY <3>1, <4>2, <4>3
    <3> QED  BY <3>2
  <2>3. ASSUME NEW i \in 1..Len(view), NEW k \in (0 + 1)..(n + 1) PROVE view[i] < t[k].of
    BY <1>6, <1>7, <2>1, <2>2
  <2>4. \A k, l \in 1..n : k < l => Before(s[k], s[l])
    BY <1>1, <1>8 DEF Ahead
  <2>5. \A k \in 1..n : Before(s[k], q)
    <3>1. ASSUME NEW k \in 1..n PROVE Before(s[k], q)
      <4>1. CASE k = n
        BY <1>3, <1>4, <4>1
      <4>2. CASE k # n
        <5>1. Before(s[k], p) /\ s[k] \in AnyPiece
          BY <1>2, <1>3, <1>6, <2>4, <4>2
        <5> QED  BY <1>4, <5>1
      <4> QED  BY <4>1, <4>2
    <3> QED  BY <3>1
  <2>6. ASSUME NEW k \in (0 + 1)..(n + 1), NEW l \in (0 + 1)..(n + 1), k < l
        PROVE  Before(t[k], t[l])
    <3>1. k \in 1..n
      BY <2>6
    <3> QED  BY <1>6, <1>7, <2>4, <2>5, <2>6, <3>1
  <2>7. \A i, j \in 1..Len(view) : i < j => view[i] < view[j]
    BY <1>8 DEF Ahead
  <2> QED  BY <1>6, <2>3, <2>6, <2>7 DEF Ahead
<1>9. ASSUME InLine(line, view, s, 0) PROVE InLine(line, view, t, 0)
  <2>1. t[0 + 1] = s[0 + 1]
    BY <1>2, <1>6
  <2>2. ASSUME NEW k \in (0 + 1)..((n + 1) - 1) PROVE Follows(t[k], t[k + 1])
    <3>1. CASE k = n
      BY <1>2, <1>3, <1>4, <1>6, <3>1
    <3>2. CASE k # n
      <4>1. k \in (0 + 1)..(n - 1) /\ k \in 1..n /\ k + 1 \in 1..n
        BY <3>2
      <4>2. Follows(s[k], s[k + 1])
        BY <1>1, <1>9, <4>1 DEF InLine
      <4> QED  BY <1>6, <4>1, <4>2
    <3> QED  BY <3>1, <3>2
  <2>3. /\ \A i \in 1..(Len(view) - 1) : view[i + 1] = view[i] + 1
        /\ view # <<>> => s[0 + 1].of = view[Len(view)] + 1
        /\ Len(line) + 1 = s[0 + 1].no
        /\ \A i \in 1..Len(line) : line[i] = [of |-> s[0 + 1].of, no |-> i]
    BY <1>9 DEF InLine
  <2> QED  BY <1>6, <2>1, <2>2, <2>3 DEF InLine
<1> QED  BY <1>5, <1>8, <1>9


-----------------------------------------------------------------------------
(* The steps keep the streams.                                             *)

\* A piece to come by itself.
LEMMA StreamAlone ==
  ASSUME NEW c \in Client, NEW q \in AnyPiece, Blank(c), link[c] = "on" => q.no = 1
  PROVE  Streams(c, q)
<1>1. Append(down[c], q) = <<q>> /\ Len(<<q>>) = 1 /\ <<q>>[0 + 1] = q
  BY DEF Blank
<1>2. seen[c] = <<>> /\ read_buffer[c] = <<>> /\ Len(seen[c]) = 0 /\ Len(read_buffer[c]) = 0
  BY DEF Blank
<1>3. Ahead(<<>>, <<q>>, 0)
  BY DEF Ahead
<1>4. q.no = 1 => InLine(<<>>, <<>>, <<q>>, 0)
  BY DEF InLine
<1> QED  BY <1>1, <1>2, <1>3, <1>4 DEF Streams

\* A step of the daemon that writes nothing.
LEMMA StreamsKept ==
  ASSUME StreamsInv, UNCHANGED <<seen, down, read_buffer, torn, link>>,
         \A c \in Client : \A q \in AnyPiece : NextFor(c, q) => NextFor(c, q)'
  PROVE  StreamsInv'
<1>1. ASSUME NEW c \in Client PROVE \E q \in AnyPiece : NextFor(c, q)' /\ Streams(c, q)'
  <2>1. PICK q \in AnyPiece : NextFor(c, q) /\ Streams(c, q)
    BY DEF StreamsInv
  <2>2. Streams(c, q)'
    BY <2>1 DEF Streams
  <2> QED  BY <2>1, <2>2
<1> QED  BY <1>1 DEF StreamsInv

\* What is blank stays so, and so does what is written.
LEMMA BlankKept ==
  ASSUME BlankInv, WrittenInv, UNCHANGED <<seen, down, read_buffer, torn, link>>,
         UNCHANGED backlog \/ backlog' = <<>>, tick \in Nat, tick' \in Nat, tick <= tick', LinkTypes
  PROVE  BlankInv' /\ WrittenInv'
<1>1. \A c \in Client : link'[c] # "on" => Blank(c)'
  BY DEF BlankInv, Blank
<1>2. \A j \in 1..Len(backlog') : Blank(backlog[j])'
  <2>1. ASSUME NEW j \in 1..Len(backlog') PROVE Blank(backlog[j])'
    <3>1. j \in 1..Len(backlog) /\ backlog' = backlog
      OBVIOUS
    <3>2. Blank(backlog[j])
      BY <3>1 DEF BlankInv
    <3> QED  BY <3>1, <3>2 DEF Blank
  <2> QED  BY <2>1
<1>3. WrittenInv'
  <2>1. ASSUME NEW c \in Client, NEW k \in 1..Len(down'[c]) PROVE down'[c][k].of <= tick'
    <3>1. down[c][k].of <= tick /\ down[c][k] \in Piece
      BY DEF WrittenInv, LinkTypes
    <3>2. PICK p \in Piece : p = down[c][k]
      BY <3>1
    <3> QED  BY <3>1, <3>2 DEF Piece
  <2> QED  BY <2>1 DEF WrittenInv
<1> QED  BY <1>1, <1>2, <1>3 DEF BlankInv

\* While nothing is written, the next snapshot is next for every client.
LEMMA NextIdle ==
  ASSUME pc # "write"
  PROVE  \A j : NextPiece(j) = [of |-> tick + 1, no |-> 1]
BY DEF NextPiece

\* Accepting, draining and the end of the broadcast.
LEMMA ViewIdle ==
  ASSUME TypesInv, SeatsInv, ViewInv, Accept \/ Drain \/ DrainTorn \/ Drained \/ Written
  PROVE  ViewInv'
<1>1. LinkTypes /\ LoopTypes /\ tick \in Nat /\ Len(clients) \in Nat /\ Len(backlog) \in Nat
  BY DEF TypesInv, Types, LinkTypes, VmTypes, tick
<1>2. StreamsInv /\ WrittenInv /\ BlankInv /\ PartInv
  BY DEF ViewInv
<1>3. /\ UNCHANGED <<seen, down, read_buffer, torn, link, snaps, part>>
      /\ UNCHANGED backlog \/ backlog' = <<>>
  BY DEF Accept, Drain, DrainTorn, Drained, Written, loopVars, vmVars, viewVars
<1>4. tick' = tick
  BY <1>3 DEF tick
<1>5. BlankInv' /\ WrittenInv'
  BY <1>1, <1>2, <1>3, <1>4, BlankKept
<1>6. PartInv'
  BY <1>1, <1>2, <1>3
     DEF PartInv, Accept, Drain, DrainTorn, Drained, Written, loopVars, LoopTypes
<1>7. ASSUME \A c \in Client : \A q \in AnyPiece : NextFor(c, q) => NextFor(c, q)'
      PROVE  ViewInv'
  <2>1. StreamsInv'
    BY <1>2, <1>3, <1>7, StreamsKept
  <2> QED  BY <1>5, <1>6, <2>1 DEF ViewInv
<1>8. pc' # "write"
  BY DEF Accept, Drain, DrainTorn, Drained, Written, loopVars
<1>9. \A j : NextPiece(j)' = [of |-> tick + 1, no |-> 1]
  BY <1>4, <1>8 DEF NextPiece
<1>10. CASE Accept
  <2>1. clients' = clients \o backlog /\ pc = "accept"
    BY <1>10 DEF Accept
  <2>2. /\ Len(clients') = Len(clients) + Len(backlog)
        /\ \A i \in 1..(Len(clients) + Len(backlog)) :
              clients'[i] = IF i <= Len(clients) THEN clients[i] ELSE backlog[i - Len(clients)]
    BY <1>1, <2>1, ConcatProperties DEF LinkTypes
  <2>3. PICK p \in AnyPiece : p = [of |-> tick + 1, no |-> 1]
    <3>1. tick + 1 \in Nat \ {0} /\ 1 \in 1..Parts
      BY <1>1, PartsAssumption
    <3> QED  BY <3>1 DEF AnyPiece
  <2>4. \A j : NextPiece(j) = p /\ NextPiece(j)' = p
    BY <1>9, <2>1, <2>3, NextIdle
  <2>5. ASSUME NEW c \in Client PROVE \E q \in AnyPiece : NextFor(c, q)' /\ Streams(c, q)'
    <3>1. CASE \E i \in 1..Len(backlog) : backlog[i] = c
      <4>1. Blank(c)
        BY <1>2, <3>1 DEF BlankInv
      <4>2. Streams(c, p)
        BY <2>3, <4>1, StreamAlone
      <4>3. Streams(c, p)'
        BY <1>3, <4>2 DEF Streams
      <4>4. NextFor(c, p)'
        BY <2>4 DEF NextFor
      <4> QED  BY <4>3, <4>4
    <3>2. CASE ~ \E i \in 1..Len(backlog) : backlog[i] = c
      <4>1. PICK q \in AnyPiece : NextFor(c, q) /\ Streams(c, q)
        BY <1>2 DEF StreamsInv
      <4>2. Streams(c, q)'
        BY <1>3, <4>1 DEF Streams
      <4>3. ASSUME NEW i \in 1..Len(clients'), clients'[i] = c PROVE q = NextPiece(i)'
        <5>1. i \in 1..(Len(clients) + Len(backlog)) /\ i \in Int
          BY <1>1, <2>2
        <5>2. i <= Len(clients)
          <6>1. CASE ~ i <= Len(clients)
            <7>1. i - Len(clients) \in 1..Len(backlog)
              BY <1>1, <5>1, <6>1
            <7> QED  BY <2>2, <3>2, <4>3, <5>1, <6>1, <7>1
          <6> QED  BY <6>1
        <5>3. i \in 1..Len(clients) /\ clients[i] = c
          BY <1>1, <2>2, <4>3, <5>1, <5>2
        <5> QED  BY <2>4, <4>1, <5>3 DEF NextFor
      <4> QED  BY <4>2, <4>3 DEF NextFor
    <3> QED  BY <3>1, <3>2
  <2>6. StreamsInv'
    BY <2>5 DEF StreamsInv
  <2> QED  BY <1>5, <1>6, <2>6 DEF ViewInv
<1>11. CASE Drain \/ DrainTorn
  <2>1. pc = "drain" /\ at \in 1..Len(clients)
        /\ (clients' = clients \/ clients' = RemoveAt(clients, at))
    BY <1>1, <1>11 DEF Drain, DrainTorn, LoopTypes
  <2>2. \A j \in 1..Len(clients') : \E i \in 1..Len(clients) : clients'[j] = clients[i]
    <3>1. CASE clients' = RemoveAt(clients, at)
      <4>1. /\ Len(RemoveAt(clients, at)) = Len(clients) - 1
            /\ \A j \in 1..(Len(clients) - 1) :
                  RemoveAt(clients, at)[j] = IF j < at THEN clients[j] ELSE clients[j + 1]
        BY <1>1, <2>1, RemoveAtFacts DEF LinkTypes
      <4>2. \A j \in 1..(Len(clients) - 1) : j \in 1..Len(clients) /\ j + 1 \in 1..Len(clients)
        BY <1>1
      <4> QED  BY <3>1, <4>1, <4>2
    <3> QED  BY <2>1, <3>1
  <2>3. \A i, j : NextPiece(i) = NextPiece(j)'
    BY <1>9, <2>1, NextIdle
  <2> QED  BY <1>7, <2>2, <2>3 DEF NextFor
<1>12. CASE Drained
  <2>1. pc # "write" /\ clients' = clients
    BY <1>12 DEF Drained
  <2> QED  BY <1>7, <1>9, <2>1, NextIdle DEF NextFor
<1>13. CASE Written
  <2>1. pc = "write" /\ at > Len(clients) /\ clients' = clients
    BY <1>13 DEF Written
  <2>2. \A j \in 1..Len(clients) : NextPiece(j) = [of |-> tick + 1, no |-> 1]
    BY <1>1, <2>1 DEF NextPiece, LoopTypes
  <2> QED  BY <1>7, <1>9, <2>1, <2>2 DEF NextFor
<1> QED  BY <1>10, <1>11, <1>12, <1>13


\* A tick: the snapshot that was to come is there to be written.
LEMMA ViewTick ==
  ASSUME TypesInv, SeatsInv, ViewInv, Tick
  PROVE  ViewInv'
<1>1. LinkTypes /\ VmTypes /\ tick \in Nat /\ Len(clients) \in Nat /\ RuntimeInv
  BY DEF TypesInv, Types, LinkTypes, VmTypes, tick
<1>2. StreamsInv /\ WrittenInv /\ BlankInv /\ PartInv
  BY DEF ViewInv
<1>3. pc = "tick" /\ pc' = "write" /\ at = 1 /\ at' = 1 /\ part = 1 /\ part' = 1
  BY <1>2 DEF Tick, PartInv, SeatsInv, LoopInv
<1>4. UNCHANGED <<seen, down, read_buffer, torn, link, backlog, clients>>
  BY DEF Tick, viewVars
<1>5. tick' = tick + 1
  <2>1. PICK vm \in Seq(Nat \X Nat) :
          snaps' = Append(snaps, [vm |-> vm, lines |-> pending, answers |-> commands])
    BY <1>1, TickFacts
  <2> QED  BY <1>1, <2>1 DEF tick, VmTypes
<1>6. BlankInv' /\ WrittenInv'
  BY <1>1, <1>2, <1>4, <1>5, BlankKept
<1>7. \A j \in 1..Len(clients) :
        NextPiece(j) = [of |-> tick + 1, no |-> 1] /\ NextPiece(j)' = [of |-> tick + 1, no |-> 1]
  BY <1>1, <1>3, <1>5 DEF NextPiece
<1>8. StreamsInv'
  <2>1. \A c \in Client : \A q \in AnyPiece : NextFor(c, q) => NextFor(c, q)'
    BY <1>4, <1>7 DEF NextFor
  <2> QED  BY <1>2, <1>4, <2>1, StreamsKept
<1> QED  BY <1>3, <1>6, <1>8 DEF ViewInv, PartInv

\* The pieces in a socket are among those there may be.
LEMMA SocketPieces ==
  ASSUME LinkTypes, NEW c \in Client
  PROVE  down[c] \in Seq(AnyPiece)
<1>1. PICK d \in Seq(Piece) : d = down[c]
  BY DEF LinkTypes
<1>2. \A x \in Piece : x \in AnyPiece
  BY BoundAssumption DEF Piece, AnyPiece
<1>3. d \in Seq(AnyPiece)
  BY <1>2
<1> QED  BY <1>1, <1>3

\* Writing: a client that is dropped leaves the others where they are.
LEMMA ViewDropped ==
  ASSUME TypesInv, SeatsInv, ViewInv, pc = "write", at \in 1..Len(clients),
         clients' = RemoveAt(clients, at), at' = at, part' = 1,
         UNCHANGED <<pc, seen, down, read_buffer, torn, link, backlog, snaps>>
  PROVE  ViewInv'
<1>1. LinkTypes /\ LoopTypes /\ tick \in Nat /\ Len(clients) \in Nat /\ tick' = tick
  BY DEF TypesInv, Types, LinkTypes, VmTypes, tick
<1>2. StreamsInv /\ WrittenInv /\ BlankInv
  BY DEF ViewInv
<1>3. BlankInv' /\ WrittenInv'
  BY <1>1, <1>2, BlankKept
<1>4. /\ Len(clients') = Len(clients) - 1
      /\ \A j \in 1..(Len(clients) - 1) :
            clients'[j] = IF j < at THEN clients[j] ELSE clients[j + 1]
  BY <1>1, RemoveAtFacts DEF LinkTypes
<1>5. ASSUME NEW j \in 1..(Len(clients) - 1)
      PROVE  \E i \in 1..Len(clients) : clients[i] = clients'[j] /\ NextPiece(i) = NextPiece(j)'
  <2>1. j \in 1..Len(clients) /\ j + 1 \in 1..Len(clients) /\ at \in Nat
    BY <1>1
  <2>2. CASE j < at
    BY <1>1, <1>4, <2>1, <2>2 DEF NextPiece
  <2>3. CASE ~ j < at
    <3>1. clients'[j] = clients[j + 1] /\ at <= j /\ at <= j + 1 /\ at # j + 1
      BY <1>4, <2>1, <2>3
    <3>2. NextPiece(j + 1) = [of |-> tick, no |-> 1] /\ NextPiece(j)' = [of |-> tick, no |-> 1]
      BY <1>1, <3>1 DEF NextPiece
    <3> QED  BY <2>1, <3>1, <3>2
  <2> QED  BY <2>2, <2>3
<1>6. StreamsInv'
  <2>1. ASSUME NEW c \in Client, NEW q \in AnyPiece, NextFor(c, q) PROVE NextFor(c, q)'
    BY <1>4, <1>5, <2>1 DEF NextFor
  <2> QED  BY <1>2, <2>1, StreamsKept
<1> QED  BY <1>3, <1>6 DEF ViewInv, PartInv

\* Writing a piece: it is the next one, and the one after it follows.
LEMMA ViewWritten ==
  ASSUME TypesInv, SeatsInv, ViewInv, pc = "write", at \in 1..Len(clients), NEW c \in Client,
         c = clients[at], link[c] # "closed",
         down' = [down EXCEPT ![c] = Append(@, [of |-> tick, no |-> part])],
         IF part = Parts THEN at' = at + 1 /\ part' = 1 ELSE part' = part + 1 /\ at' = at,
         UNCHANGED <<pc, clients, seen, read_buffer, torn, link, backlog, snaps>>
  PROVE  ViewInv'
<1>1. /\ LinkTypes /\ LoopTypes /\ ViewTypes /\ tick \in Nat /\ Len(clients) \in Nat
      /\ tick' = tick /\ tick \in 1..MaxTick /\ part \in 1..Parts /\ at \in Nat
  <2>1. tick >= 1 /\ tick <= MaxTick
    BY DEF TypesInv, Types, TickInv
  <2>2. LinkTypes /\ LoopTypes /\ ViewTypes /\ VmTypes
    BY DEF TypesInv, Types
  <2>3. tick \in Nat /\ Len(clients) \in Nat /\ tick' = tick
    BY <2>2 DEF LinkTypes, VmTypes, tick
  <2>4. tick \in 1..MaxTick
    BY <2>1, <2>3, BoundAssumption
  <2>5. part \in 1..Parts /\ at \in Nat
    BY <2>2 DEF LoopTypes
  <2> QED  BY <2>2, <2>3, <2>4, <2>5
<1>2. StreamsInv /\ WrittenInv /\ BlankInv /\ SeatInv
  BY DEF ViewInv, SeatsInv
<1>3. PICK p \in Piece : p = [of |-> tick, no |-> part] /\ p \in AnyPiece
  BY <1>1, BoundAssumption DEF Piece, AnyPiece
<1>4. PICK a \in 1..Len(clients) : a = at
  OBVIOUS
<1>5. PICK n \in AnyPiece : n = NextPiece(a)' /\ Follows(p, n) /\ p = NextPiece(a)
  <2>1. p = NextPiece(a)
    BY <1>1, <1>3, <1>4 DEF NextPiece
  <2>2. CASE part = Parts
    <3>1. at' = a + 1 /\ ~ at' <= a /\ at' # a
      BY <1>1, <1>4, <2>2
    <3>2. NextPiece(a)' = [of |-> tick + 1, no |-> 1]
      BY <1>1, <3>1 DEF NextPiece
    <3>3. tick + 1 \in Nat \ {0} /\ 1 \in 1..Parts
      BY <1>1, PartsAssumption
    <3>4. [of |-> tick + 1, no |-> 1] \in AnyPiece
      BY <3>3 DEF AnyPiece
    <3> QED  BY <1>3, <2>1, <2>2, <3>2, <3>4 DEF Follows
  <2>3. CASE part # Parts
    <3>1. NextPiece(a)' = [of |-> tick, no |-> part + 1]
      BY <1>1, <1>4, <2>3 DEF NextPiece
    <3>2. part + 1 \in 1..Parts /\ tick \in Nat \ {0}
      BY <1>1, <2>3, PartsAssumption
    <3>3. [of |-> tick, no |-> part + 1] \in AnyPiece
      BY <3>2 DEF AnyPiece
    <3> QED  BY <1>3, <2>1, <2>3, <3>1, <3>3 DEF Follows
  <2> QED  BY <2>2, <2>3
<1>6. \A j \in 1..Len(clients) : j # a => NextPiece(j)' = NextPiece(j)
  <2>1. CASE part = Parts
    BY <1>1, <1>4, <2>1 DEF NextPiece
  <2>2. CASE part # Parts
    BY <1>1, <1>4, <2>2 DEF NextPiece
  <2> QED  BY <2>1, <2>2
<1>7. down'[c] = Append(down[c], p) /\ \A d \in Client \ {c} : down'[d] = down[d]
  BY <1>1, <1>3 DEF LinkTypes
<1>8. NextFor(c, n)' /\ Streams(c, n)'
  <2>1. Streams(c, p)
    <3>1. PICK q \in AnyPiece : NextFor(c, q) /\ Streams(c, q)
      BY <1>2 DEF StreamsInv
    <3>2. q = p
      BY <1>4, <1>5, <3>1 DEF NextFor
    <3> QED  BY <3>1, <3>2
  <2>2. PICK s \in Seq(AnyPiece) : s = Append(down[c], p) /\ s # <<>> /\ s[Len(s)] = p
    <3>1. PICK d \in Seq(AnyPiece) : d = down[c]
      BY <1>1, SocketPieces
    <3>2. /\ Append(d, p) \in Seq(AnyPiece) /\ Append(d, p) # <<>>
          /\ Len(Append(d, p)) = Len(d) + 1 /\ Append(d, p)[Len(d) + 1] = p
      BY <1>3, AppendProperties
    <3> QED  BY <3>1, <3>2
  <2>3. seen[c] \in Seq(1..MaxTick) /\ read_buffer[c] \in Seq(Piece)
    BY <1>1 DEF ViewTypes
  <2>4. Follows(s[Len(s)], n)
    BY <1>5, <2>2
  <2>5. /\ Ahead(seen[c], s, 0) => Ahead(seen[c], Append(s, n), 0)
        /\ InLine(read_buffer[c], seen[c], s, 0) => InLine(read_buffer[c], seen[c], Append(s, n), 0)
    BY <2>2, <2>3, <2>4, StreamMore
  <2>6. Streams(c, n)'
    BY <1>7, <2>1, <2>2, <2>5 DEF Streams
  <2>7. NextFor(c, n)'
    <3>1. \A j \in 1..Len(clients) : clients[j] = c => j = a
      BY <1>2, <1>4 DEF SeatInv
    <3> QED  BY <1>5, <3>1 DEF NextFor
  <2> QED  BY <2>6, <2>7
<1>9. ASSUME NEW d \in Client \ {c} PROVE \E q \in AnyPiece : NextFor(d, q)' /\ Streams(d, q)'
  <2>1. PICK q \in AnyPiece : NextFor(d, q) /\ Streams(d, q)
    BY <1>2 DEF StreamsInv
  <2>2. Streams(d, q)'
    BY <1>7, <2>1 DEF Streams
  <2>3. NextFor(d, q)'
    <3>1. clients[a] = c /\ clients' = clients
      BY <1>4
    <3> QED  BY <1>6, <2>1, <3>1 DEF NextFor
  <2> QED  BY <2>2, <2>3
<1>10. StreamsInv'
  <2>1. ASSUME NEW d \in Client PROVE \E q \in AnyPiece : NextFor(d, q)' /\ Streams(d, q)'
    BY <1>8, <1>9
  <2> QED  BY <2>1 DEF StreamsInv
<1>11. WrittenInv'
  <2>1. ASSUME NEW k \in 1..Len(down'[c]) PROVE down'[c][k].of <= tick
    <3>1. PICK m \in Nat : m = Len(down[c])
      BY <1>1 DEF LinkTypes
    <3>2. Len(down'[c]) = m + 1 /\ down'[c][m + 1] = p /\ \A i \in 1..m : down'[c][i] = down[c][i]
      BY <1>1, <1>3, <1>7, <3>1 DEF LinkTypes
    <3>3. CASE k = m + 1
      BY <1>1, <1>3, <3>2, <3>3
    <3>4. CASE k # m + 1
      <4>1. k \in 1..m
        BY <2>1, <3>2, <3>4
      <4> QED  BY <1>2, <3>1, <3>2, <4>1 DEF WrittenInv
    <3> QED  BY <3>3, <3>4
  <2> QED  BY <1>1, <1>2, <1>7, <2>1 DEF WrittenInv
<1>12. BlankInv'
  <2>1. link[c] = "on" /\ \A j \in 1..Len(backlog) : backlog[j] # c /\ backlog[j] \in Client
    BY <1>1, <1>2 DEF SeatInv, LinkTypes
  <2>2. \A d \in Client \ {c} : Blank(d) => Blank(d)'
    BY <1>7 DEF Blank
  <2> QED  BY <1>2, <2>1, <2>2 DEF BlankInv
<1>13. PartInv'
  BY <1>1 DEF PartInv
<1> QED  BY <1>10, <1>11, <1>12, <1>13 DEF ViewInv

\* A step of the daemon.
LEMMA ViewDaemon ==
  ASSUME TypesInv, SeatsInv, ViewInv, Daemon
  PROVE  ViewInv'
<1>1. CASE Write
  <2>1. LinkTypes /\ LoopTypes
    BY DEF TypesInv, Types
  <2>2. pc = "write" /\ at \in 1..Len(clients)
    BY <1>1, <2>1 DEF Write, LoopTypes, LinkTypes
  <2>3. PICK c \in Client : c = clients[at]
    BY <2>1, <2>2, ClientAt
  <2>4. UNCHANGED <<pc, seen, read_buffer, torn, link, backlog, snaps>>
    BY <1>1 DEF Write, vmVars, viewVars
  <2>5. \/ clients' = RemoveAt(clients, at) /\ at' = at /\ part' = 1 /\ UNCHANGED down
        \/ /\ link[c] # "closed" /\ UNCHANGED clients
           /\ down' = [down EXCEPT ![c] = Append(@, [of |-> tick, no |-> part])]
           /\ IF part = Parts THEN at' = at + 1 /\ part' = 1 ELSE part' = part + 1 /\ at' = at
    BY <1>1, <2>3 DEF Write, AfterRemoval
  <2>6. CASE clients' = RemoveAt(clients, at) /\ at' = at /\ part' = 1 /\ UNCHANGED down
    BY <2>2, <2>4, <2>6, ViewDropped
  <2>7. CASE /\ link[c] # "closed" /\ UNCHANGED clients
             /\ down' = [down EXCEPT ![c] = Append(@, [of |-> tick, no |-> part])]
             /\ IF part = Parts THEN at' = at + 1 /\ part' = 1 ELSE part' = part + 1 /\ at' = at
    BY <2>2, <2>3, <2>4, <2>7, ViewWritten
  <2> QED  BY <2>5, <2>6, <2>7
<1> QED  BY <1>1, ViewIdle, ViewTick DEF Daemon


\* A step of one TUI, the others and the loop of the daemon being as they were.
LEMMA ViewElsewhere ==
  ASSUME ViewInv, NEW c \in Client, UNCHANGED <<pc, at, part, clients, snaps>>,
         \A d \in Client \ {c} : /\ down'[d] = down[d] /\ read_buffer'[d] = read_buffer[d]
                                 /\ seen'[d] = seen[d] /\ torn'[d] = torn[d] /\ link'[d] = link[d],
         \E q \in AnyPiece : NextFor(c, q) /\ Streams(c, q)',
         \A k \in 1..Len(down'[c]) : down'[c][k].of <= tick,
         link'[c] # "on" => Blank(c)',
         \A j \in 1..Len(backlog') : Blank(backlog[j])'
  PROVE  ViewInv'
<1>1. StreamsInv /\ WrittenInv /\ BlankInv /\ PartInv /\ tick' = tick
  BY DEF ViewInv, tick
<1>2. \A d : \A q : NextFor(d, q)' = NextFor(d, q)
  BY <1>1 DEF NextFor, NextPiece
<1>3. ASSUME NEW d \in Client \ {c} PROVE \E q \in AnyPiece : NextFor(d, q)' /\ Streams(d, q)'
  <2>1. PICK q \in AnyPiece : NextFor(d, q) /\ Streams(d, q)
    BY <1>1 DEF StreamsInv
  <2>2. Streams(d, q)'
    BY <2>1 DEF Streams
  <2> QED  BY <1>2, <2>1, <2>2
<1>4. StreamsInv'
  <2>1. ASSUME NEW d \in Client PROVE \E q \in AnyPiece : NextFor(d, q)' /\ Streams(d, q)'
    BY <1>2, <1>3
  <2> QED  BY <2>1 DEF StreamsInv
<1>5. WrittenInv'
  BY <1>1 DEF WrittenInv
<1>6. \A d \in Client : link'[d] # "on" => Blank(d)'
  <2>1. ASSUME NEW d \in Client \ {c}, link'[d] # "on" PROVE Blank(d)'
    BY <1>1, <2>1 DEF BlankInv, Blank
  <2> QED  BY <2>1
<1>7. BlankInv'
  BY <1>6 DEF BlankInv
<1>8. PartInv'
  BY <1>1 DEF PartInv
<1> QED  BY <1>4, <1>5, <1>7, <1>8 DEF ViewInv

\* A socket and what comes after it: the last piece is left.
LEMMA StreamEnd ==
  ASSUME NEW d \in Seq(AnyPiece), NEW q \in AnyPiece
  PROVE  /\ Append(d, q) \in Seq(AnyPiece) /\ Len(Append(d, q)) = Len(d) + 1
         /\ Append(d, q)[Len(d) + 1] = q /\ \A k \in 1..Len(d) : Append(d, q)[k] = d[k]
         /\ <<q>> \in Seq(AnyPiece) /\ Rests(Append(d, q), Len(d), <<q>>)
<1>1. PICK m \in Nat : m = Len(d)
  OBVIOUS
<1>2. PICK s \in Seq(AnyPiece) : s = Append(d, q)
  BY AppendProperties
<1>3. Len(s) = m + 1 /\ s[m + 1] = q /\ \A k \in 1..m : s[k] = d[k]
  BY <1>1, <1>2
<1>4. PICK t \in Seq(AnyPiece) : t = <<q>>
  <2>1. <<q>> \in Seq(AnyPiece)
    OBVIOUS
  <2> QED  BY <2>1
<1>5. Len(t) = 1 /\ t[1] = q
  BY <1>4
<1>6. Rests(s, m, t)
  BY <1>3, <1>5 DEF Rests
<1> QED  BY <1>1, <1>2, <1>3, <1>4, <1>6

\* The pieces after a lost one are left.
LEMMA StreamTorn ==
  ASSUME NEW d \in Seq(AnyPiece), NEW q \in AnyPiece, NEW n \in 0..(Len(d) - 1)
  PROVE  \E u, t \in Seq(AnyPiece) :
           /\ u = SubSeq(d, n + 2, Len(d)) /\ t = Append(u, q)
           /\ Rests(Append(d, q), n + 1, t)
           /\ \A k \in 1..Len(u) : \E j \in 1..Len(d) : u[k] = d[j]
<1>1. PICK m \in Nat : m = Len(d)
  OBVIOUS
<1>2. \A k \in 1..m : d[k] \in AnyPiece
  BY <1>1, ElementOfSeq
<1>3. PICK u \in Seq(AnyPiece) :
        /\ u = SubSeq(d, n + 2, Len(d)) /\ Len(u) = m - (n + 1)
        /\ \A k \in 1..(m - (n + 1)) : u[k] = d[(n + 1) + k]
  <2>1. PICK u : u = SubSeq(d, n + 2, m)
    OBVIOUS
  <2>2. /\ u \in Seq(AnyPiece) /\ Len(u) = m - (n + 1)
        /\ \A k \in 1..(m - (n + 1)) : u[k] = d[(n + 1) + k]
    BY <1>1, <1>2, <2>1
  <2> QED  BY <1>1, <2>1, <2>2
<1>4. PICK l \in Nat : l = m - (n + 1) /\ m = (n + 1) + l
  <2>1. n \in Nat /\ n + 1 <= m
    BY <1>1
  <2>2. m - (n + 1) \in Nat /\ m = (n + 1) + (m - (n + 1))
    BY <2>1
  <2> QED  BY <2>2
<1>5. PICK t \in Seq(AnyPiece) : t = Append(u, q)
  BY AppendProperties
<1>6. /\ Len(t) = l + 1 /\ t[l + 1] = q
      /\ \A k \in 1..l : t[k] = u[k]
  BY <1>3, <1>4, <1>5
<1>7. PICK s : s = Append(d, q)
  OBVIOUS
<1>8. Len(s) = m + 1 /\ s[m + 1] = q /\ \A k \in 1..m : s[k] = d[k]
  BY <1>1, <1>7
<1>9. ASSUME NEW k \in 1..(l + 1) PROVE t[k] = s[(n + 1) + k]
  <2>1. CASE k = l + 1
    <3>1. (n + 1) + k = m + 1
      BY <1>4, <2>1
    <3> QED  BY <1>6, <1>8, <2>1, <3>1
  <2>2. CASE k # l + 1
    <3>1. k \in 1..l /\ (n + 1) + k \in 1..m
      BY <1>4, <2>2
    <3> QED  BY <1>3, <1>4, <1>6, <1>8, <3>1
  <2> QED  BY <2>1, <2>2
<1>10. Len(s) = (n + 1) + Len(t)
  BY <1>4, <1>6, <1>8
<1>11. Rests(s, n + 1, t)
  BY <1>6, <1>9, <1>10 DEF Rests
<1>12. \A k \in 1..Len(u) : \E j \in 1..Len(d) : u[k] = d[j]
  <2>1. ASSUME NEW k \in 1..Len(u) PROVE \E j \in 1..Len(d) : u[k] = d[j]
    <3>1. k \in 1..(m - (n + 1)) /\ (n + 1) + k \in 1..m
      BY <1>3, <1>4
    <3> QED  BY <1>1, <1>3, <3>1
  <2> QED  BY <2>1
<1> QED  BY <1>3, <1>5, <1>7, <1>11, <1>12

\* Decoding some of the pieces of a socket, and losing at most the next.
LEMMA ViewDecoded ==
  ASSUME TypesInv, TypesInv', ViewInv, NEW c \in Client, link[c] = "on", down[c] # <<>>,
         NEW n \in 0..Len(down[c]), Decode(c, n), UNCHANGED <<pc, at, part, clients, snaps, link, backlog>>,
         \/ n = Len(down[c]) /\ down' = [down EXCEPT ![c] = <<>>] /\ UNCHANGED torn
         \/ /\ n < Len(down[c]) /\ down' = [down EXCEPT ![c] = SubSeq(@, n + 2, Len(@))]
            /\ torn' = [torn EXCEPT ![c] = TRUE]
  PROVE  ViewInv'
<1>1. /\ LinkTypes /\ ViewTypes /\ tick \in Nat /\ LinkTypes' /\ ViewTypes'
      /\ StreamsInv /\ WrittenInv /\ BlankInv
  BY DEF TypesInv, Types, ViewInv, VmTypes, tick
<1>2. PICK q \in AnyPiece : NextFor(c, q) /\ Streams(c, q)
  BY <1>1 DEF StreamsInv
<1>3. PICK m \in Nat : m = Len(down[c])
  BY <1>1 DEF LinkTypes
<1>4. PICK d \in Seq(AnyPiece) : d = down[c]
  BY <1>1, SocketPieces
<1>5. PICK s \in Seq(AnyPiece) : s = Append(d, q)
  BY StreamEnd
<1>6. /\ Len(d) = m /\ Len(s) = m + 1 /\ s[m + 1] = q /\ \A k \in 1..m : s[k] = d[k]
      /\ <<q>> \in Seq(AnyPiece) /\ Rests(s, m, <<q>>)
  BY <1>3, <1>4, <1>5, StreamEnd
<1>7. Ahead(seen[c], s, 0) /\ (~ torn[c] => InLine(read_buffer[c], seen[c], s, 0))
  BY <1>2, <1>4, <1>5 DEF Streams
<1>8. \A k \in 1..Len(down[c]) : down[c][k].of <= tick
  BY <1>1 DEF WrittenInv
<1>9. /\ Ahead(Decoding(c, n).seen, s, n)
      /\ InLine(read_buffer[c], seen[c], s, 0) =>
           InLine(Decoding(c, n).line, Decoding(c, n).seen, s, n)
  BY <1>1, <1>4, <1>5, <1>7, <1>8, DecodingStreams
<1>10. /\ read_buffer'[c] = Decoding(c, n).line /\ seen'[c] = Decoding(c, n).seen
       /\ \A e \in Client \ {c} : read_buffer'[e] = read_buffer[e] /\ seen'[e] = seen[e]
  BY <1>1 DEF Decode, ViewTypes
<1>11. PICK view \in Seq(1..MaxTick) : view = seen'[c]
  BY <1>1 DEF ViewTypes
<1>12. \A e \in Client \ {c} : down'[e] = down[e] /\ torn'[e] = torn[e]
  <2>1. \A e \in Client \ {c} : down'[e] = down[e]
    BY <1>1 DEF LinkTypes
  <2>2. UNCHANGED torn \/ torn' = [torn EXCEPT ![c] = TRUE]
    OBVIOUS
  <2>3. \A e \in Client \ {c} : torn'[e] = torn[e]
    BY <1>1, <2>2, Zenon DEF ViewTypes
  <2> QED  BY <2>1, <2>3
<1>13. Streams(c, q)' /\ \A k \in 1..Len(down'[c]) : down'[c][k].of <= tick
  <2>1. CASE n = Len(down[c]) /\ down' = [down EXCEPT ![c] = <<>>] /\ UNCHANGED torn
    <3>1. down'[c] = <<>> /\ Append(<<>>, q) = <<q>> /\ n = m
      BY <1>1, <1>3, <2>1 DEF LinkTypes
    <3>2. Ahead(view, <<q>>, 0)
      <4>1. Ahead(view, s, m)
        BY <1>9, <1>10, <1>11, <3>1
      <4> QED  BY <1>6, <4>1, AheadRest
    <3>3. ~ torn[c] => InLine(read_buffer'[c], view, <<q>>, 0)
      <4>1. ASSUME ~ torn[c] PROVE InLine(read_buffer'[c], view, <<q>>, 0)
        <5>1. InLine(read_buffer'[c], view, s, m)
          BY <1>7, <1>9, <1>10, <1>11, <3>1, <4>1
        <5>2. InLine(read_buffer'[c], view, <<s[m + 1]>>, 0)
          BY <1>6, <5>1, InLineRest
        <5> QED  BY <1>6, <5>2
      <4> QED  BY <4>1
    <3>4. torn'[c] = torn[c]
      BY <2>1
    <3>5. Streams(c, q)'
      BY <1>11, <3>1, <3>2, <3>3, <3>4 DEF Streams
    <3> QED  BY <3>1, <3>5
  <2>2. CASE /\ n < Len(down[c]) /\ down' = [down EXCEPT ![c] = SubSeq(@, n + 2, Len(@))]
             /\ torn' = [torn EXCEPT ![c] = TRUE]
    <3>1. PICK b \in 0..(Len(d) - 1) : b = n
      BY <1>3, <1>6, <2>2
    <3>2. PICK u \in Seq(AnyPiece), t \in Seq(AnyPiece) :
            /\ u = SubSeq(d, b + 2, Len(d)) /\ t = Append(u, q)
            /\ Rests(Append(d, q), b + 1, t)
            /\ \A i \in 1..Len(u) : \E j \in 1..Len(d) : u[i] = d[j]
      BY StreamTorn
    <3>3. down'[c] = u /\ torn'[c] = TRUE
      BY <1>1, <1>4, <2>2, <3>1, <3>2 DEF LinkTypes, ViewTypes
    <3>4. Rests(s, n + 1, t)
      BY <1>5, <3>1, <3>2
    <3>5. Ahead(view, s, n + 1)
      <4>1. Ahead(view, s, n)
        BY <1>9, <1>10, <1>11
      <4>2. \A k \in ((n + 1) + 1)..Len(s) : k \in (n + 1)..Len(s)
        BY <1>6
      <4> QED  BY <4>1, <4>2 DEF Ahead
    <3>6. Ahead(view, t, 0)
      <4>1. n + 1 \in Nat
        OBVIOUS
      <4> QED  BY <3>4, <3>5, <4>1, AheadRest
    <3>7. Streams(c, q)'
      BY <1>11, <3>2, <3>3, <3>6 DEF Streams
    <3>8. \A i \in 1..Len(down'[c]) : down'[c][i].of <= tick
      <4>1. ASSUME NEW i \in 1..Len(u) PROVE u[i].of <= tick
        <5>1. PICK j \in 1..Len(d) : u[i] = d[j]
          BY <3>2
        <5> QED  BY <1>4, <1>8, <5>1
      <4> QED  BY <3>3, <4>1
    <3> QED  BY <3>7, <3>8
  <2> QED  BY <2>1, <2>2
<1>14. \A j \in 1..Len(backlog) : Blank(backlog[j])'
  <2>1. ASSUME NEW j \in 1..Len(backlog) PROVE Blank(backlog[j])'
    <3>1. Blank(backlog[j]) /\ backlog[j] \in Client
      BY <1>1 DEF BlankInv, LinkTypes
    <3>2. backlog[j] # c
      BY <3>1 DEF Blank
    <3> QED  BY <1>10, <1>12, <3>1, <3>2 DEF Blank
  <2> QED  BY <2>1
<1>15. link'[c] = "on" /\ backlog' = backlog /\ \A e \in Client \ {c} : link'[e] = link[e]
  OBVIOUS
<1> QED  BY <1>2, <1>10, <1>12, <1>13, <1>14, <1>15, ViewElsewhere


\* A step that changes none of it.
LEMMA ViewUnchanged ==
  ASSUME ViewInv,
         UNCHANGED <<pc, at, part, clients, snaps, backlog, seen, down, read_buffer, torn, link>>
  PROVE  ViewInv'
<1>1. tick' = tick
  BY DEF tick
<1>2. \A d : \A q : NextFor(d, q)' = NextFor(d, q)
  BY <1>1 DEF NextFor, NextPiece
<1>3. \A d : \A q : Streams(d, q)' = Streams(d, q)
  BY DEF Streams
<1>4. StreamsInv' = StreamsInv
  BY <1>2, <1>3 DEF StreamsInv
<1>5. WrittenInv' = WrittenInv
  BY <1>1 DEF WrittenInv
<1>6. BlankInv'
  BY DEF ViewInv, BlankInv, Blank
<1>7. PartInv' = PartInv
  BY DEF PartInv
<1> QED  BY <1>4, <1>5, <1>6, <1>7 DEF ViewInv

\* The steps of a TUI.
LEMMA ViewTui ==
  ASSUME TypesInv, TypesInv', SeatsInv, ViewInv, NEW c \in Client, Tui(c)
  PROVE  ViewInv'
<1>1. LinkTypes /\ ViewTypes /\ LinkTypes' /\ StreamsInv /\ WrittenInv /\ BlankInv /\ SeatInv
  BY DEF TypesInv, Types, ViewInv, SeatsInv
<1>2. UNCHANGED <<pc, at, part, clients, snaps>>
  BY DEF Tui, Connect, Close, Disconnect, Receive, ReceiveTorn, SendText, SendNewline,
         loopVars, vmVars
<1>3. CASE Connect(c)
  <2>1. /\ link[c] = "off" /\ link' = [link EXCEPT ![c] = "on"] /\ backlog' = Append(backlog, c)
        /\ UNCHANGED <<seen, down, read_buffer, torn>>
    BY <1>3 DEF Connect, viewVars
  <2>2. link'[c] = "on" /\ \A d \in Client \ {c} : link'[d] = link[d]
    BY <1>1, <2>1 DEF LinkTypes
  <2>3. Blank(c)
    BY <1>1, <2>1 DEF BlankInv
  <2>4. Blank(c)'
    BY <2>1, <2>3 DEF Blank
  <2>5. PICK q \in AnyPiece : q.no = 1
    <3>1. 1 \in Nat \ {0} /\ 1 \in 1..Parts
      BY PartsAssumption
    <3>2. [of |-> 1, no |-> 1] \in AnyPiece
      BY <3>1 DEF AnyPiece
    <3> QED  BY <3>2
  <2>6. Streams(c, q)
    BY <2>3, <2>5, StreamAlone
  <2>7. InLine(<<>>, <<>>, <<q>>, 0)
    BY <2>5 DEF InLine
  <2>8. Streams(c, q)'
    <3>1. Append(<<>>, q) = <<q>> /\ down[c] = <<>> /\ seen[c] = <<>> /\ read_buffer[c] = <<>>
      BY <2>3 DEF Blank
    <3> QED  BY <2>1, <2>6, <2>7, <3>1 DEF Streams
  <2>9. NextFor(c, q)
    BY <1>1, <2>1 DEF NextFor, SeatInv
  <2>10. \A j \in 1..Len(backlog') : Blank(backlog[j])'
    <3>1. ASSUME NEW j \in 1..Len(backlog') PROVE Blank(backlog[j])'
      <4>1. PICK n \in Nat : n = Len(backlog)
        BY <1>1 DEF LinkTypes
      <4>2. Len(backlog') = n + 1 /\ backlog'[n + 1] = c /\ \A i \in 1..n : backlog'[i] = backlog[i]
        BY <1>1, <2>1, <4>1 DEF LinkTypes
      <4>3. CASE j = n + 1
        BY <2>4, <4>2, <4>3 DEF Blank
      <4>4. CASE j # n + 1
        <5>1. j \in 1..n
          BY <3>1, <4>2, <4>4
        <5>2. Blank(backlog[j])
          BY <1>1, <4>1, <5>1 DEF BlankInv
        <5> QED  BY <2>1, <4>2, <5>1, <5>2 DEF Blank
      <4> QED  BY <4>3, <4>4
    <3> QED  BY <3>1
  <2>11. \A k \in 1..Len(down'[c]) : down'[c][k].of <= tick
    BY <1>1, <2>1 DEF WrittenInv
  <2> QED  BY <1>2, <2>1, <2>2, <2>4, <2>8, <2>9, <2>10, <2>11, ViewElsewhere
<1>4. ASSUME Disconnect(c) PROVE ViewInv'
  <2>1. /\ link' = [link EXCEPT ![c] = "closed"] /\ down' = [down EXCEPT ![c] = <<>>]
        /\ read_buffer' = [read_buffer EXCEPT ![c] = <<>>]
        /\ seen' = [seen EXCEPT ![c] = <<>>] /\ torn' = [torn EXCEPT ![c] = FALSE]
        /\ UNCHANGED backlog
    BY <1>4 DEF Disconnect
  <2>2. /\ link'[c] = "closed" /\ down'[c] = <<>>
        /\ \A d \in Client \ {c} : link'[d] = link[d] /\ down'[d] = down[d]
    BY <1>1, <2>1 DEF LinkTypes
  <2>3. /\ read_buffer'[c] = <<>> /\ seen'[c] = <<>>
        /\ \A d \in Client \ {c} : read_buffer'[d] = read_buffer[d] /\ seen'[d] = seen[d]
    BY <1>1, <2>1 DEF ViewTypes
  <2>4. torn'[c] = FALSE /\ \A d \in Client \ {c} : torn'[d] = torn[d]
    BY <1>1, <2>1, Zenon DEF ViewTypes
  <2>5. Blank(c)'
    BY <2>2, <2>3, <2>4 DEF Blank
  <2>6. \A j \in 1..Len(backlog') : Blank(backlog[j])'
    <3>1. ASSUME NEW j \in 1..Len(backlog) PROVE Blank(backlog[j])'
      <4>1. Blank(backlog[j]) /\ backlog[j] \in Client
        BY <1>1 DEF BlankInv, LinkTypes
      <4>2. CASE backlog[j] = c
        BY <2>1, <2>2, <2>3, <2>4, <4>2 DEF Blank
      <4>3. CASE backlog[j] # c
        BY <2>1, <2>2, <2>3, <2>4, <4>1, <4>3 DEF Blank
      <4> QED  BY <4>2, <4>3
    <3> QED  BY <2>1, <3>1
  <2>7. PICK q \in AnyPiece : NextFor(c, q) /\ Streams(c, q)
    BY <1>1 DEF StreamsInv
  <2>8. Streams(c, q)'
    <3>1. Append(<<>>, q) = <<q>> /\ Ahead(<<>>, <<q>>, 0)
      BY DEF Ahead
    <3> QED  BY <2>2, <2>3, <3>1 DEF Streams
  <2>9. \A k \in 1..Len(down'[c]) : down'[c][k].of <= tick
    BY <2>2
  <2> QED  BY <1>2, <2>2, <2>3, <2>4, <2>5, <2>6, <2>7, <2>8, <2>9, ViewElsewhere
<1>5. CASE Receive(c)
  <2>1. PICK n \in 0..Len(down[c]) : n = Len(down[c])
    BY <1>1 DEF LinkTypes
  <2>2. /\ link[c] = "on" /\ down[c] # <<>> /\ Decode(c, n)
        /\ down' = [down EXCEPT ![c] = <<>>] /\ UNCHANGED <<torn, link, backlog>>
    BY <1>5, <2>1 DEF Receive
  <2> QED  BY <1>2, <2>1, <2>2, ViewDecoded
<1>6. CASE ReceiveTorn(c) /\ ~ Disconnect(c)
  <2>1. PICK n \in 0..(Len(down[c]) - 1) :
          Decode(c, n) /\ down' = [down EXCEPT ![c] = SubSeq(@, n + 2, Len(@))]
    BY <1>6 DEF ReceiveTorn
  <2>2. /\ link[c] = "on" /\ down[c] # <<>> /\ torn' = [torn EXCEPT ![c] = TRUE]
        /\ UNCHANGED <<link, backlog>>
    BY <1>6 DEF ReceiveTorn
  <2>3. n \in 0..Len(down[c]) /\ n < Len(down[c])
    BY <1>1 DEF LinkTypes
  <2> QED  BY <1>2, <2>1, <2>2, <2>3, ViewDecoded
<1>7. CASE SendText(c) \/ SendNewline(c)
  <2>1. UNCHANGED <<backlog, seen, down, read_buffer, torn, link>>
    BY <1>7 DEF SendText, SendNewline, viewVars
  <2> QED  BY <1>2, <2>1, ViewUnchanged
<1> QED  BY <1>3, <1>4, <1>5, <1>6, <1>7 DEF Tui, Close

\* Every step.
LEMMA ViewStep ==
  ASSUME TypesInv, TypesInv', SeatsInv, ViewInv, [ServerNext]_serverVars
  PROVE  ViewInv'
<1>1. CASE UNCHANGED serverVars
  <2>1. UNCHANGED <<pc, at, part, clients, snaps, backlog, seen, down, read_buffer, torn, link>>
    BY <1>1 DEF serverVars, loopVars, vmVars, viewVars
  <2> QED  BY <2>1, ViewUnchanged
<1> QED  BY <1>1, ViewDaemon, ViewTui DEF ServerNext

\* Whatever the other clients do, and however the pieces of the snapshots are read, a TUI
\* sees one snapshot after the other, without a gap as long as it has lost no read, and none
\* twice if it has.
THEOREM ViewAlwaysGapless == ServerSpec => []ViewGapless
<1>1. ServerInit => ViewInv
  <2>1. ASSUME ServerInit PROVE ViewInv
    <3>1. /\ pc = "accept" /\ part = 1 /\ Len(clients) = 0 /\ Len(backlog) = 0
          /\ \A c \in Client : Blank(c) /\ down[c] = <<>>
      BY <2>1, Zenon DEF ServerInit, Blank
    <3>2. PICK q \in AnyPiece : q.no = 1
      <4>1. 1 \in Nat \ {0} /\ 1 \in 1..Parts
        BY PartsAssumption
      <4>2. [of |-> 1, no |-> 1] \in AnyPiece
        BY <4>1 DEF AnyPiece
      <4> QED  BY <4>2
    <3>3. \A c \in Client : NextFor(c, q) /\ Streams(c, q)
      BY <3>1, <3>2, StreamAlone DEF NextFor
    <3>4. StreamsInv
      BY <3>3 DEF StreamsInv
    <3>5. WrittenInv /\ BlankInv /\ PartInv
      BY <3>1 DEF WrittenInv, BlankInv, PartInv
    <3> QED  BY <3>4, <3>5 DEF ViewInv
  <2> QED  BY <2>1
<1>2. TypesInv /\ TypesInv' /\ SeatsInv /\ ViewInv /\ [ServerNext]_serverVars => ViewInv'
  BY ViewStep
<1>3. ASSUME TypesInv, ViewInv PROVE ViewGapless
  <2>1. SUFFICES ASSUME NEW c \in Client, NEW i \in 1..(Len(seen[c]) - 1)
                 PROVE  IF torn[c] THEN seen[c][i + 1] > seen[c][i]
                                   ELSE seen[c][i + 1] = seen[c][i] + 1
    BY DEF ViewGapless
  <2>2. ViewTypes /\ StreamsInv /\ BlankInv
    BY <1>3 DEF TypesInv, Types, ViewInv
  <2>3. PICK view \in Seq(1..MaxTick) : view = seen[c]
    BY <2>2 DEF ViewTypes
  <2>4. link[c] = "on"
    <3>1. CASE link[c] # "on"
      <4>1. Len(seen[c]) = 0
        BY <2>2, <3>1 DEF BlankInv, Blank
      <4> QED  BY <2>1, <4>1
    <3> QED  BY <3>1
  <2>5. PICK q \in AnyPiece : Streams(c, q)
    BY <2>2 DEF StreamsInv
  <2>6. i \in 1..(Len(view) - 1) /\ i \in 1..Len(view) /\ i + 1 \in 1..Len(view) /\ i < i + 1
    BY <2>1, <2>3
  <2>7. view[i] < view[i + 1]
    <3>1. Ahead(view, Append(down[c], q), 0)
      BY <2>3, <2>5 DEF Streams
    <3> QED  BY <2>6, <3>1 DEF Ahead
  <2>8. ~ torn[c] => view[i + 1] = view[i] + 1
    <3>1. ~ torn[c] => InLine(read_buffer[c], view, Append(down[c], q), 0)
      BY <2>3, <2>4, <2>5 DEF Streams
    <3> QED  BY <2>6, <3>1 DEF InLine
  <2>9. view[i] \in Nat /\ view[i + 1] \in Nat
    BY <2>6, ViewElement
  <2> QED  BY <2>3, <2>7, <2>8, <2>9
<1> QED  BY <1>1, <1>2, <1>3, TypesAlways, SeatsAlways, PTL DEF ServerSpec

=============================================================================

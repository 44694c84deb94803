------------------------------- MODULE Server -------------------------------
(***************************************************************************)
(* The request server of openhd_sys_utils.cpp: one thread that polls a     *)
(* Unix socket and its clients, accepts, reads, cuts what it reads into    *)
(* lines, handles each line and answers it.  What a handler does is the    *)
(* subject of the other modules; here a line is either asked (the handler  *)
(* answers, whatever the answer) or told (a status message, no answer).    *)
(*                                                                         *)
(* A byte is named by where it comes from, <<client, line, position>>, or  *)
(* is Newline: the properties can tell where the bytes of a line went.     *)
(* Clients write in pieces of any size, hang up at any byte, and read their*)
(* answers or do not.                                                      *)
(***************************************************************************)
EXTENDS Naturals, Sequences, FiniteSets, Functions

CONSTANTS
  Clients,    \* the peers, each of which connects once
  Scripts,    \* the sequences of lines a client may be about to send
  Newline,    \* the byte that ends a line
  None,       \* nothing
  MaxLine,    \* kMaxLineLength
  Chunk,      \* sizeof(readBuf)
  Pieces,     \* bound: the sizes of the pieces that clients write
  MaxHangUps, \* bound: clients that hang up before they have sent their lines
  MaxLost     \* bound: answers that sendAll gives up on

\* A read is not longer than a line may be (1024 and 4096 in the code), and the
\* newline is none of the other bytes.
ASSUME ServerAssumption ==
  /\ IsFiniteSet(Clients)
  /\ Scripts \subseteq Seq([len : Nat, ask : BOOLEAN])
  /\ Newline \notin Clients \X Nat \X Nat
  /\ {MaxLine, Chunk, MaxHangUps, MaxLost} \subseteq Nat
  /\ Pieces \subseteq Nat \ {0}
  /\ 0 < Chunk /\ Chunk <= MaxLine

VARIABLES
  script,     \* per client: the lines it sends, [len, ask]
  unsent,     \* per client: the bytes it has not written yet
  wire,       \* per client: the bytes in its socket, not yet read
  peer,       \* per client: "new", "open" or "gone" (has hung up)
  pending,    \* the clients that connected and wait to be accepted
  conn,       \* the client behind each open descriptor of the server
  buffers,    \* clientBuffers: the unfinished line of each descriptor
  pc,         \* the next step of main()
  polled,     \* the descriptors with events that the loop has yet to look at
  cur,        \* the descriptor the loop looks at, with its hang-up event
  line,       \* the line being handled
  stop,       \* gStopRequested
  handled,    \* history, per client: the lines handled on its connection
  answers,    \* per client: the numbers of the lines it was answered
  hangUps, lost  \* counters of the bounds

client == <<script, unsent, wire, peer>>
server == <<conn, buffers, polled, cur, line>>
vars == <<client, server, pending, pc, stop, handled, answers, hangUps, lost>>

-----------------------------------------------------------------------------
(* Data.                                                                   *)

Ask(n) == [len |-> n, ask |-> TRUE]
Tell(n) == [len |-> n, ask |-> FALSE]

\* The bytes of the i-th line of client c, and of all of them.
Text(c, i, n) == [k \in 1..n |-> <<c, i, k>>]
Bytes(c, s) ==
  LET upto[i \in 0..Len(s)] ==
        IF i = 0 THEN <<>> ELSE upto[i - 1] \o Text(c, i, s[i].len) \o <<Newline>>
  IN upto[Len(s)]

Prefix(s, n) == SubSeq(s, 1, IF n < Len(s) THEN n ELSE Len(s))
Drop(s, n) == SubSeq(s, n + 1, Len(s))

\* A slip: the buffer is never cut.
TrimNever(b) == b

\* A buffer without a newline that has grown beyond two lines keeps its end.
Trim(b) == IF Len(b) > 2 * MaxLine THEN Drop(b, Len(b) - MaxLine) ELSE b

HasLine(b) == \E k \in 1..Len(b) : b[k] = Newline
LineEnd(b) == CHOOSE k \in 1..Len(b) : b[k] = Newline /\ \A j \in 1..(k - 1) : b[j] # Newline

\* The lowest free descriptor, as the kernel gives them out.
FreeFd == CHOOSE n \in 1..(Cardinality(DOMAIN conn) + 1) :
            n \notin DOMAIN conn /\ \A m \in 1..(n - 1) : m \in DOMAIN conn

-----------------------------------------------------------------------------
(* Clients.                                                                *)

Connect(c) ==
  /\ peer[c] = "new" /\ pc # "exited"
  /\ peer' = [peer EXCEPT ![c] = "open"]
  /\ pending' = pending \cup {c}
  /\ UNCHANGED <<script, unsent, wire, server, pc, stop, handled, answers, hangUps, lost>>

Write(c) ==
  /\ peer[c] = "open" /\ pc # "exited"
  /\ unsent[c] # <<>>
  /\ \E n \in Pieces :
       /\ wire' = [wire EXCEPT ![c] = @ \o Prefix(unsent[c], n)]
       /\ unsent' = [unsent EXCEPT ![c] = Drop(@, n)]
  /\ UNCHANGED <<script, peer, server, pending, pc, stop, handled, answers, hangUps, lost>>

\* A client hangs up when it has sent everything, or early.  What it wrote
\* stays readable.
HangUp(c) ==
  /\ peer[c] = "open"
  /\ peer' = [peer EXCEPT ![c] = "gone"]
  /\ IF unsent[c] = <<>> THEN UNCHANGED hangUps
                         ELSE hangUps < MaxHangUps /\ hangUps' = hangUps + 1
  /\ UNCHANGED <<script, unsent, wire, server, pending, pc, stop, handled, answers, lost>>

\* SIGINT or SIGTERM.
Signal ==
  /\ ~stop /\ stop' = TRUE
  /\ UNCHANGED <<client, server, pending, pc, handled, answers, hangUps, lost>>

-----------------------------------------------------------------------------
(* The loop of main().                                                     *)

Ready(fd) == wire[conn[fd]] # <<>> \/ peer[conn[fd]] = "gone"

\* A slip: the loop goes back to poll() without a look at the flag.
ExitWhenIdle ==
  /\ pc = "poll" /\ stop /\ DOMAIN conn = {}
  /\ pc' = "exited" /\ pending' = {}
  /\ conn' = <<>> /\ buffers' = <<>>
  /\ UNCHANGED <<client, polled, cur, line, stop, handled, answers, hangUps, lost>>

\* Leave when a signal has come; else wait until something has happened.  The
\* descriptors to look at are fixed here, with a hang-up seen or not.
Exit ==
  /\ pc = "poll" /\ stop
  /\ pc' = "exited" /\ pending' = {}
  /\ conn' = <<>> /\ buffers' = <<>>
  /\ UNCHANGED <<client, polled, cur, line, stop, handled, answers, hangUps, lost>>

Poll ==
  /\ pc = "poll" /\ ~stop
  /\ pending # {} \/ \E fd \in DOMAIN conn : Ready(fd)
  /\ polled' = { [fd |-> fd, hup |-> peer[conn[fd]] = "gone"] :
                   fd \in {g \in DOMAIN conn : Ready(g)} }
  /\ pc' = IF pending = {} THEN "clients" ELSE "accept"
  /\ UNCHANGED <<client, conn, buffers, cur, line, pending, stop, handled, answers, hangUps, lost>>

\* The listening socket is the first descriptor looked at: every client that
\* waits is accepted, with an empty buffer unless its descriptor has one.
Accept ==
  /\ pc = "accept"
  /\ IF pending = {}
     THEN pc' = "clients" /\ UNCHANGED <<pending, conn, buffers>>
     ELSE \E c \in pending :
            /\ pending' = pending \ {c}
            /\ conn' = [fd \in DOMAIN conn \cup {FreeFd} |-> IF fd = FreeFd THEN c ELSE conn[fd]]
            /\ buffers' = [fd \in DOMAIN buffers \cup {FreeFd} |->
                             IF fd \in DOMAIN buffers THEN buffers[fd] ELSE <<>>]
            /\ UNCHANGED pc
  /\ UNCHANGED <<client, polled, cur, line, stop, handled, answers, hangUps, lost>>

\* A slip: a hang-up is served before what can still be read.
LookAtHangUp ==
  /\ pc = "clients"
  /\ IF polled = {}
     THEN pc' = "poll" /\ UNCHANGED <<polled, cur>>
     ELSE \E p \in polled :
            polled' = polled \ {p} /\ cur' = p /\ pc' = IF p.hup THEN "close" ELSE "read"
  /\ UNCHANGED <<client, conn, buffers, line, pending, stop, handled, answers, hangUps, lost>>

\* The next descriptor with an event, in the order of the hash table.
Look ==
  /\ pc = "clients"
  /\ IF polled = {}
     THEN pc' = "poll" /\ UNCHANGED <<polled, cur>>
     ELSE \E p \in polled : polled' = polled \ {p} /\ cur' = p /\ pc' = "read"
  /\ UNCHANGED <<client, conn, buffers, line, pending, stop, handled, answers, hangUps, lost>>

-----------------------------------------------------------------------------
(* handleClientData.                                                       *)

Owner == conn[cur.fd]

\* Read what is there, at most a chunk, and append it.  The loop over the reads
\* ends when nothing is left, whatever the stop flag says.
Read ==
  /\ pc = "read" /\ wire[Owner] # <<>>
  /\ buffers' = [buffers EXCEPT ![cur.fd] = Trim(@ \o Prefix(wire[Owner], Chunk))]
  /\ wire' = [wire EXCEPT ![Owner] = Drop(@, Chunk)]
  /\ pc' = "lines"
  /\ UNCHANGED <<script, unsent, peer, conn, polled, cur, line, pending, stop, handled, answers,
                 hangUps, lost>>

\* Nothing is left: the end of the stream closes the connection, and so does
\* a hang-up that poll() has seen.
ReadNothing ==
  /\ pc = "read" /\ wire[Owner] = <<>>
  /\ pc' = IF peer[Owner] = "gone" \/ cur.hup THEN "close" ELSE "clients"
  /\ UNCHANGED <<client, server, pending, stop, handled, answers, hangUps, lost>>

\* Take the first line from the buffer, cut to the length allowed, and handle
\* it; without one, read again.
TakeLine ==
  /\ pc = "lines"
  /\ LET b == buffers[cur.fd]
     IN IF HasLine(b)
        THEN LET end == LineEnd(b) - 1
                 text == Prefix(Prefix(b, end), MaxLine)
             IN /\ line' = text
                /\ buffers' = [buffers EXCEPT ![cur.fd] = Drop(b, end + 1)]
                /\ handled' = [handled EXCEPT ![Owner] = Append(@, text)]
                /\ pc' = "answer"
        ELSE pc' = "read" /\ UNCHANGED <<line, buffers, handled>>
  /\ UNCHANGED <<client, conn, polled, cur, pending, stop, answers, hangUps, lost>>

\* Whether a line asks for an answer: a request is recognised by its type, at
\* its start; a piece without the start is taken for a status message.
Number == Head(line)[2]
Asks == line # <<>> /\ Head(line)[3] = 1 /\ script[Head(line)[1]][Number].ask

\* A slip: an answer that sendAll gave up on is sent once more, with the next.
AnswerTwice ==
  /\ pc = "answer"
  /\ line' = <<>> /\ pc' = "lines"
  /\ IF ~Asks \/ peer[Owner] = "gone" THEN UNCHANGED <<answers, lost>>
     ELSE \/ answers' = [answers EXCEPT ![Owner] = Append(@, Number)] /\ UNCHANGED lost
          \/ /\ lost < MaxLost /\ lost' = lost + 1
             /\ answers' = [answers EXCEPT ![Owner] = @ \o <<Number, Number>>]
  /\ UNCHANGED <<client, conn, buffers, polled, cur, pending, stop, handled, hangUps>>

\* Answer on the descriptor the line came from.  sendAll gives up when the
\* client has hung up, or does not read; its result is ignored.
Answer ==
  /\ pc = "answer"
  /\ line' = <<>> /\ pc' = "lines"
  /\ IF ~Asks \/ peer[Owner] = "gone" THEN UNCHANGED <<answers, lost>>
     ELSE \/ answers' = [answers EXCEPT ![Owner] = Append(@, Number)] /\ UNCHANGED lost
          \/ lost < MaxLost /\ lost' = lost + 1 /\ UNCHANGED answers
  /\ UNCHANGED <<client, conn, buffers, polled, cur, pending, stop, handled, hangUps>>

\* A slip: closeClient leaves the buffer of the descriptor behind.
CloseOnly ==
  /\ pc = "close" /\ pc' = "clients"
  /\ conn' = Restrict(conn, DOMAIN conn \ {cur.fd})
  /\ cur' = None
  /\ UNCHANGED <<client, buffers, polled, line, pending, stop, handled, answers, hangUps, lost>>

\* closeClient: the number of the descriptor is free for the next client.
Close ==
  /\ pc = "close" /\ pc' = "clients"
  /\ conn' = Restrict(conn, DOMAIN conn \ {cur.fd})
  /\ buffers' = Restrict(buffers, DOMAIN buffers \ {cur.fd})
  /\ cur' = None
  /\ UNCHANGED <<client, polled, line, pending, stop, handled, answers, hangUps, lost>>

-----------------------------------------------------------------------------
Init ==
  /\ script \in [Clients -> Scripts]
  /\ unsent = [c \in Clients |-> Bytes(c, script[c])]
  /\ wire = [c \in Clients |-> <<>>]
  /\ peer = [c \in Clients |-> "new"]
  /\ pending = {} /\ conn = <<>> /\ buffers = <<>>
  /\ pc = "poll" /\ polled = {} /\ cur = None /\ line = <<>> /\ stop = FALSE
  /\ handled = [c \in Clients |-> <<>>]
  /\ answers = [c \in Clients |-> <<>>]
  /\ hangUps = 0 /\ lost = 0

Main == Exit \/ Poll \/ Accept \/ Look \/ Read \/ ReadNothing \/ TakeLine \/ Answer \/ Close

Next ==
  \/ Main \/ Signal
  \/ \E c \in Clients : Connect(c) \/ Write(c) \/ HangUp(c)

Spec == Init /\ [][Next]_vars

\* The thread runs; nothing is assumed of the clients.
FairSpec == Spec /\ WF_vars(Main)

-----------------------------------------------------------------------------
(* Properties.                                                             *)

\* Type correctness, with the bound that the trimming puts on a buffer.
TypeOK ==
  /\ peer \in [Clients -> {"new", "open", "gone"}] /\ pending \subseteq Clients
  /\ DOMAIN conn = DOMAIN buffers /\ DOMAIN conn \subseteq 1..Cardinality(Clients)
  /\ \A fd \in DOMAIN conn : conn[fd] \in Clients /\ Len(buffers[fd]) <= 2 * MaxLine
  /\ pc \in {"poll", "accept", "clients", "read", "lines", "answer", "close", "exited"}
  /\ \A p \in polled : p.fd \in DOMAIN conn
  /\ pc \in {"read", "lines", "answer", "close"} => cur.fd \in DOMAIN conn
  /\ stop \in BOOLEAN /\ hangUps \in 0..MaxHangUps /\ lost \in 0..MaxLost

\* However the bytes come in, whatever came before and whoever had the
\* descriptor before, the i-th line handled on a connection is the i-th line
\* of that client: whole when it has at most kMaxLineLength bytes, and
\* otherwise a piece of it that reaches into no other line (the trimming and
\* the loop over the lines in handleClientData, closeClient).
LinesArriveWhole ==
  \A c \in Clients : \A i \in DOMAIN handled[c] :
    LET n == script[c][i].len
        text == Text(c, i, n)
    IN /\ i \in DOMAIN script[c]
       /\ IF n <= MaxLine THEN handled[c][i] = text
          ELSE \E k \in 0..n : \E m \in 0..MaxLine :
                 k + m <= n /\ handled[c][i] = SubSeq(text, k + 1, k + m)

\* A client is answered what it asked, in that order, and nothing twice.
AnswersInOrder ==
  \A c \in Clients :
    /\ \A k \in DOMAIN answers[c] : answers[c][k] \in DOMAIN handled[c] /\ script[c][answers[c][k]].ask
    /\ \A k \in DOMAIN answers[c] : k > 1 => answers[c][k - 1] < answers[c][k]

\* Every line that a client has written is handled, also when it hangs up
\* right after it, unless the server is told to stop (a client writes a
\* bounded number of lines: in the end there are none that wait).
Newlines(b) == Cardinality({k \in DOMAIN b : b[k] = Newline})
WrittenIsHandled ==
  <>[](stop \/ \A c \in Clients : peer[c] # "new" =>
                 Len(handled[c]) = Len(script[c]) - Newlines(unsent[c]))

\* A signal ends the server, with clients that are connected and silent, in the
\* middle of a line, waiting to be accepted or gone, once none of them writes
\* any more.  That they cease is needed: the flag is looked at between two
\* rounds of main()'s loop only, and handleClientData reads a client until
\* nothing is left, so that one which writes for ever is served for ever.
WritersCease == <>[][~ \E c \in Clients : Write(c)]_vars
StopEnds == WritersCease => (stop ~> pc = "exited")
=============================================================================

------------------------------ MODULE StreamRead ------------------------------
(***************************************************************************)
(* The receiving end of one connection of StreamCmdServer: bytes arrive in *)
(* bursts cut anywhere, readyRead is emitted once for each burst, and the  *)
(* slot reads a fixed number of bytes at most and takes them one by one,   *)
(* cutting them into commands that it processes as they end.  Nothing else *)
(* runs at this end until the slot is through.  A connection that gncd     *)
(* keeps (a persistent one) is made again when it breaks, with the command *)
(* buffer it had.                                                          *)
(*                                                                         *)
(* A command is its text, of two symbols, and its end, CR and LF.  A text  *)
(* with characters outside ASCII has more bytes than characters: Excess is *)
(* how many more.                                                          *)
(***************************************************************************)
EXTENDS Integers, Sequences

CONSTANTS
  Commands,   \* the first symbols of the texts of commands
  Excess,     \* bytes of each in UTF-8 beyond its number of characters
  Args,       \* the rest of a text
  Garbled,    \* the first symbol of a text whose UTF-8 was read as Latin-1
  CR, LF,     \* the end of a command (bytes 13 and 10)
  Exit,       \* the command that closes the connection
  MaxRead,    \* symbols read by one call of the slot (1500 bytes)
  MaxBurst,   \* bound: symbols that arrive at once
  MaxSent,    \* bound: commands sent on one connection
  MaxBreaks   \* bound: breaks of a persistent connection

ASSUME ReadAssumption ==
  /\ Exit \in Commands
  /\ Excess \in [Commands -> 0..3] /\ Excess[Exit] = 0
  /\ {Args, Garbled, CR, LF} \cap Commands = {}
  /\ Args \notin {Garbled, CR, LF} /\ CR # LF
  /\ MaxRead \in Nat \ {0} /\ MaxBurst \in Nat \ {0}
  /\ MaxSent \in Nat /\ MaxBreaks \in Nat

VARIABLES
  persistent, \* conn_persistent: gncd's connection to gnmd
  sent,       \* the commands the other end has sent on this connection
  stream,     \* the symbols of them that readyReadData has not come to
  arrived,    \* how many of these have arrived
  data,       \* how many of these it has read
  buffer,     \* StreamCmdConnection::buffer: the text of a command not yet ended
  processed,  \* the texts ProcessCommand was called for since this connection is up
  open,       \* closeConnection has not been called
  carried,    \* the buffer held something when this connection was made
  overrun,    \* a burst came that one call of the slot cannot read
  breaks      \* how often the connection broke

readVars ==
  <<persistent, sent, stream, arrived, data, buffer, processed, open, carried, overrun, breaks>>

Text == Commands \cup {Args, Garbled}
Symbol == Commands \cup {Args, CR, LF}

ReadTypeOK ==
  /\ persistent \in BOOLEAN
  /\ sent \in Seq(Commands)
  /\ stream \in Seq(Symbol) /\ arrived \in 0..Len(stream) /\ data \in 0..arrived
  /\ buffer \in Seq(Text) /\ processed \in Seq(Seq(Text))
  /\ open \in BOOLEAN /\ carried \in BOOLEAN /\ overrun \in BOOLEAN
  /\ breaks \in 0..MaxBreaks

\* A connection that was accepted, or one that was made.
ReadInit ==
  /\ persistent \in BOOLEAN
  /\ sent = <<>> /\ stream = <<>> /\ arrived = 0 /\ data = 0
  /\ buffer = <<>> /\ processed = <<>>
  /\ open = TRUE
  /\ carried = FALSE /\ overrun = FALSE /\ breaks = 0

\* Mutant: a character is taken for two bytes at least.
EncodedShort(c) == SubSeq(<<c, Args, CR, LF>>, 1, 3 - Excess[c])

\* write(str.toUtf8(),str.length()): as many bytes as str has characters, of the
\* text and its end in UTF-8.
Encoded(c) == SubSeq(<<c, Args, CR, LF>>, 1, 4 - Excess[c])

Send(c) ==
  /\ open
  /\ Len(sent) < MaxSent
  /\ sent' = Append(sent, c)
  /\ stream' = stream \o Encoded(c)
  /\ UNCHANGED <<persistent, arrived, data, buffer, processed, open, carried, overrun, breaks>>

Lesser(m, n) == IF m < n THEN m ELSE n

\* Mutant: one byte is left for a terminator.
ReadSize(there) == Lesser(there, MaxRead - 1)

\* The n of socket()->read(data,1500).
ReadCount(there) == Lesser(there, MaxRead)

\* buffer+=data[i] takes each byte for a character.
Latin1(x) == IF x \in Commands /\ Excess[x] > 0 THEN Garbled ELSE x

\* n symbols arrive, and readyRead is emitted.
ReadyRead(n) ==
  /\ open /\ data = 0
  /\ arrived + n <= Len(stream)
  /\ arrived' = arrived + n
  /\ data' = ReadCount(arrived + n)
  /\ overrun' = (overrun \/ n > MaxRead)
  /\ UNCHANGED <<persistent, sent, stream, buffer, processed, open, carried, breaks>>

\* The next round of readyReadData's loop: the text in the buffer has ended ...
ProcessCommand ==
  /\ Head(stream) = CR
  /\ processed' = Append(processed, buffer)
  /\ buffer' = <<>>
  /\ open' = (open /\ buffer # <<Exit, Args>>)

\* Mutant: a line feed is taken for text.
KeepNewline ==
  /\ Head(stream) = LF
  /\ buffer' = Append(buffer, Head(stream))
  /\ UNCHANGED <<processed, open>>

\* ... or what is left of its end is here ...
SkipNewline ==
  /\ Head(stream) = LF
  /\ UNCHANGED <<buffer, processed, open>>

\* ... or a byte of text.
AddCharacter ==
  /\ Head(stream) \notin {CR, LF}
  /\ buffer' = Append(buffer, Latin1(Head(stream)))
  /\ UNCHANGED <<processed, open>>

\* Commands behind one that closes the connection are processed too.
NextByte ==
  /\ data > 0
  /\ stream' = Tail(stream) /\ arrived' = arrived - 1 /\ data' = data - 1
  /\ ProcessCommand \/ SkipNewline \/ AddCharacter
  /\ UNCHANGED <<persistent, sent, carried, overrun, breaks>>

\* The connection ends - it breaks, or this end has closed it - and is made again:
\* reconnect(sock) changes the socket and not the buffer.
Reconnect ==
  /\ persistent /\ data = 0
  /\ breaks < MaxBreaks /\ breaks' = breaks + 1
  /\ sent' = <<>> /\ stream' = <<>> /\ arrived' = 0 /\ processed' = <<>>
  /\ open' = TRUE
  /\ carried' = (buffer # <<>>)
  /\ overrun' = FALSE
  /\ UNCHANGED <<persistent, data, buffer>>

ReadNext ==
  \/ \E c \in Commands : Send(c)
  \/ \E n \in 1..MaxBurst : ReadyRead(n)
  \/ NextByte
  \/ Reconnect

ReadSpec == ReadInit /\ [][ReadNext]_readVars

-----------------------------------------------------------------------------
(* Properties.                                                             *)

\* The commands sent that nothing may do harm to: in ASCII, not behind one that
\* has lost its end, and not the first of a connection that took over the start
\* of a command from the last one.
Loses(c) == Excess[c] > 1
Unharmed ==
  {i \in DOMAIN sent : /\ Excess[sent[i]] = 0
                       /\ IF i = 1 THEN ~carried ELSE ~Loses(sent[i - 1])}

\* The texts processed that are those of a command.
IsRight(text) == \E c \in Commands : Excess[c] = 0 /\ text = <<c, Args>>
Right == {k \in DOMAIN processed : IsRight(processed[k])}

\* Each of them is that of an unharmed command, in the order they were sent, and
\* none is left out.
Matches(from) ==
  /\ \A k \in Right : processed[k] = <<sent[from[k]], Args>>
  /\ \A j, k \in Right : j < k => from[j] < from[k]
  /\ \A k \in Right : \A i \in Unharmed : i < from[k] => \E j \in Right : from[j] = i

\* However the bytes were cut, the commands that come out right are the unharmed
\* ones that were sent, in order and each once: what goes wrong with one harms no
\* command but that one and the next.
InOrder == \E from \in [Right -> Unharmed] : Matches(from)

\* When all that was sent has arrived, in bursts that one call can read, all
\* unharmed commands have been processed: none waits for the next burst.
NoneStuck ==
  open /\ arrived = Len(stream) /\ data = 0 /\ ~overrun
  => \E from \in [Right -> Unharmed] :
       Matches(from) /\ \A i \in Unharmed : \E k \in Right : from[k] = i

=============================================================================

------------------------------ MODULE LongPull ------------------------------
(* scripts/src/long_pull.py: the thread that reads an agent's stream.  The   *)
(* agent sends a part (boundary, length of the body, blank line, body) in    *)
(* one HTTP chunk (size line, data, line end); the network delivers it in    *)
(* pieces.  What is sent is a sequence of tokens, and the lengths of the     *)
(* code count tokens here.                                                  *)
(*                                                                         *)
(* External: the agent, which sends, and at some time closes, the stream.    *)
(***************************************************************************)
EXTENDS Scanner, FiniteSets

CONSTANTS
  ReadAhead,  \* the tokens that are read to find a size line (32 bytes)
  MaxParts    \* bound: the parts the agent sends
ASSUME LongPullAssumption == ReadAhead \in Nat \ {0} /\ MaxParts \in Nat

VARIABLES
  socket,    \* what has been sent and not yet received
  closed,    \* the agent has closed its end
  buffer,    \* _buffer, and the globs of _read_all
  wanted,    \* chunk_size, 0 between two chunks
  document, header, length,
  reader,    \* where the thread is, or the exception that ended it
  body,      \* what the callback has been given
  sent       \* how many parts the agent has sent
stream == <<socket, closed, buffer, wanted, document, header, length, reader, body, sent>>

Boundary == <<"boundary">>
Crlf == <<"end of line">>
Blank == <<"blank line">>
BodyOf(n) == <<<<"body", n>>>>
Part(n) == <<Boundary, <<"length", Len(BodyOf(n))>>, Blank>> \o BodyOf(n)
Chunk(n) == <<<<"size", Len(Part(n))>>, Crlf>> \o Part(n) \o <<Crlf>>

Dead == {"NotConnected", "LongPullException", "TypeError", "IncompleteRead", "Framing error"}

LongPullInit ==
  /\ socket = << >> /\ closed = FALSE /\ sent = 0
  /\ buffer = << >> /\ wanted = 0
  /\ document = Scanner(<< >>) /\ header = TRUE /\ length = 1
  /\ reader = "reading" /\ body = << >>

LongPullTypeOK ==
  /\ closed \in BOOLEAN /\ header \in BOOLEAN /\ sent \in 0..MaxParts
  /\ wanted \in 0..Len(Part(1)) + 1 /\ length \in 1..Len(BodyOf(1))
  /\ reader \in {"reading", "document", "callback", "changed", "queue"} \cup Dead
  /\ document.pos \in 0..Len(document.string)

\* The agent: parts, and the end of the stream, after which what was on its way arrives, or half of it.
Send ==
  /\ sent < MaxParts /\ ~closed /\ reader \notin Dead
  /\ sent' = sent + 1 /\ socket' = socket \o Chunk(sent + 1)
  /\ UNCHANGED <<closed, buffer, wanted, document, header, length, reader, body>>

Close ==
  /\ ~closed /\ reader \notin Dead /\ closed' = TRUE
  /\ socket' \in {SubSeq(socket, 1, k) : k \in {Len(socket) \div 2, Len(socket)}}
  /\ UNCHANGED <<buffer, wanted, document, header, length, reader, body, sent>>

\* What recv may return of what has arrived, asked for at most `most' tokens.  Bound: all it
\* can, or half of that.
Pieces(most) ==
  LET n == IF most < Len(socket) THEN most ELSE Len(socket)
  IN  {SubSeq(socket, 1, k) : k \in {n \div 2, n} \ {0}}
Ended == socket = << >> /\ closed

Dies(exception) ==
  /\ reader' = exception
  /\ UNCHANGED <<closed, wanted, document, header, length, body, sent>>

\* _read_chunk: the size line must be in what one recv returns.
Ends(text) == {k \in DOMAIN text : text[k] = Crlf}
SizeLine(text) == SubSeq(text, 1, CHOOSE k \in Ends(text) : \A j \in Ends(text) : k <= j)

\* Fault: the line end behind the data is left in the stream.
ReadChunkShort ==
  /\ reader = "reading" /\ wanted = 0
  /\ \/ Ended /\ Dies("NotConnected") /\ UNCHANGED <<socket, buffer>>
     \/ \E piece \in Pieces(ReadAhead) :
          LET text == buffer \o piece
          IN  /\ socket' = SubSeq(socket, Len(piece) + 1, Len(socket))
              /\ \/ Ends(text) = {} /\ Dies("TypeError") /\ buffer' = text
                 \/ /\ Ends(text) # {} /\ Len(SizeLine(text)) # 2
                    /\ Dies("IncompleteRead") /\ buffer' = text
                 \/ /\ Ends(text) # {} /\ Len(SizeLine(text)) = 2
                    /\ wanted' = text[1][2] /\ buffer' = SubSeq(text, 3, Len(text))
                    /\ UNCHANGED <<closed, document, header, length, reader, body, sent>>

ReadChunk ==
  /\ reader = "reading" /\ wanted = 0
  /\ \/ Ended /\ Dies("NotConnected") /\ UNCHANGED <<socket, buffer>>
     \/ \E piece \in Pieces(ReadAhead) :
          LET text == buffer \o piece
          IN  /\ socket' = SubSeq(socket, Len(piece) + 1, Len(socket))
              /\ \/ Ends(text) = {} /\ Dies("TypeError") /\ buffer' = text
                 \/ /\ Ends(text) # {} /\ Len(SizeLine(text)) # 2
                    /\ Dies("IncompleteRead") /\ buffer' = text
                 \/ /\ Ends(text) # {} /\ Len(SizeLine(text)) = 2
                    /\ wanted' = text[1][2] + 1 /\ buffer' = SubSeq(text, 3, Len(text))
                    /\ UNCHANGED <<closed, document, header, length, reader, body, sent>>

\* _read_all, and the chunk is put behind the document.
ReadAll ==
  /\ reader = "reading" /\ wanted > 0
  /\ \/ /\ Len(buffer) < wanted
        /\ \/ Ended /\ Dies("LongPullException") /\ UNCHANGED <<socket, buffer>>
           \/ \E piece \in Pieces(wanted - Len(buffer)) :
                /\ socket' = SubSeq(socket, Len(piece) + 1, Len(socket))
                /\ buffer' = buffer \o piece
                /\ UNCHANGED <<closed, wanted, document, header, length, reader, body, sent>>
     \/ /\ Len(buffer) >= wanted
        /\ document' = Scanner(document.string \o SubSeq(buffer, 1, wanted - 1))
        /\ buffer' = SubSeq(buffer, wanted + 1, Len(buffer))
        /\ wanted' = 0 /\ reader' = "document"
        /\ UNCHANGED <<socket, closed, header, length, body, sent>>

\* The header of a part tells the length of its body.
Header ==
  /\ reader = "document" /\ RestLen(document) >= length /\ header
  /\ \E checked \in {Check(document, Anchored(<<Boundary>>))} :
       \/ ~Matched(checked) /\ Dies("Framing error") /\ UNCHANGED <<socket, buffer>>
       \/ /\ Matched(checked)
          /\ document' \in {ScanUntil(checked, Literal(<<Blank>>))}
          /\ length' \in {line[2] : line \in {document.string[k] : k \in {k \in 1..document'.pos : document.string[k][1] = "length"}}}
          /\ header' = FALSE
          /\ UNCHANGED <<socket, closed, buffer, wanted, reader, body, sent>>

Body ==
  /\ reader = "document" /\ RestLen(document) >= length /\ ~header
  /\ body' = SubSeq(Rest(document), 1, length)
  /\ document' = Scanner(SubSeq(Rest(document), length + 1, RestLen(document)))
  /\ length' = 1 /\ header' = TRUE /\ reader' = "callback"
  /\ UNCHANGED <<socket, closed, buffer, wanted, sent>>

NextChunk ==
  /\ reader = "document" /\ RestLen(document) < length
  /\ reader' = "reading"
  /\ UNCHANGED <<socket, closed, buffer, wanted, document, header, length, body, sent>>

Reads == ReadChunk \/ ReadAll \/ Header \/ Body \/ NextChunk
=============================================================================

----------------------------- MODULE ConcatStream -----------------------------
(***************************************************************************)
(* The body of an upload.                                                  *)
(*                                                                         *)
(* Syncer2::Upload sends a file between two strings, the head and the tail *)
(* of a multipart message, as one ConcatStream.  The sizes of the parts    *)
(* are fixed when they are appended; the file may be rewritten, cut or     *)
(* extended by somebody at any time, between two reads of one part         *)
(* included.  libcurl asks for so many bytes at a time, and AuthAgent      *)
(* rewinds the stream before every attempt.                                *)
(***************************************************************************)
EXTENDS Integers, Sequences

CONSTANTS
    Byte,       \* what files are made of
    Zero,       \* the byte that stands for what is missing
    Preamble,   \* what precedes the file: p1 of Syncer2::Upload
    Epilogue,   \* what follows it: p2
    Versions,   \* the contents the file may be given
    Windows,    \* how many bytes libcurl may ask for at once
    MaxWrites   \* bound: how often the file is written

ASSUME StreamAssumption ==
    /\ Zero \in Byte
    /\ Preamble \in Seq(Byte) /\ Preamble # <<>>
    /\ Epilogue \in Seq(Byte) /\ Epilogue # <<>>
    /\ Versions \subseteq Seq(Byte)
    /\ Windows \subseteq Nat \ {0}
    /\ MaxWrites \in Nat

VARIABLES
    file,       \* the file, as it is on the disk
    writes,     \* how often it has been written
    parts,      \* m_streams
    sizes,      \* m_sizes: where each part ends
    cur,        \* m_cur
    pos,        \* m_pos
    offset,     \* how far each part has been read: its own position
    want,       \* the size of the Read under way, 0 if there is none
    buf,        \* what this Read has put in the buffer
    sent        \* what this attempt has given to libcurl

stream == <<parts, sizes, cur, pos, offset>>
svars  == <<file, writes, parts, sizes, cur, pos, offset, want, buf, sent>>

Part == {"head", "file", "tail"}

Text(s) == CASE s = "head" -> Preamble [] s = "tail" -> Epilogue [] s = "file" -> file

\* File::Size, and the size of a StringStream.
SizeOf(s) == Len(Text(s))

\* ConcatStream::Size
Total == IF sizes = <<>> THEN 0 ELSE sizes[Len(sizes)]

Smaller(a, b) == IF a < b THEN a ELSE b

\* A call that has no such body.
NoStream ==
    /\ parts' = <<>> /\ sizes' = <<>> /\ cur' = 1 /\ pos' = 0
    /\ offset' = [s \in Part |-> 0]
    /\ want' = 0 /\ buf' = <<>> /\ sent' = <<>>
    /\ UNCHANGED <<file, writes>>

\* ConcatStream::Append of the three parts; an empty one is left out.
Build ==
    /\ parts' = IF SizeOf("file") = 0 THEN <<"head", "tail">> ELSE <<"head", "file", "tail">>
    /\ sizes' = IF SizeOf("file") = 0
                THEN <<SizeOf("head"), SizeOf("head") + SizeOf("tail")>>
                ELSE <<SizeOf("head"), SizeOf("head") + SizeOf("file"), SizeOf("head") + SizeOf("file") + SizeOf("tail")>>
    /\ cur' = 1 /\ pos' = 0
    /\ offset' = [s \in Part |-> 0]
    /\ want' = 0 /\ buf' = <<>> /\ sent' = <<>>
    /\ UNCHANGED <<file, writes>>

\* lseek to the beginning of a part.
Start(read, s) == [read EXCEPT ![s] = 0]

\* ConcatStream::Seek( 0, 0 ): only the first part is rewound, the others when Read
\* comes to them.
Rewind ==
    /\ cur' = 1 /\ pos' = 0
    /\ offset' = Start(offset, parts[1])
    /\ sent' = <<>> /\ buf' = <<>> /\ want' = 0
    /\ UNCHANGED <<file, writes, parts, sizes>>

\* Faulty: a part goes on from where the last attempt left it.
NextAsItIs(read) == read

\* The parts as they stand when the current one has been read to its end: the next one
\* is sought to its beginning.
NextRewound(read) ==
    IF cur < Len(parts) THEN Start(read, parts[cur + 1]) ELSE read

\* libcurl asks for more, until it has the announced size: ReadFileCallback.
Ask(w) ==
    /\ want = 0
    /\ Len(sent) < Total
    /\ want' = w
    /\ UNCHANGED <<file, writes, stream, buf, sent>>

Reading == want > 0 /\ Len(buf) < want /\ cur <= Len(parts)

\* StringStream::Read: as much as there is, and no more than n.
ReadText(text, from, n) == SubSeq(text, from + 1, Smaller(from + n, Len(text)))

\* File::Read is alike, at the offset of the descriptor.
Read(s, n) == ReadText(Text(s), offset[s], n)

\* Faulty: a part may be read beyond the size it had.
GotAll == Read(parts[cur], want - Len(buf))

\* What the current part gives: no more than is asked for, nor than it had when it
\* was appended.
Got == Read(parts[cur], Smaller(want - Len(buf), sizes[cur] - pos))

\* The file was cut in the meantime: zeros up to the size it had.
Padding == [i \in 1..(sizes[cur] - pos) |-> Zero]

\* One turn of the loop of ConcatStream::Read.
ReadPart ==
    /\ Reading
    /\ LET more == IF Got = <<>> THEN Padding ELSE Got
           end  == IF Got = <<>> THEN sizes[cur] ELSE pos + Len(Got)
           next == end >= sizes[cur]
           read == [offset EXCEPT ![parts[cur]] = @ + Len(Got)]
       IN /\ buf' = buf \o more
          /\ pos' = end
          /\ cur' = IF next THEN cur + 1 ELSE cur
          /\ offset' = IF next THEN NextRewound(read) ELSE read
    /\ UNCHANGED <<file, writes, parts, sizes, want, sent>>

Returns == want > 0 /\ ~Reading

\* Read returns to libcurl.
GiveBytes ==
    /\ Returns
    /\ Len(buf) <= want
    /\ sent' = sent \o buf
    /\ buf' = <<>> /\ want' = 0
    /\ UNCHANGED <<file, writes, stream>>

\* The padding does not stop at the size of the Read: libcurl then has more than it
\* asked for, and gives up.
GivesTooMuch == Returns /\ Len(buf) > want

\* Somebody writes the file.
WriteFile(f) ==
    /\ writes < MaxWrites
    /\ f # file
    /\ file' = f
    /\ writes' = writes + 1
    /\ UNCHANGED <<stream, want, buf, sent>>

SInit ==
    /\ file \in Versions
    /\ writes = 0
    /\ parts = <<>> /\ sizes = <<>> /\ cur = 1 /\ pos = 0
    /\ offset = [s \in Part |-> 0]
    /\ want = 0 /\ buf = <<>> /\ sent = <<>>

-------------------------------------------------------------------------------
(* Properties.                                                             *)

\* The head and the tail are where the announced sizes say, whatever became of the
\* file, in every attempt: the message can be taken apart at its boundaries.
Framed ==
    LET body == sent \o buf
    IN \A i \in 1..Len(body) :
          /\ i <= Len(Preamble) => body[i] = Preamble[i]
          /\ i > Total - Len(Epilogue) => i <= Total /\ body[i] = Epilogue[i - (Total - Len(Epilogue))]

\* Of a file that nobody writes, every attempt sends the whole, in order.
WholeFile ==
    writes = 0 =>
        LET body == sent \o buf
        IN body = SubSeq(Preamble \o file \o Epilogue, 1, Len(body))

===============================================================================

-------------------------------- MODULE Transfer -------------------------------
(***************************************************************************)
(* One file, system call by system call: how it is scanned, hashed and     *)
(* downloaded while somebody else writes it, and what the index remembers  *)
(* of it.  Grive.tla takes each of these for one step.                     *)
(*                                                                         *)
(* The index vouches for a file whose change time, in seconds, is not      *)
(* later than the one recorded: its checksum is then not computed again.   *)
(***************************************************************************)
EXTENDS Integers, Sequences

CONSTANTS
    Inode,      \* files: the one of the name, and those it takes the place of
    Block,      \* blocks: of 4 MB where a file is hashed, of a buffer where it is received
    Zero,       \* the block that reads where nothing was written
    Unnamed,    \* no file
    NoSum,      \* the empty checksum
    Bodies,     \* the contents that people and the server give the file
    MaxLen,     \* bound: the blocks of a file
    MaxClock    \* bound: the seconds that pass

Content == UNION {[1..k -> Block] : k \in 0..MaxLen}

ASSUME TransferAssumption ==
    /\ Unnamed \notin Inode /\ Zero \in Block
    /\ NoSum \notin Seq(Block)
    /\ Bodies \subseteq Content
    /\ MaxLen \in Nat /\ MaxClock \in Nat

VARIABLES
    body,       \* the disk: what is in each file
    ctime,      \* the disk: st_ctime
    name,       \* the disk: the file at the path
    clock,      \* the second
    served,     \* the server: the content
    newer,      \* whether its modification time is later than the one recorded
    rec,        \* the index: ctime and md5; NoRecord
    at,         \* what grive does
    m_ctime,    \* Resource::m_ctime
    m_size,     \* Resource::m_size
    m_md5,      \* Resource::m_md5; a checksum is the content
    fd,         \* File::m_fd
    total,      \* MD5::Get: size
    sum,        \* MD5::Get: what was hashed; Download: what was received
    racing,     \* history: there was a write that the record to be made may vouch for
    raced       \* history: there was one that the record that was made may vouch for

files  == <<body, ctime, name, clock>>
online == <<served, newer>>
scan   == <<m_ctime, m_size, m_md5>>
index  == <<rec, raced>>
io     == <<fd, total, sum>>
transvars == <<files, online, scan, index, io, at, racing>>

NoRecord == [has |-> FALSE, ctime |-> 0, md5 |-> NoSum]

\* os::Stat, then Resource::FromLocal: the record may stand for the content.
Vouches(t) == rec.has /\ t <= rec.ctime

-----------------------------------------------------------------------------
(* File.                                                                   *)

\* ::write at an offset: what is before it and was not written is a hole.
WriteAt(c, k, b) ==
    [i \in 1..(IF Len(c) < k THEN k ELSE Len(c)) |->
        IF i = k THEN b ELSE IF i \in DOMAIN c THEN c[i] ELSE Zero]

\* File::~File and File::Close.
Close == fd' = Unnamed /\ total' = 0 /\ sum' = <<>>

\* What a write at this second may be vouched for by: the record there is.
SameSecond == rec.has /\ clock <= rec.ctime

-----------------------------------------------------------------------------
(* The scan: Resource::FromLocal.                                          *)

Scan ==
    /\ at = "idle" /\ name # Unnamed
    /\ m_ctime' = ctime[name] /\ m_size' = Len(body[name])
    /\ IF Vouches(ctime[name])
       THEN m_md5' = rec.md5 /\ at' = "compare" /\ racing' = raced
       ELSE /\ m_md5' = NoSum /\ racing' = FALSE
            /\ at' = IF rec.has /\ Len(body[name]) = Len(rec.md5) THEN "open sum" ELSE "compare"
    /\ UNCHANGED <<files, online, index, io>>

\* MD5::Get: the size is read once.
OpenForRead ==
    /\ at = "open sum"
    /\ fd' = name /\ total' = Len(body[name]) /\ sum' = <<>>
    /\ at' = "sum"
    /\ UNCHANGED <<files, online, scan, index, racing>>

\* A MemMap, and what MD5::Write reads of it: beyond the end of a file that was cut since,
\* zeros to the end of the page.
Map ==
    /\ at = "sum" /\ Len(sum) < total
    /\ sum' = Append(sum, IF Len(sum) < Len(body[fd]) THEN body[fd][Len(sum) + 1] ELSE Zero)
    /\ UNCHANGED <<files, online, scan, index, fd, total, at, racing>>

Hashed ==
    /\ at = "sum" /\ Len(sum) = total
    /\ m_md5' = sum
    /\ Close
    /\ at' = "compare"
    /\ UNCHANGED <<files, online, m_ctime, m_size, index, racing>>

-----------------------------------------------------------------------------
(* What becomes of it: Resource::FromRemoteFile and SyncSelf.              *)

\* The end of the run: what it had in memory is gone.
Forgotten ==
    /\ at' = "idle"
    /\ m_ctime' = 0 /\ m_size' = 0 /\ m_md5' = NoSum
    /\ Close
    /\ racing' = FALSE

\* The run goes on to save the index, or dies before it does.
Record(t, c, race, unsaved) ==
    /\ \/ /\ rec' = [has |-> TRUE, ctime |-> t, md5 |-> c]
          /\ raced' = race /\ newer' = FALSE
       \/ UNCHANGED index /\ newer' = unsaved
    /\ Forgotten

SameSize == m_size = Len(served)

\* Resource::GetMD5 computes the checksum only where the sizes agree.
NeedSum ==
    /\ at = "compare" /\ SameSize /\ m_md5 = NoSum
    /\ at' = "open sum"
    /\ UNCHANGED <<files, online, scan, index, io, racing>>

\* Faulty: the file is looked at again when it is recorded.
StatAgain == ctime[name]

\* SetIndex(false): the change time of the scan.
Scanned == m_ctime

InSync ==
    /\ at = "compare" /\ SameSize /\ m_md5 = served
    /\ Record(Scanned, served, racing, newer)
    /\ UNCHANGED <<files, served>>

Differs == at = "compare" /\ (~SameSize \/ m_md5 \notin {NoSum, served})

\* Syncer2::EditContent. ConcatStream.tla has the sending.
Upload ==
    /\ Differs /\ ~newer
    /\ served' = body[name]
    /\ Record(Scanned, body[name], racing, TRUE)
    /\ UNCHANGED files

-----------------------------------------------------------------------------
(* The download: Syncer::Download and SetIndex(true).                      *)

\* Download::Download opens the file, which truncates it or makes it.
OpenForWrite ==
    /\ \/ at = "idle" /\ name = Unnamed
       \/ Differs /\ newer
    /\ \E i \in IF name = Unnamed THEN Inode ELSE {name} :
         /\ fd' = i /\ name' = i
         /\ body' = [body EXCEPT ![i] = <<>>]
         /\ ctime' = [ctime EXCEPT ![i] = clock]
    /\ sum' = <<>> /\ total' = 0
    /\ racing' = FALSE
    /\ raced' = (raced \/ SameSecond)
    /\ at' = "receive"
    /\ UNCHANGED <<clock, online, scan, rec>>

\* Download::Write
ReceiveBlock ==
    /\ at = "receive" /\ Len(sum) < Len(served)
    /\ sum' = Append(sum, served[Len(sum) + 1])
    /\ body' = [body EXCEPT ![fd] = WriteAt(@, Len(sum) + 1, served[Len(sum) + 1])]
    /\ ctime' = [ctime EXCEPT ![fd] = clock]
    /\ UNCHANGED <<name, clock, online, scan, index, fd, total, at, racing>>

\* os::SetFileTime, of whatever is at the path by now.
SetFileTime ==
    /\ at = "receive" /\ Len(sum) = Len(served)
    /\ ctime' = [ctime EXCEPT ![name] = clock]
    /\ Close
    /\ at' = "stat"
    /\ UNCHANGED <<body, name, clock, online, scan, index, racing>>

\* os::Stat: the change time of whatever is there, the checksum of the listing.
Stat ==
    /\ at = "stat"
    /\ Record(ctime[name], served, racing, TRUE)
    /\ UNCHANGED <<files, served>>

\* The connection is lost, a write fails or is short, the process is killed, or reads a page
\* of a mapped file that is no longer there.
Fail ==
    /\ at # "idle"
    /\ Forgotten
    /\ UNCHANGED <<files, online, index>>

-----------------------------------------------------------------------------
(* The others.                                                             *)

\* A write may go unnoticed in the second of the change time that is, or will be, recorded,
\* and between the opening of the file and the Stat of a download.
Noted ==
    /\ raced' = (raced \/ SameSecond)
    /\ racing' = (racing \/ at \in {"receive", "stat"} \/ clock <= m_ctime)

\* The file is written in place.
WriteInPlace(c) ==
    /\ name # Unnamed
    /\ body' = [body EXCEPT ![name] = c]
    /\ ctime' = [ctime EXCEPT ![name] = clock]
    /\ Noted
    /\ UNCHANGED <<name, clock, online, scan, rec, io, at>>

\* Another one is renamed into its place, or it is made.
Replace(i, c) ==
    /\ i \notin {name, fd}
    /\ name' = i
    /\ body' = [body EXCEPT ![i] = c]
    /\ ctime' = [ctime EXCEPT ![i] = clock]
    /\ Noted
    /\ UNCHANGED <<clock, online, scan, rec, io, at>>

Serve(c) ==
    /\ at = "idle"
    /\ served' = c /\ newer' = TRUE
    /\ UNCHANGED <<files, scan, index, io, at, racing>>

Tick ==
    /\ clock < MaxClock
    /\ clock' = clock + 1
    /\ UNCHANGED <<body, ctime, name, online, scan, index, io, at, racing>>

TransferIdle ==
    /\ body = [i \in Inode |-> <<>>] /\ ctime = [i \in Inode |-> 0]
    /\ name = Unnamed /\ clock = 1
    /\ served = <<>> /\ newer = TRUE
    /\ rec = NoRecord /\ raced = FALSE /\ racing = FALSE
    /\ at = "idle"
    /\ m_ctime = 0 /\ m_size = 0 /\ m_md5 = NoSum
    /\ fd = Unnamed /\ total = 0 /\ sum = <<>>

TransferNext ==
    \/ Scan \/ OpenForRead \/ Map \/ Hashed
    \/ NeedSum \/ InSync \/ Upload
    \/ OpenForWrite \/ ReceiveBlock \/ SetFileTime \/ Stat \/ Fail
    \/ \E c \in Bodies : WriteInPlace(c) \/ Serve(c) \/ \E i \in Inode : Replace(i, c)
    \/ Tick

TransferSpec == TransferIdle /\ [][TransferNext]_transvars

-----------------------------------------------------------------------------
(* Properties.                                                             *)

\* The record vouches for the file at the path, and its content is another.
Misled == rec.has /\ name # Unnamed /\ ctime[name] <= rec.ctime /\ body[name] # rec.md5

\* A write is noticed by the next scan, wherever it falls between the calls of a scan, a
\* checksum, an upload or a download, and whatever a failed download left, unless it was made
\* in the very second that is recorded, or between the opening of a file that is downloaded and
\* the Stat that follows (Resource.cc:619, Resource.cc:707).
WriteNoticed == Misled => raced

================================================================================

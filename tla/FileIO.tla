-------------------------------- MODULE FileIO --------------------------------
(***************************************************************************)
(* The files of a process: fopen, fclose, fread and fwrite of the SDK      *)
(* (appsdk/app_process.c) and the system calls behind them                 *)
(* (os/syscalls/syscalls.c), which pass the data through a buffer of the   *)
(* kernel, one chunk after the other.  The file system itself (FatFs) is   *)
(* external: a file is a sequence of bytes, and any call may fail.         *)
(*                                                                         *)
(* One file, opened once at a time, and buffers in the user space.         *)
(***************************************************************************)
EXTENDS Integers, Sequences, SequencesExt

CONSTANTS
    FirstBytes,     \* with what the data a process writes begins
    OldByte,        \* what is in a buffer before it is read into
    Chunk,          \* FF_MAX_SS: the size of the kernel's buffer
    MaxFile,        \* bound: the bytes for which the disk has room
    ItemSizes,      \* the sizes passed to fread and fwrite
    ItemCounts,     \* ... and the counts
    Wrap            \* 2^32: sizes are words

ASSUME FileIOAssumption ==
    /\ FirstBytes \subseteq Nat \ {0} /\ OldByte = 0
    /\ Chunk \in Nat \ {0} /\ MaxFile \in Nat /\ Wrap \in Nat \ {0}
    /\ ItemSizes \subseteq Nat /\ ItemCounts \subseteq Nat

VARIABLES
    file,           \* [exists, bytes]: the file on the disk
    fil,            \* FIL of the open handle: [open, flags, pos, err]
    req,            \* the call in progress: its parameters and the loop's locals
    reply           \* what the last call answered, with what it was asked

fileVars == <<file, fil, req, reply>>

Closed == [open |-> FALSE, flags |-> {}, pos |-> 0, err |-> FALSE]

\* call, size, the buffer, the bytes to do and done, and where the file was.
NoRequest == [call |-> "none", size |-> 1, buf |-> << >>, todo |-> 0, done |-> 0, from |-> 0]

FileInit ==
    /\ file = [exists |-> FALSE, bytes |-> << >>]
    /\ fil = Closed
    /\ req = NoRequest
    /\ reply = NoRequest

InUserMode == req.call = "none"

-----------------------------------------------------------------------------
(***************************************************************************)
(* fopen and fclose                                                        *)
(***************************************************************************)

\* The conversion of the mode strings; any other string is refused.
FlagsOf ==
    [r   |-> {"read"},              rplus  |-> {"read", "write"},
     w   |-> {"always", "write"},   wplus  |-> {"always", "write", "read"},
     a   |-> {"append", "write"},   aplus  |-> {"append", "write", "read"},
     wx  |-> {"new", "write"},      wxplus |-> {"new", "write", "read"}]

\* What f_open needs, and does to the file.
MayOpen(flags) ==
    IF "new" \in flags THEN ~file.exists
    ELSE file.exists \/ flags \cap {"always", "append"} # {}
Opened(flags) ==
    [exists |-> TRUE, bytes |-> IF flags \cap {"always", "new"} # {} THEN << >> ELSE file.bytes]

\* syscall_openFile: memory for the FIL, a handle, f_open.
FileOpen(mode) ==
    LET flags == FlagsOf[mode]
    IN  /\ InUserMode /\ ~fil.open
        /\ MayOpen(flags)
        /\ file' = Opened(flags)
        /\ fil' = [open |-> TRUE, flags |-> flags, err |-> FALSE,
                   pos |-> IF "append" \in flags THEN Len(file.bytes) ELSE 0]
        /\ reply' = NoRequest
        /\ UNCHANGED req

\* No memory, no handle, or f_open has failed.
FileOpenFails ==
    /\ InUserMode /\ ~fil.open
    /\ reply' = NoRequest
    /\ UNCHANGED <<file, fil, req>>

\* fclose: the handle's destructor closes the file and frees the FIL.
FileClose ==
    /\ InUserMode /\ fil.open
    /\ fil' = Closed
    /\ reply' = NoRequest
    /\ UNCHANGED <<file, req>>

-----------------------------------------------------------------------------
(***************************************************************************)
(* fread and fwrite                                                        *)
(***************************************************************************)

\* The system call of n items of a size, with the buffer buf.
Begin(call, size, buf) ==
    /\ InUserMode /\ fil.open
    /\ req' = [call |-> call, size |-> size, buf |-> buf, todo |-> Len(buf), done |-> 0,
               from |-> fil.pos]
    /\ reply' = NoRequest
    /\ UNCHANGED <<file, fil>>

FWrite(size, count) ==
    /\ size > 0 /\ count > 0
    /\ \E first \in FirstBytes :
        Begin("write", size, [i \in 1 .. (size * count) % Wrap |-> first + i])

FRead(size, count) ==
    /\ size > 0 /\ count > 0
    /\ Begin("read", size, [i \in 1 .. (size * count) % Wrap |-> OldByte])

Len1 == IF req.todo < Chunk THEN req.todo ELSE Chunk

\* f_write and f_read have done n of the chunk's bytes, with an error or not.
\* With one some bytes are missing; without one, only those past the end of the
\* disk or of the file.
WriteDoes(n, err) ==
    LET room == MaxFile - fil.pos
    IN  /\ n <= Len1 /\ n <= room
        /\ fil.err \/ "write" \notin fil.flags => n = 0 /\ err
        /\ IF err THEN n < Len1 ELSE n = Len1 \/ n = room

ReadDoes(n, err) ==
    LET room == Len(file.bytes) - fil.pos
    IN  /\ n <= Len1 /\ n <= room
        /\ fil.err \/ "read" \notin fil.flags => n = 0 /\ err
        /\ IF err THEN n < Len1 ELSE n = Len1 \/ n = room

\* The file with the bytes s written at its position
Written(s) ==
    SubSeq(file.bytes, 1, fil.pos) \o s \o
        SubSeq(file.bytes, fil.pos + Len(s) + 1, Len(file.bytes))

\* After an error of the disk every further call on the file fails; a call that
\* the mode of the file does not allow is refused, and that is all.
Advanced(n, err, needed) ==
    fil' = [fil EXCEPT !.pos = @ + n, !.err = @ \/ (err /\ needed \in fil.flags)]

\* Mutant: an error ends the loop before the bytes that were written are counted.
WriteChunkUncounted(n, err) ==
    /\ req.call = "write" /\ req.todo > 0
    /\ WriteDoes(n, err)
    /\ file' = [file EXCEPT !.bytes = Written(SubSeq(req.buf, req.done + 1, req.done + n))]
    /\ Advanced(n, err, "write")
    /\ req' = [req EXCEPT !.done = IF err THEN @ ELSE @ + n,
                          !.todo = IF err \/ n # Len1 THEN 0 ELSE @ - Len1]
    /\ UNCHANGED reply

\* A turn of the loop of syscall_fileWrite
WriteChunk(n, err) ==
    /\ req.call = "write" /\ req.todo > 0
    /\ WriteDoes(n, err)
    /\ file' = [file EXCEPT !.bytes = Written(SubSeq(req.buf, req.done + 1, req.done + n))]
    /\ Advanced(n, err, "write")
    /\ req' = [req EXCEPT !.done = @ + n,
                          !.todo = IF err \/ n # Len1 THEN 0 ELSE @ - Len1]
    /\ UNCHANGED reply

\* A turn of the loop of syscall_fileRead: after a short read it leaves the
\* loop before the bytes are copied to the process, but counts them.
ReadChunk(n, err) ==
    LET short == err \/ n # Len1
        got == SubSeq(file.bytes, fil.pos + 1, fil.pos + n)
        before == SubSeq(req.buf, 1, req.done)
    IN  /\ req.call = "read" /\ req.todo > 0
        /\ ReadDoes(n, err)
        /\ Advanced(n, err, "read")
        /\ req' = [req EXCEPT
                    !.done = @ + n,
                    !.todo = IF short THEN 0 ELSE @ - Len1,
                    !.buf = IF short THEN @
                            ELSE before \o got \o SubSeq(@, Len(before) + n + 1, Len(@))]
        /\ UNCHANGED <<file, reply>>

\* The system call ends: fread and fwrite answer reply.done \div reply.size.
FileCallEnds ==
    /\ req.call # "none" /\ req.todo = 0
    /\ reply' = req
    /\ req' = NoRequest
    /\ UNCHANGED <<file, fil>>

FileNext ==
    \/ \E mode \in DOMAIN FlagsOf : FileOpen(mode)
    \/ FileOpenFails \/ FileClose \/ FileCallEnds
    \/ \E size \in ItemSizes, count \in ItemCounts : FWrite(size, count) \/ FRead(size, count)
    \/ \E n \in 0 .. Chunk, err \in BOOLEAN : WriteChunk(n, err) \/ ReadChunk(n, err)

FileSpec == FileInit /\ [][FileNext]_fileVars

-----------------------------------------------------------------------------
(***************************************************************************)
(* Properties                                                              *)
(***************************************************************************)

\* The bytes of the file that the last call was about: the n first ones.
FileBytes(n) == SubSeq(file.bytes, reply.from + 1, reply.from + n)

\* Whatever failed in the middle, a write answers the bytes that are in the
\* file, a read has delivered every whole chunk it counts, and the file is where
\* the answer says, so that the caller can go on from there.
FileIoExact ==
    reply.call # "none" =>
        /\ fil.pos = reply.from + reply.done
        /\ reply.call = "write" => FileBytes(reply.done) = SubSeq(reply.buf, 1, reply.done)
        /\ reply.call = "read" =>
            LET whole == (reply.done \div Chunk) * Chunk
            IN  FileBytes(whole) = SubSeq(reply.buf, 1, whole)

\* What the SDK says of fread ("Reads data from a file into the specified
\* buffer", app_stdio.h:33): the bytes it counts are in the buffer.
ReadIsDelivered ==
    reply.call = "read" => FileBytes(reply.done) = SubSeq(reply.buf, 1, reply.done)

=============================================================================

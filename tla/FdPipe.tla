------------------------------- MODULE FdPipe -------------------------------
(***************************************************************************)
(* The per-process descriptor tables of task/fd_table.rs, the pipes of     *)
(* task/pipe.rs and the descriptor system calls of sys_call/fd/open.rs and *)
(* rw.rs.  A descriptor is a value (offset, file): dup, dup3 and fork copy *)
(* it, so copies keep separate offsets on one shared file.  A pipe is a    *)
(* byte vector shared by its two ends through an Arc; nothing is ever      *)
(* consumed from it, a reader's offset indexes it, and a write first trims *)
(* it to its last PipeCap (4096) bytes when it is longer.                  *)
(*                                                                         *)
(* Bytes are named by their position in the stream of a pipe: the k-th     *)
(* byte ever written to pipe i is k.  Contents are not modelled.           *)
(***************************************************************************)
EXTENDS Integers, Sequences, FiniteSets

CONSTANTS Procs,      \* processes owning a descriptor table
          Pipes,      \* names of the PipeBuf objects pipe2 may create
          MaxFd,      \* descriptors 0 .. MaxFd-1 are modelled
          PipeCap,    \* the 4096 of PipeBuf::write_at
          MaxBytes,   \* the most bytes written to one pipe
          MaxOffset,  \* the largest descriptor offset explored
          USize,      \* 2^64, the range of usize
          Counts,     \* the byte counts of read and write calls
          InitProc,   \* the process exec_by_str creates
          Calls,      \* the system calls programs issue in a run
          MaxCalls,   \* the length of the programs explored
          None

Fds == 0 .. MaxFd - 1

\* The FileOP objects: the stdio and /dev files, and the two ends of each
\* pipe (PipeReader, PipeWriter), by kind and the PipeBuf they wrap.
StdKinds == {"stdin", "stdout", "stderr", "null", "zero"}
Std(k) == [kind |-> k, pipe |-> None]
Files == {Std(k) : k \in StdKinds} \cup [kind : {"r", "w"}, pipe : Pipes]

IsReader(f) == f.kind = "r"
IsWriter(f) == f.kind = "w"
IsPipeEnd(f) == f.kind \in {"r", "w"}

VARIABLES fdt,    \* fdt[p][fd]: process p's FileDesc at fd, or None
          alive,  \* processes that exist
          made,   \* pipes pipe2 has created
          buf,    \* buf[i]: PipeBufInner.buf, as stream positions
          nw,     \* nw[i]: bytes ever written to pipe i
          recv,   \* the bytes a step delivered to a reader, or None
          kpanic, \* a todo!() was reached: the kernel has stopped
          budget  \* the system calls programs may still issue

vars == <<fdt, alive, made, buf, nw, recv, kpanic, budget>>

\* The bytes of pipe i that trimming has discarded.
Dropped(i) == nw[i] - Len(buf[i])

\* A descriptor: the FileDesc fields, and got, the stream position of the
\* last pipe byte delivered through it (a history field for properties).
Desc(f, o, g) == [file |-> f, off |-> o, got |-> g]

FileDescNew(f) == Desc(f, 0, 0)

(***************************************************************************)
(* FileOP of each file.                                                    *)
(***************************************************************************)

\* FileOP::readable and writeable; "todo" where the method is todo!().
Readable(f) == CASE f.kind \in {"stdin", "zero", "r"} -> "yes"
                 [] f.kind = "stderr" -> "todo"
                 [] OTHER -> "no"
Writeable(f) == CASE f.kind \in {"stdout", "stderr", "null", "w"} -> "yes"
                  [] f.kind = "zero" -> "todo"
                  [] OTHER -> "no"

\* The kinds whose read_at or write_at is todo!().
ReadAtTodo == {"stdin", "stderr", "w"}
WriteAtTodo == {"stdin", "zero", "r"}

\* FileOP::get_size: a pipe's buffer length, 0 for every stdio file.
Size(f) == IF IsPipeEnd(f) THEN Len(buf[f.pipe]) ELSE 0

(***************************************************************************)
(* The descriptor table.                                                   *)
(***************************************************************************)

FDTableNew == [fd \in Fds |-> IF fd = 0 THEN FileDescNew(Std("stdin"))
                              ELSE IF fd = 1 THEN FileDescNew(Std("stdout"))
                              ELSE IF fd = 2 THEN FileDescNew(Std("stderr"))
                              ELSE None]

Free(t) == {fd \in Fds : t[fd] = None}

\* A mutant of alloc that takes the highest free descriptor.
AllocHighest(t) == CHOOSE fd \in Free(t) : \A g \in Free(t) : g <= fd

\* FDTable::alloc: the lowest number not in the table.
Alloc(t) == CHOOSE fd \in Free(t) : \A g \in Free(t) : fd <= g

\* FDTable::push: set(alloc(), value).  Callers check Free(t) # {}: the
\* table is bounded by MaxFd in the model.
Push(t, d) == [t EXCEPT ![Alloc(t)] = d]

(***************************************************************************)
(* The pipe buffer.                                                        *)
(***************************************************************************)

Trim(b) == IF Len(b) > PipeCap THEN SubSeq(b, Len(b) - PipeCap + 1, Len(b)) ELSE b

\* PipeBuf::write_at of n bytes on pipe i whose stream has w bytes so far.
WriteAt(b, w, n) == Trim(b) \o [k \in 1 .. n |-> w + k]

\* PipeBuf::read_at: the number of bytes from position off, at most n.
PipeReadLen(b, off, n) == IF off < Len(b)
                          THEN IF n < Len(b) - off THEN n ELSE Len(b) - off
                          ELSE 0

\* FileDesc::read through read_at: the bytes the file delivers.
ReadLen(d, n) == CASE d.file.kind = "zero" -> n
                   [] IsReader(d.file) -> PipeReadLen(buf[d.file.pipe], d.off, n)
                   [] OTHER -> 0

(***************************************************************************)
(* Steps shared by the system calls.  Running(p): a task of p is in a      *)
(* system call; nothing runs once the kernel has panicked.                 *)
(***************************************************************************)

Running(p) == p \in alive /\ ~kpanic

Panic == /\ kpanic' = TRUE
         /\ recv' = None
         /\ UNCHANGED <<fdt, alive, made, buf, nw>>

\* A call that only sets x10 (an error, or a read or write that moves
\* no byte and no offset).
NoEffect == /\ recv' = None
            /\ UNCHANGED <<fdt, alive, made, buf, nw, kpanic>>

\* The pipe bytes that reading n bytes through descriptor fd delivers.
Delivered(p, fd, n) ==
    LET d == fdt[p][fd]
        k == ReadLen(d, n)
    IN  IF IsReader(d.file) /\ k > 0
        THEN [p |-> p, fd |-> fd, pipe |-> d.file.pipe,
              from |-> buf[d.file.pipe][d.off + 1],
              to |-> buf[d.file.pipe][d.off + k]]
        ELSE None

\* FileDesc::read: read_at at the offset, then offset += read_len.
AfterRead(d, n, r) == [d EXCEPT !.off = @ + ReadLen(d, n),
                                !.got = IF r = None THEN @ ELSE r.to]

DoRead(p, fd, n) ==
    /\ fdt[p][fd].off + ReadLen(fdt[p][fd], n) <= MaxOffset
    /\ recv' = Delivered(p, fd, n)
    /\ fdt' = [fdt EXCEPT ![p][fd] = AfterRead(@, n, Delivered(p, fd, n))]
    /\ UNCHANGED <<alive, made, buf, nw, kpanic>>

\* FileDesc::write of n bytes: only a pipe's write_at changes state.
DoWrite(f, n) ==
    /\ recv' = None
    /\ IF IsWriter(f)
       THEN /\ nw[f.pipe] + n <= MaxBytes
            /\ buf' = [buf EXCEPT ![f.pipe] = WriteAt(@, nw[f.pipe], n)]
            /\ nw' = [nw EXCEPT ![f.pipe] = @ + n]
       ELSE UNCHANGED <<buf, nw>>
    /\ UNCHANGED <<fdt, alive, made, kpanic>>

(***************************************************************************)
(* The system calls.  A call on a descriptor the table lacks returns       *)
(* NoMatchedFileDesc, which catch turns into x10 = SYS_CALL_ERR alone: it  *)
(* changes no modelled state and is a stuttering step.                     *)
(***************************************************************************)

Init == /\ fdt = [p \in Procs |-> IF p = InitProc THEN FDTableNew
                                  ELSE [fd \in Fds |-> None]]
        /\ alive = {InitProc}
        /\ made = {}
        /\ buf = [i \in Pipes |-> <<>>]
        /\ nw = [i \in Pipes |-> 0]
        /\ recv = None
        /\ kpanic = FALSE
        /\ budget = MaxCalls

\* Task::sys_read: read only from a readable file, else x10 = usize::MAX.
SysRead(p, fd, n) ==
    /\ Running(p)
    /\ fdt[p][fd] # None
    /\ LET f == fdt[p][fd].file
       IN  CASE Readable(f) = "todo" -> Panic
             [] Readable(f) = "no" -> NoEffect
             [] f.kind \in ReadAtTodo -> Panic
             [] OTHER -> DoRead(p, fd, n)

\* Task::sys_readv: FileDesc::read once per iovec, with no readable check.
\* Back-to-back reads of one descriptor deliver what one read of the total
\* delivers, so n is the sum of the iovec lengths.
SysReadv(p, fd, n) ==
    /\ Running(p)
    /\ fdt[p][fd] # None
    /\ IF fdt[p][fd].file.kind \in ReadAtTodo THEN Panic ELSE DoRead(p, fd, n)

\* Task::sys_write: write only to a writeable file, else x10 = usize::MAX.
SysWrite(p, fd, n) ==
    /\ Running(p)
    /\ fdt[p][fd] # None
    /\ LET f == fdt[p][fd].file
       IN  CASE Writeable(f) = "todo" -> Panic
             [] Writeable(f) = "no" -> NoEffect
             [] OTHER -> DoWrite(f, n)

\* Task::sys_writev with two iovecs of n1 and n2 bytes: two
\* FileDesc::write calls with no writeable check; each write_at trims.
SysWritev(p, fd, n1, n2) ==
    /\ Running(p)
    /\ fdt[p][fd] # None
    /\ LET f == fdt[p][fd].file
       IN  IF f.kind \in WriteAtTodo THEN Panic
           ELSE /\ recv' = None
                /\ IF IsWriter(f)
                   THEN LET i == f.pipe
                        IN  /\ nw[i] + n1 + n2 <= MaxBytes
                            /\ buf' = [buf EXCEPT ![i] =
                                 WriteAt(WriteAt(@, nw[i], n1), nw[i] + n1, n2)]
                            /\ nw' = [nw EXCEPT ![i] = @ + n1 + n2]
                   ELSE UNCHANGED <<buf, nw>>
                /\ UNCHANGED <<fdt, alive, made, kpanic>>

\* Task::sys_sendfile: read get_size() bytes of in_fd at its offset, then,
\* if out_fd exists, write all get_size() bytes of the buffer, the zeros
\* past what was read included.  A missing out_fd fails after the read.
SysSendfile(p, out, in) ==
    /\ Running(p)
    /\ fdt[p][in] # None
    /\ LET d == fdt[p][in]
           size == Size(d.file)
           r == Delivered(p, in, size)
           t == [fdt[p] EXCEPT ![in] = AfterRead(d, size, r)]
       IN  CASE d.file.kind \in ReadAtTodo -> Panic
             [] t[out] # None /\ t[out].file.kind \in WriteAtTodo -> Panic
             [] OTHER ->
                /\ d.off + ReadLen(d, size) <= MaxOffset
                /\ recv' = r
                /\ fdt' = [fdt EXCEPT ![p] = t]
                /\ IF t[out] # None /\ IsWriter(t[out].file)
                   THEN LET i == t[out].file.pipe
                        IN  /\ nw[i] + size <= MaxBytes
                            /\ buf' = [buf EXCEPT ![i] = WriteAt(@, nw[i], size)]
                            /\ nw' = [nw EXCEPT ![i] = @ + size]
                   ELSE UNCHANGED <<buf, nw>>
                /\ UNCHANGED <<alive, made, kpanic>>

\* The panic of an overflowing addition under overflow checks.
Overflow == -1

\* FileDesc::lseek's new offset for whence w; an overflow of off + x under
\* SEEK_CUR either wraps or panics, as the build decides.
SeekTo(d, x, w) ==
    LET size == Size(d.file)
    IN  CASE w = 0 -> {IF d.off < size THEN d.off ELSE size}
          [] w = 1 -> IF d.off + x < USize
                      THEN {IF d.off + x < size THEN d.off + x ELSE size}
                      ELSE {Overflow,
                            IF (d.off + x) % USize < size THEN (d.off + x) % USize
                            ELSE size}
          [] w = 2 -> {size + d.off}
          [] OTHER -> {0}

\* Task::sys_lseek.  got follows the offset: a seek is the user's choice of
\* where the descriptor reads next.
SysLseek(p, fd, x, w) ==
    /\ Running(p)
    /\ fdt[p][fd] # None
    /\ \E o \in SeekTo(fdt[p][fd], x, w) :
          IF o = Overflow THEN Panic
          ELSE LET f == fdt[p][fd].file
               IN  /\ o <= MaxOffset
                   /\ fdt' = [fdt EXCEPT ![p][fd].off = o,
                                         ![p][fd].got = IF IsReader(f)
                                                        THEN Dropped(f.pipe) + o
                                                        ELSE @]
                   /\ recv' = None
                   /\ UNCHANGED <<alive, made, buf, nw, kpanic>>

\* Steps that change only p's descriptor table to t.
SetTable(p, t) == /\ fdt' = [fdt EXCEPT ![p] = t]
                  /\ recv' = None
                  /\ UNCHANGED <<alive, made, buf, nw, kpanic>>

\* Task::sys_dup: push a copy of the descriptor, offset included.
SysDup(p, fd) ==
    /\ Running(p)
    /\ fdt[p][fd] # None
    /\ Free(fdt[p]) # {}
    /\ SetTable(p, Push(fdt[p], fdt[p][fd]))

\* Task::sys_dup3: set new_fd to a copy, replacing what it held.
SysDup3(p, fd, nfd) ==
    /\ Running(p)
    /\ fdt[p][fd] # None
    /\ SetTable(p, [fdt[p] EXCEPT ![nfd] = fdt[p][fd]])

\* Task::sys_openat of /dev/null or /dev/zero: push a fresh descriptor.
SysOpenat(p, f) ==
    /\ Running(p)
    /\ Free(fdt[p]) # {}
    /\ SetTable(p, Push(fdt[p], FileDescNew(f)))

\* Task::sys_close: FDTable::dealloc; closing a free number changes nothing.
SysClose(p, fd) ==
    /\ Running(p)
    /\ fdt[p][fd] # None
    /\ SetTable(p, [fdt[p] EXCEPT ![fd] = None])

\* Task::sys_pipe2: new_pipe, then push the reader and then the writer.
SysPipe2(p) ==
    /\ Running(p)
    /\ Cardinality(Free(fdt[p])) >= 2
    /\ \E i \in Pipes \ made :
          LET t1 == Push(fdt[p], FileDescNew([kind |-> "r", pipe |-> i]))
          IN  /\ fdt' = [fdt EXCEPT ![p] = Push(t1, FileDescNew([kind |-> "w", pipe |-> i]))]
              /\ made' = made \cup {i}
              /\ recv' = None
              /\ UNCHANGED <<alive, buf, nw, kpanic>>

\* Process::fork (and sys_fork): the child gets a clone of the table; the
\* descriptors are copied, the files (and a pipe's buffer) are shared.
SysFork(p, c) ==
    /\ Running(p)
    /\ c \notin alive
    /\ fdt' = [fdt EXCEPT ![c] = fdt[p]]
    /\ alive' = alive \cup {c}
    /\ recv' = None
    /\ UNCHANGED <<made, buf, nw, kpanic>>

Next ==
    /\ budget > 0
    /\ budget' = budget - 1
    /\ \E p \in Procs :
           \/ "pipe2" \in Calls /\ SysPipe2(p)
           \/ "fork" \in Calls /\ \E c \in Procs : SysFork(p, c)
           \/ \E fd \in Fds :
                \/ "dup" \in Calls /\ SysDup(p, fd)
                \/ "dup3" \in Calls /\ \E nfd \in Fds : SysDup3(p, fd, nfd)
                \/ "close" \in Calls /\ SysClose(p, fd)
                \/ "lseek" \in Calls /\ \E x \in {1, USize - 1}, w \in 0 .. 3 : SysLseek(p, fd, x, w)
                \/ \E n \in Counts :
                     \/ "read" \in Calls /\ SysRead(p, fd, n)
                     \/ "readv" \in Calls /\ SysReadv(p, fd, n)
                     \/ "write" \in Calls /\ SysWrite(p, fd, n)
                     \/ "writev" \in Calls /\ \E n2 \in Counts : SysWritev(p, fd, n, n2)
                \/ "sendfile" \in Calls /\ \E out \in Fds : SysSendfile(p, out, fd)
           \/ "openat" \in Calls /\ \E k \in {"null", "zero"} : SysOpenat(p, Std(k))

Spec == Init /\ [][Next]_vars

(***************************************************************************)
(* Properties.                                                             *)
(***************************************************************************)

TypeOK == /\ alive \subseteq Procs
          /\ made \subseteq Pipes
          /\ fdt \in [Procs -> [Fds -> [file : Files, off : 0 .. MaxOffset,
                                        got : 0 .. MaxBytes + MaxOffset] \cup {None}]]
          /\ \A i \in Pipes : buf[i] \in Seq(1 .. MaxBytes) /\ nw[i] \in 0 .. MaxBytes
          /\ kpanic \in BOOLEAN
          /\ budget \in 0 .. MaxCalls

OnlyTrimmedBytesSkipped ==
    [][recv' # None =>
         LET g == fdt[recv'.p][recv'.fd].got
         IN  recv'.from = g + 1 \/ recv'.from - 1 <= Dropped(recv'.pipe)]_vars

=============================================================================

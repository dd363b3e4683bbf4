-------------------------------- MODULE Pipe --------------------------------
(* pf_pipe.h on POSIX: processes around one FIFO.  The kernel (its buffer, the rendezvous of open(), the
   end of a stream whose writers are gone) is external; an action is one system call, or the part of one
   that ends a wait.  Bytes are counted. *)
EXTENDS Naturals

CONSTANTS Peers,      \* processes, each with one pf_pipe_t
          Room        \* bytes the kernel's buffer holds

ASSUME BufferHolds == Room \in Nat

VARIABLES path,         \* the FIFO has its name
          bytes,        \* in the buffer
          mode,         \* per process: how its descriptor is open, or "closed"
          nonblocking,  \* per process: O_NONBLOCK
          doing,        \* per process: "idle", or the system call it is in
          overtaken,    \* history, per process: since its poll() another one read, or came to write to
                        \* a stream that had ended
          told          \* what the last call to return said, and to whom

fifovars == <<path, bytes, mode, nonblocking, doing, overtaken, told>>

Modes == {"read", "write", "both"}
Reads(m) == m \in {"read", "both"}
Writes(m) == m \in {"write", "both"}
Untold == [to |-> "nobody", what |-> "nothing"]

PipeInit ==
  /\ path = FALSE /\ bytes = 0
  /\ mode = [p \in Peers |-> "closed"] /\ nonblocking = [p \in Peers |-> FALSE]
  /\ doing = [p \in Peers |-> "idle"] /\ overtaken = [p \in Peers |-> FALSE]
  /\ told = Untold

Tell(p, what) ==
  /\ doing' = [doing EXCEPT ![p] = "idle"]
  /\ told' = [to |-> p, what |-> what]
Call(p, what) == doing' = [doing EXCEPT ![p] = what] /\ told' = Untold

Readers == {p \in Peers : Reads(mode[p])}
Writers == {p \in Peers : Writes(mode[p])}
OpenCall == [read |-> "open read", write |-> "open write", both |-> "open both"]
Opening == {OpenCall[m] : m \in Modes}

-----------------------------------------------------------------------------
(* pf_pipe_create() makes the FIFO and then opens it.  It takes any flag for PF_PIPE_RDWR, which shares
   its bits with the others: whoever creates a FIFO to read it has its other end as well. *)
FlagsOpened(flags) == IF flags = "none" THEN "read" ELSE "both"

MakeFifo(p, flags) ==
  /\ doing[p] = "idle" /\ mode[p] = "closed"
  /\ IF path THEN Tell(p, "EEXIST") /\ UNCHANGED path
     ELSE Call(p, OpenCall[FlagsOpened(flags)]) /\ path' = TRUE
  /\ UNCHANGED <<bytes, mode, nonblocking, overtaken>>

(* pf_pipe_open(). *)
Open(p, m) ==
  /\ doing[p] = "idle" /\ mode[p] = "closed"
  /\ IF path THEN Call(p, OpenCall[m]) ELSE Tell(p, "ENOENT")
  /\ UNCHANGED <<path, bytes, mode, nonblocking, overtaken>>

(* open() waits for somebody at the other end, or fails: the FIFO then stays where it is. *)
Opened(p, m) ==
  /\ doing[p] = OpenCall[m]
  /\ \/ m = "both"
     \/ m = "read" /\ (Writers # {} \/ \E q \in Peers : doing[q] \in {"open write", "open both"})
     \/ m = "write" /\ (Readers # {} \/ \E q \in Peers : doing[q] \in {"open read", "open both"})
  /\ mode' = [mode EXCEPT ![p] = m]
  /\ nonblocking' = [nonblocking EXCEPT ![p] = FALSE]
  /\ overtaken' = [q \in Peers |-> overtaken[q] \/ (Writes(m) /\ doing[q] = "timed read" /\ bytes = 0)]
  /\ Tell(p, "OK")
  /\ UNCHANGED <<path, bytes>>

OpenFails(p) ==
  /\ doing[p] \in Opening
  /\ Tell(p, "errno")
  /\ UNCHANGED <<path, bytes, mode, nonblocking, overtaken>>

SetNonblocking(p, enabled) ==
  /\ doing[p] = "idle" /\ mode[p] # "closed"
  /\ nonblocking' = [nonblocking EXCEPT ![p] = enabled]
  /\ Tell(p, "OK")
  /\ UNCHANGED <<path, bytes, mode, overtaken>>

(* The buffer goes with the last descriptor. *)
DropDescriptor(p) ==
  /\ mode' = [mode EXCEPT ![p] = "closed"]
  /\ bytes' = IF \A q \in Peers : mode'[q] = "closed" THEN 0 ELSE bytes
  /\ UNCHANGED <<path, nonblocking, overtaken>>

Close(p) ==
  /\ doing[p] = "idle" /\ mode[p] # "closed"
  /\ DropDescriptor(p)
  /\ Tell(p, "OK")

(* A signal ends a process in whatever call it is: SIGPIPE does in a write() that nobody can read. *)
Killed(p) ==
  /\ doing[p] # "idle"
  /\ DropDescriptor(p)
  /\ doing' = [doing EXCEPT ![p] = "idle"] /\ told' = Untold

Destroy(p) ==
  /\ doing[p] = "idle" /\ path
  /\ path' = FALSE
  /\ (\A q \in Peers : mode[q] = "closed" /\ doing[q] \notin Opening)   \* bound: one FIFO at a time
  /\ Tell(p, "OK")
  /\ UNCHANGED <<bytes, mode, nonblocking, overtaken>>

-----------------------------------------------------------------------------
(* pf_pipe_write(): as much as there is room for, at least a byte. *)
BeginWrite(p) ==
  /\ doing[p] = "idle" /\ Writes(mode[p])
  /\ Call(p, "write")
  /\ UNCHANGED <<path, bytes, mode, nonblocking, overtaken>>

WriteFifo(p) ==
  /\ doing[p] = "write"
  /\ \/ /\ Readers = {} /\ Tell(p, "EPIPE") /\ UNCHANGED bytes
     \/ /\ Readers # {} /\ bytes = Room /\ nonblocking[p] /\ Tell(p, "EAGAIN") /\ UNCHANGED bytes
     \/ /\ Readers # {}
        /\ \E n \in 1 .. Room - bytes : bytes' = bytes + n
        /\ Tell(p, "data")
  /\ UNCHANGED <<path, mode, nonblocking, overtaken>>

(* pf_pipe_read(), and the read() of pf_pipe_read_timeout(). *)
BeginRead(p) ==
  /\ doing[p] = "idle" /\ Reads(mode[p])
  /\ Call(p, "read")
  /\ UNCHANGED <<path, bytes, mode, nonblocking, overtaken>>

ReadFifo(p) ==
  /\ doing[p] \in {"read", "timed read"}
  /\ \/ /\ bytes > 0
        /\ \E n \in 1 .. bytes : bytes' = bytes - n
        /\ overtaken' = [q \in Peers |-> doing[q] = "timed read" /\ q # p]
        /\ Tell(p, "data")
     \/ /\ bytes = 0 /\ Writers = {} /\ Tell(p, "end") /\ UNCHANGED <<bytes, overtaken>>
     \/ /\ bytes = 0 /\ Writers # {} /\ nonblocking[p]
        /\ Tell(p, "EAGAIN") /\ UNCHANGED <<bytes, overtaken>>
  /\ UNCHANGED <<path, mode, nonblocking>>

(* pf_pipe_read_timeout(): poll() and then read().  At the end of the stream poll() reports a mere hang-up
   on some systems (Linux), something to read on others. *)
BeginPoll(p) ==
  /\ doing[p] = "idle" /\ Reads(mode[p])
  /\ Call(p, "poll")
  /\ UNCHANGED <<path, bytes, mode, nonblocking, overtaken>>

ReadableOrLate == TRUE
Readable == bytes > 0 \/ Writers = {}

PollReady(p) ==
  /\ doing[p] = "poll" /\ Readable
  /\ Call(p, "timed read")
  /\ overtaken' = [overtaken EXCEPT ![p] = FALSE]
  /\ UNCHANGED <<path, bytes, mode, nonblocking>>

PollFails(p) ==
  /\ doing[p] = "poll"
  /\ \/ bytes = 0 /\ Tell(p, "ETIMEDOUT")
     \/ bytes = 0 /\ Writers = {} /\ Tell(p, "EIO")
     \/ Tell(p, "errno")
  /\ UNCHANGED <<path, bytes, mode, nonblocking, overtaken>>

PipeNext ==
  \E p \in Peers :
    \/ \E flags \in Modes \cup {"none"} : MakeFifo(p, flags)
    \/ \E m \in Modes : Open(p, m) \/ Opened(p, m)
    \/ OpenFails(p) \/ Close(p) \/ Killed(p) \/ Destroy(p)
    \/ \E enabled \in BOOLEAN : SetNonblocking(p, enabled)
    \/ BeginWrite(p) \/ WriteFifo(p) \/ BeginRead(p) \/ ReadFifo(p)
    \/ BeginPoll(p) \/ PollReady(p) \/ PollFails(p)
PipeSpec == PipeInit /\ [][PipeNext]_fifovars

-----------------------------------------------------------------------------
(* A read with a timeout is inside a read() that waits, where no timeout reaches it, only because since its
   own poll() another process took the bytes, or came to write to a stream that had ended. *)
TimedReadTimely ==
  \A p \in Peers :
    doing[p] = "timed read" /\ bytes = 0 /\ Writers # {} /\ ~nonblocking[p] => overtaken[p]
=============================================================================

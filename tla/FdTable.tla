------------------------------ MODULE FdTable ------------------------------
(***************************************************************************)
(* The file descriptor table of vfscore (lib/vfscore/fd.c, file.c) and the *)
(* calls of main.c and pipe.c that change it.  A file counts the entries   *)
(* that refer to it and the calls that use it, and is closed and freed     *)
(* with the last of them.                                                  *)
(*                                                                         *)
(* Threads are cooperative: a call on a file may block while it holds it,  *)
(* and so may the creation of a pipe or socket while it has reserved a     *)
(* descriptor; everything else runs without another thread in between.     *)
(*                                                                         *)
(* The descriptors of the model are those that follow stdin, stdout and    *)
(* stderr, which init_stdio opens on a file of their own that is static.   *)
(***************************************************************************)
EXTENDS Integers, FiniteSets

CONSTANTS Task,          \* threads
          File, NoFile,  \* file structures, as addresses: they are reused
          MaxFiles,      \* FDTABLE_MAX_FILES
          MaxCount,      \* bound on reference counts
          Calls          \* which calls are made, of "dup3", "reserve"

ASSUME FdAssumption ==
  MaxFiles \in Nat \ {0} /\ NoFile \notin File /\ IsFiniteSet(Task)

VARIABLES bitmap,    \* descriptors in use or reserved
          files,     \* the table
          f_count,   \* reference counts; 0: not allocated
          hold,      \* the file a thread's call uses
          reserved,  \* the descriptor a thread has reserved
          fault      \* an assertion has failed, or NULL was used

fdVars == <<bitmap, files, f_count, hold, reserved, fault>>

Fd == 0 .. MaxFiles - 1
NoFd == -1

FdInit ==
  /\ bitmap = {}
  /\ files = [d \in Fd |-> NoFile]
  /\ f_count = [f \in File |-> 0]
  /\ hold = [t \in Task |-> NoFile]
  /\ reserved = [t \in Task |-> NoFd]
  /\ fault = "none"

Idle(t) == hold[t] = NoFile /\ reserved[t] = NoFd

-----------------------------------------------------------------------------
\* Parts of the calls.  Bad... are wrong variants of the definitions that follow them.

Fhold(count, f) == [count EXCEPT ![f] = @ + 1]
Fdrop(count, f) == [count EXCEPT ![f] = @ - 1]

\* vfscore_alloc_fd returns the first descriptor that is free.
Full == bitmap = Fd
FirstFree(d) == d \notin bitmap /\ \A e \in Fd : e < d => e \in bitmap

\* vfscore_install_fd: the table takes over a reference of the caller, and drops the one
\* to the file that was there.
Installed(d, f) == [files EXCEPT ![d] = f]
AfterInstall(count, d) == IF files[d] = NoFile THEN count ELSE Fdrop(count, files[d])

\* fdalloc, with count before it: when the table is full the new reference is not
\* given back.
Fdalloc(count, f) ==
  \/ \E d \in Fd :
       /\ FirstFree(d)
       /\ bitmap' = bitmap \cup {d}
       /\ files' = Installed(d, f)
       /\ f_count' = AfterInstall(Fhold(count, f), d)
  \/ /\ Full
     /\ f_count' = Fhold(count, f)
     /\ UNCHANGED <<bitmap, files>>

-----------------------------------------------------------------------------
\* open: sys_open returns a file with one reference, which is dropped after fdalloc.
Open(t, f) ==
  /\ Idle(t) /\ f_count[f] = 0
  /\ Fdalloc(f_count, f)
  /\ UNCHANGED <<hold, reserved, fault>>

\* vfscore_get_file, with which read, write and other calls begin, ...
Get(t, d) ==
  /\ Idle(t) /\ d \in bitmap /\ files[d] # NoFile
  /\ f_count' = Fhold(f_count, files[d])
  /\ hold' = [hold EXCEPT ![t] = files[d]]
  /\ UNCHANGED <<bitmap, files, reserved, fault>>

\* ... for a descriptor that is reserved: whichever call it is, it holds the file NULL.
GetNull(t, d) ==
  /\ Idle(t) /\ d \in bitmap /\ files[d] = NoFile
  /\ fault' = "null"
  /\ UNCHANGED <<bitmap, files, f_count, hold, reserved>>

\* The fdrop with which they end.
Put(t) ==
  /\ hold[t] # NoFile
  /\ f_count' = Fdrop(f_count, hold[t])
  /\ hold' = [hold EXCEPT ![t] = NoFile]
  /\ UNCHANGED <<bitmap, files, reserved, fault>>

BadClose(t, d) ==  \* vfscore_put_fd forgets the bit
  /\ Idle(t) /\ d \in bitmap /\ files[d] # NoFile
  /\ files' = Installed(d, NoFile)
  /\ f_count' = Fdrop(f_count, files[d])
  /\ UNCHANGED <<bitmap, hold, reserved, fault>>

\* close: vfscore_get_file, vfscore_put_fd and fdrop.
Close(t, d) ==
  /\ Idle(t) /\ d \in bitmap /\ files[d] # NoFile
  /\ bitmap' = bitmap \ {d}
  /\ files' = Installed(d, NoFile)
  /\ f_count' = Fdrop(f_count, files[d])
  /\ UNCHANGED <<hold, reserved, fault>>

\* dup and fcntl(F_DUPFD): fget, fdalloc and fdrop; fcntl returns without the last when
\* fdalloc fails.
Dup(t, d, fcntl) ==
  /\ Idle(t) /\ d \in bitmap /\ files[d] # NoFile
  /\ Fdalloc(IF fcntl /\ Full THEN Fhold(f_count, files[d]) ELSE f_count, files[d])
  /\ UNCHANGED <<hold, reserved, fault>>

\* dup3: both files are held, the new descriptor is closed if it is open, the file is
\* installed there, and the hold on it dropped.  The hold on the other is kept.
Dup3(t, old, new) ==
  LET f == files[old]  g == files[new]
  IN  /\ "dup3" \in Calls
      /\ Idle(t) /\ old # new /\ old \in bitmap /\ f # NoFile
      /\ new \in bitmap => g # NoFile
      /\ f_count' = LET held == Fhold(f_count, f)
                    IN  Fdrop(IF new \in bitmap THEN Fdrop(Fhold(held, g), g) ELSE held, f)
      /\ bitmap' = bitmap \cup {new}
      /\ files' = Installed(new, f)
      /\ UNCHANGED <<hold, reserved, fault>>

\* pipe_fd_alloc and socket_alloc_fd reserve a descriptor, ...
Reserve(t, d) ==
  /\ "reserve" \in Calls
  /\ Idle(t) /\ FirstFree(d)
  /\ bitmap' = bitmap \cup {d}
  /\ reserved' = [reserved EXCEPT ![t] = d]
  /\ UNCHANGED <<files, f_count, hold, fault>>

\* ... get a vnode and a dentry, and install the file, ...
Install(t, f) ==
  /\ reserved[t] # NoFd /\ f_count[f] = 0
  /\ files' = Installed(reserved[t], f)
  /\ f_count' = AfterInstall(Fhold(f_count, f), reserved[t])
  /\ reserved' = [reserved EXCEPT ![t] = NoFd]
  /\ UNCHANGED <<bitmap, hold, fault>>

\* ... or fail and put the descriptor back.
Cancel(t) ==
  /\ reserved[t] # NoFd
  /\ bitmap' = bitmap \ {reserved[t]}
  /\ reserved' = [reserved EXCEPT ![t] = NoFd]
  /\ UNCHANGED <<files, f_count, hold, fault>>

\* pipe, when pipe_fd_alloc has failed: its result is not passed on, and the assertion
\* at the end of the error path fails.
PipeFails(t) ==
  /\ "reserve" \in Calls
  /\ Idle(t) /\ Full
  /\ fault' = "assert"
  /\ UNCHANGED <<bitmap, files, f_count, hold, reserved>>

Small == \A f \in File : f_count[f] <= MaxCount

\* No entry refers to memory that was freed; nothing is said of what follows.
Defined == \A d \in Fd : files[d] # NoFile => f_count[files[d]] > 0

FdNext ==
  /\ fault = "none" /\ Defined /\ Small
  /\ \E t \in Task :
       \/ \E f \in File : Open(t, f) \/ Install(t, f)
       \/ \E d \in Fd : Get(t, d) \/ GetNull(t, d) \/ Close(t, d) \/ Reserve(t, d)
       \/ \E d \in Fd : Dup(t, d, FALSE) \/ Dup(t, d, TRUE)
       \/ \E d, e \in Fd : Dup3(t, d, e)
       \/ Put(t) \/ Cancel(t) \/ PipeFails(t)

FdSpec == FdInit /\ [][FdNext]_fdVars

-----------------------------------------------------------------------------
FdTypeOK ==
  /\ bitmap \subseteq Fd
  /\ files \in [Fd -> File \cup {NoFile}]
  /\ f_count \in [File -> Int]
  /\ hold \in [Task -> File \cup {NoFile}]
  /\ reserved \in [Task -> Fd \cup {NoFd}]

Refs(f) == Cardinality({d \in Fd : files[d] = f}) + Cardinality({t \in Task : hold[t] = f})

\* A file is not freed under a descriptor or a call that still refers to it, in whatever
\* order threads close, duplicate and use descriptors.
RefsCovered == \A f \in File : Refs(f) <= f_count[f]

\* The bitmap has exactly the descriptors that are open or that a thread has reserved,
\* and no two threads have reserved the same.
BitmapExact ==
  /\ bitmap = {d \in Fd : files[d] # NoFile} \cup ({reserved[t] : t \in Task} \ {NoFd})
  /\ \A t, u \in Task : reserved[t] = reserved[u] /\ reserved[t] # NoFd => t = u
  /\ \A t \in Task : reserved[t] # NoFd => files[reserved[t]] = NoFile

\* Its inductive form: whichever of open, close, dup, dup3, pipe and the calls that use a
\* file the threads make, the table stays well-formed and the bitmap exact.
BitmapInv == FdTypeOK /\ BitmapExact

\* fhold and fdrop are balanced: a file that nothing refers to any more is closed.
CountBalanced == \A f \in File : f_count[f] = Refs(f)

\* No call follows the NULL of a descriptor that is reserved and not yet installed.
NoNullFile == fault # "null"

\* The assertion of pipe's error path holds.
PipeAssertHolds == fault # "assert"
=============================================================================

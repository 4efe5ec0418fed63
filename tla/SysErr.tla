------------------------------- MODULE SysErr -------------------------------
(***************************************************************************)
(* The calls of the test program ece391syserr.c, in the order in which its *)
(* case 0 makes them, each with the outcome the program accepts: fails     *)
(* says that the call has to return -1.                                    *)
(***************************************************************************)
EXTENDS Integers, SequencesExt

CONSTANT FILE_ARRAY_SIZE

NEG_FD == -7
BIG_FD == FILE_ARRAY_SIZE + 7

Refused(op, arg) == [op |-> op, arg |-> arg, fails |-> TRUE]
Accepted(op, arg) == [op |-> op, arg |-> arg, fails |-> FALSE]

OverFds(first, C(_)) ==
    [k \in 1 .. FILE_ARRAY_SIZE - first |-> C(first + k - 1)]

err_bad_fd(f) == <<Refused("read", f), Refused("write", f), Refused("close", f)>>

(* One open more than there are descriptors; then all are closed.          *)
err_open_lots ==
    OverFds(2, LAMBDA f : Accepted("open", "."))
    \o <<Refused("open", ".")>>
    \o OverFds(2, LAMBDA f : Accepted("close", f))

(* Names that are not in the directory: one too long, one too short, none. *)
err_open ==
    <<Refused("open", "helloo"), Refused("open", "shel"), Refused("open", "")>>

err_unopened ==
    OverFds(0, LAMBDA f : Refused("close", f))
    \o OverFds(2, LAMBDA f : Refused("read", f))
    \o OverFds(2, LAMBDA f : Refused("write", f))

err_vidmap == <<Refused("vidmap", "null"), Refused("vidmap", "kernel")>>

err_stdin_out == <<Refused("write", 0), Refused("read", 1)>>

err_syscall_num ==
    <<Refused("number", 1000), Refused("number", -1000), Refused("number", 0)>>

SysErrCalls ==
    FlattenSeq(<<err_bad_fd(NEG_FD), err_bad_fd(BIG_FD), err_open_lots,
                 err_open, err_unopened, err_vidmap, err_stdin_out,
                 err_syscall_num>>)
=============================================================================

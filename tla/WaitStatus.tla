------------------------------ MODULE WaitStatus ------------------------------
(***************************************************************************)
(* How the end of a child reads in a siginfo_t, in a wait status, and in   *)
(* a WaitRecord (src/zygote-sys/src/lib.rs).                               *)
(***************************************************************************)
EXTENDS Integers

CoreFlag == 128   (* 0x80 *)

(* W_EXITCODE, WIFEXITED, WEXITSTATUS, WIFSIGNALED and WTERMSIG of libc.   *)
W_EXITCODE(code, signal) == code * 256 + signal
WTERMSIG(status) == status % 128
WIFEXITED(status) == WTERMSIG(status) = 0
WEXITSTATUS(status) == (status \div 256) % 256
WIFSIGNALED(status) == WTERMSIG(status) \notin {0, 127}

(* waitid(WEXITED) fills in one of three codes.                            *)
SigInfo(end) ==
  CASE end.how = "exit" -> [code |-> "CLD_EXITED", status |-> end.value]
    [] end.how = "kill" -> [code |-> "CLD_KILLED", status |-> end.value]
    [] end.how = "dump" -> [code |-> "CLD_DUMPED", status |-> end.value]

(* Faulty RawStatus: the exit code is not shifted.                         *)
RawStatusUnshifted(siginfo) == siginfo.status

(* raw_status_from_siginfo                                                 *)
RawStatus(siginfo) ==
  CASE siginfo.code = "CLD_EXITED" -> W_EXITCODE(siginfo.status, 0)
    [] siginfo.code = "CLD_KILLED" -> W_EXITCODE(0, siginfo.status % 128)
    [] siginfo.code = "CLD_DUMPED" -> W_EXITCODE(0, (siginfo.status % 128) + CoreFlag)

(* WaitRecord::try_from_siginfo and WaitRecord::try_from_status            *)
FromSigInfo(siginfo) ==
  IF siginfo.code = "CLD_EXITED"
  THEN [record |-> "Exited", status |-> siginfo.status]
  ELSE [record |-> "Signaled", signal |-> siginfo.status]

FromStatus(status) ==
  IF WIFEXITED(status)
  THEN [record |-> "Exited", status |-> WEXITSTATUS(status)]
  ELSE IF WIFSIGNALED(status) THEN [record |-> "Signaled", signal |-> WTERMSIG(status)]
       ELSE [record |-> "InvalidWaitStatus"]

=============================================================================

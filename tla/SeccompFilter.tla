---------------------------- MODULE SeccompFilter ----------------------------
(***************************************************************************)
(* The seccomp profiles (aivisor-runtime seccomp.rs): the classic BPF      *)
(* programs that apply_seccomp builds and installs, and what the kernel    *)
(* answers when it runs one of them on a system call.                      *)
(*                                                                         *)
(* A system call is an architecture and a name that stands for its number  *)
(* there.  An action is "ALLOW", "KILL_PROCESS" or an errno.               *)
(***************************************************************************)
EXTENDS Integers, Sequences, Functions

Native == "native"    \* native_audit_arch()
Architectures == {Native, "foreign"}
Call(arch, nr) == [arch |-> arch, nr |-> nr]

-----------------------------------------------------------------------------
(* The instructions the builders use *)

Load(field) == [op |-> "load", field |-> field]
JumpIfEqual(k, jt, jf) == [op |-> "jeq", k |-> k, jt |-> jt, jf |-> jf]
Return(action) == [op |-> "ret", action |-> action]

\* build_arch_check: on equality skip the kill, otherwise fall into it.
BuildArchCheck_Swapped(arch) == <<Load("arch"), JumpIfEqual(arch, 0, 1), Return("KILL_PROCESS")>>
BuildArchCheck(arch) == <<Load("arch"), JumpIfEqual(arch, 1, 0), Return("KILL_PROCESS")>>

\* The loops of build_default_bpf and build_strict_bpf: one test and one return
\* for each row of a table of (number, action).
BuildRows(table) ==
  [n \in 1 .. 2 * Len(table) |->
     LET row == table[(n + 1) \div 2] IN
     IF n % 2 = 1 THEN JumpIfEqual(row.nr, 0, 1) ELSE Return(row.action)]

Build(table, otherwise) ==
  BuildArchCheck(Native) \o <<Load("nr")>> \o BuildRows(table) \o <<Return(otherwise)>>

-----------------------------------------------------------------------------
(* The profiles *)

Rows(names, action) == [i \in DOMAIN names |-> [nr |-> names[i], action |-> action]]

\* The rows of the table, grouped by action; a number appears once, so that the
\* order of the rows does not matter.
DefaultTable ==
  Rows(<<"init_module", "finit_module", "delete_module", "kexec_load", "kexec_file_load", "bpf",
         "pivot_root", "reboot", "iopl", "ioperm", "acct">>, "KILL_PROCESS")
  \o Rows(<<"perf_event_open", "ptrace", "process_vm_readv", "process_vm_writev", "setns",
            "mount_setattr", "open_by_handle_at", "name_to_handle_at", "swapon", "swapoff",
            "clock_settime", "settimeofday", "adjtimex", "unshare", "keyctl", "add_key",
            "request_key", "pidfd_getfd", "personality", "move_pages", "fanotify_init", "seccomp",
            "quotactl">>, "EPERM")
  \o Rows(<<"userfaultfd", "memfd_secret", "io_uring_setup", "nfsservctl">>, "ENOSYS")

StrictTable ==
  Rows(<<"read", "write", "openat", "close", "fstat", "newfstatat", "mmap", "mprotect", "munmap",
         "exit_group", "exit", "brk", "access", "faccessat2", "readlinkat", "getdents64",
         "getrandom", "clock_gettime", "nanosleep", "clone3", "madvise", "rt_sigaction",
         "rt_sigprocmask", "rt_sigreturn", "getpid", "gettid", "getppid", "getuid", "geteuid",
         "getgid", "getegid", "lseek", "dup", "dup3", "pipe2", "pselect6", "ppoll", "writev",
         "readv", "sched_yield", "prctl", "arch_prctl", "set_tid_address", "set_robust_list",
         "rseq">>, "ALLOW")

\* apply_seccomp knows two profiles, and fails for any other name.
Profiles == {"aivisor-default", "aivisor-strict"}
Table(profile) == IF profile = "aivisor-strict" THEN StrictTable ELSE DefaultTable
Otherwise(profile) == IF profile = "aivisor-strict" THEN "KILL_PROCESS" ELSE "ALLOW"
Programs == [p \in Profiles |-> Build(Table(p), Otherwise(p))]

-----------------------------------------------------------------------------
(* The kernel's interpreter *)

\* The action the program reaches from instruction pc with acc loaded; a jump
\* counts from the instruction after it.
Verdict(program, call) ==
  LET Run[pc \in 1 .. Len(program), acc \in {call.arch, call.nr, "none"}] ==
        LET insn == program[pc] IN
        CASE insn.op = "load" -> Run[pc + 1, call[insn.field]]
          [] insn.op = "jeq"  -> Run[pc + 1 + (IF acc = insn.k THEN insn.jt ELSE insn.jf), acc]
          [] insn.op = "ret"  -> insn.action
  IN  Run[1, "none"]

Listed(profile) == {row.nr : row \in Range(Table(profile))}
=============================================================================

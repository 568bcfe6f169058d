-------------------------------- MODULE Pty --------------------------------
(***************************************************************************)
(* The PTYs of a serve process and the children on them (otp-platform,     *)
(* pty.rs; otp-terminal, hub.rs): how a shell is forked, tied to the life  *)
(* of its parent and executed, how it is read from, and what ends it.      *)
(*                                                                         *)
(* Between the fork and the exec the child runs pre_exec on its own.  The  *)
(* parent-death signal it asks for is sent when the THREAD that forked it  *)
(* ends; the parent pid it then compares changes when the PROCESS is gone. *)
(* A signal that is due is taken at once: the child never runs after it.   *)
(* Conn, the connections of Lease, stands for their threads too.           *)
(***************************************************************************)
EXTENDS Lease

CONSTANTS
    SpawnThread, \* the thread otp-term-pty-spawn
    MaxHandle,   \* bound on next_handle: terminals ever opened
    MaxOut       \* bound on the chunks of output waiting in a PTY

ASSUME PtyAssumption ==
    /\ MaxHandle \in Nat /\ MaxOut \in Nat
    /\ NoConn \notin Conn /\ SpawnThread \notin Conn \cup {NoConn}

VARIABLES
    alive,    \* the serve process runs
    shell,    \* shell[h]: how far the child on PTY h is
    anchor,   \* anchor[h]: the thread that forked it
    out       \* out[h]: chunks of output not yet read from the master

ptyVars == <<alive, shell, anchor, out>>

Handles == 1 .. MaxHandle

\* "aborted": pre_exec or exec failed, cmd.spawn() reports an error.
ShellStates == {"none", "master", "forked", "armed", "running", "exited",
                "killed", "aborted"}

\* What try_wait finds of a shell that had been executed.
Over(h) == shell[h] \in {"exited", "killed"}

PtyTypeOK ==
    /\ alive \in BOOLEAN
    /\ shell \in [Handles -> ShellStates]
    /\ anchor \in [Handles -> Conn \cup {NoConn, SpawnThread}]
    /\ out \in [Handles -> 0 .. MaxOut]

PtyInit ==
    /\ alive = TRUE
    /\ shell = [h \in Handles |-> "none"]
    /\ anchor = [h \in Handles |-> NoConn]
    /\ out = [h \in Handles |-> 0]

\* The children in H are killed or get their parent-death signal.  One that
\* has not asked for the signal yet goes on.
Killed(H) ==
    [h \in Handles |-> IF h \in H /\ shell[h] \in {"armed", "running"}
                       THEN "killed" ELSE shell[h]]

\* Mutant of Anchor: the connection thread forks the shell itself.
AnchorCaller(c) == c

\* The thread that forks the shell a connection asked for: the job is sent to
\* the spawn thread, which lives as long as the process.
Anchor(c) == SpawnThread

\* PtyMaster::open: the master is there, non-blocking, with its window size.
OpenMaster(h) ==
    /\ shell[h] = "none"
    /\ shell' = [shell EXCEPT ![h] = "master"]
    /\ UNCHANGED <<alive, anchor, out>>

\* spawn_on_pty: the three opens of the slave and the fork succeeded.
Fork(h, c) ==
    /\ shell[h] = "master"
    /\ shell' = [shell EXCEPT ![h] = "forked"]
    /\ anchor' = [anchor EXCEPT ![h] = Anchor(c)]
    /\ UNCHANGED <<alive, out>>

\* pre_exec: setsid, TIOCSCTTY and PR_SET_PDEATHSIG, or one of them fails.
ChildArms(h) ==
    /\ shell[h] = "forked"
    /\ \E s \in {"armed", "aborted"} : shell' = [shell EXCEPT ![h] = s]
    /\ UNCHANGED <<alive, anchor, out>>

\* Mutant of ChildExecs: getppid is not compared.
ChildExecsAnyway(h) ==
    /\ shell[h] = "armed"
    /\ \E s \in {"running", "aborted"} : shell' = [shell EXCEPT ![h] = s]
    /\ UNCHANGED <<alive, anchor, out>>

\* A parent that is gone by now never sent the signal: the child gives up.
ChildExecs(h) ==
    /\ shell[h] = "armed"
    /\ \E s \in {"running", "aborted"} :
         /\ s = "running" => alive
         /\ shell' = [shell EXCEPT ![h] = s]
    /\ UNCHANGED <<alive, anchor, out>>

\* read_timeout with no wait: data while there is any.  A chunk is as much
\* as one drain_pty takes.
ReadTimeout(h) == IF out[h] > 0 THEN 1 ELSE 0

ShellOutput(h) ==
    /\ shell[h] = "running" /\ out[h] < MaxOut
    /\ out' = [out EXCEPT ![h] = @ + 1]
    /\ UNCHANGED <<alive, shell, anchor>>

ShellExits(h) ==
    /\ shell[h] = "running"
    /\ shell' = [shell EXCEPT ![h] = "exited"]
    /\ UNCHANGED <<alive, anchor, out>>

\* The serve process is killed: all its threads end at once.
ServeDies ==
    /\ alive
    /\ alive' = FALSE
    /\ shell' = Killed(Handles)
    /\ UNCHANGED <<anchor, out>>

\* A connection thread ends: its children get the signal, and so do the
\* children of the hubs H whose last reference it held (Drop for PtyHub).
ThreadDies(c, H) ==
    /\ shell' = Killed({h \in Handles : anchor[h] = c \/ h \in H})
    /\ UNCHANGED <<alive, anchor, out>>

\* No shell survives the serve process, wherever the kill meets the start of
\* the shell: before the child asked for its parent-death signal, or after.
NoOrphanShell == ~alive => \A h \in Handles : shell[h] # "running"
============================================================================

--------------------------- MODULE TerminalProofs ---------------------------
(***************************************************************************)
(* Proofs about the terminal: the server, for every number of connections  *)
(* and terminals (the fencing of writes, the one holder of a lease, what a *)
(* shell survives); then one client and its connection, for every setting  *)
(* of the times (the lease is kept, the exit code is not lost).            *)
(***************************************************************************)
EXTENDS Terminal, TerminalClient, TLAPS

(***************************************************************************)
(* The inductive invariant.                                                *)
(***************************************************************************)

\* The calls a connection makes between its grant and the drop of it.
Driving == {"granted", "recv", "resize", "write", "sliceDrain", "drain", "exit",
            "check", "finish"}

\* What the locals of a thread are at each of its calls.
Threads ==
    \A c \in Conn :
        /\ tok[c] > 0 => on[c] \in Handles
        /\ pc[c] \in {"first", "open"} => on[c] = 0 /\ tok[c] = 0
        /\ pc[c] = "acquire" => on[c] \in Handles /\ tok[c] = 0
        /\ pc[c] \in Driving \cup {"retire"} => tok[c] > 0
        /\ pc[c] = "write" => slices[c] > 0

\* The terminal whose shell is being started under the registry mutex.
InOpen(h) == opener # NoConn /\ h = Opening

\* A handle is used by one open; outside the open of its terminal a shell is
\* not in the middle of its start, and one that runs is registered; only the
\* spawn thread forks; an exit is cached only after it happened.
Registry ==
    /\ \A c \in Conn : pc[c] = "open" => opener = c
    /\ opener # NoConn => nextHandle > 1
    /\ \A h \in Handles :
         /\ h >= nextHandle => shell[h] = "none"
         /\ shell[h] \in {"master", "forked", "armed"} => InOpen(h)
         /\ shell[h] = "running" => InOpen(h) \/ h \in registered
         /\ exitSeen[h] => Over(h)
         /\ anchor[h] \in {NoConn, SpawnThread}
    /\ \A h \in registered : h < nextHandle /\ ~InOpen(h)
    /\ \A c \in Conn : on[c] # 0 => on[c] < nextHandle /\ ~InOpen(on[c])

\* Nobody writes with a token that was not granted yet.
WritersGranted == \A h \in Handles : writer[h] <= lease[h].token

IInv ==
    /\ TypeOK
    /\ Threads
    /\ Registry
    /\ OneHolder
    /\ WritersGranted
    /\ NoOrphanShell
-----------------------------------------------------------------------------
(***************************************************************************)
(* The steps of the data plane, from the grant to the end of the turn.     *)
(***************************************************************************)

\* What all of them have in common.
Turn(c) ==
    /\ pc[c] \in Driving
    /\ \E l \in Driving : /\ pc' = [pc EXCEPT ![c] = l]
                          /\ l = "write" => slices'[c] > 0
    /\ lease' = lease \/ lease' = [lease EXCEPT ![on[c]] = Renewed(lease[on[c]])]
    /\ \/ writer' = writer
       \/ Mine(c) /\ writer' = [writer EXCEPT ![on[c]] = tok[c]]
    /\ \/ exitSeen' = exitSeen
       \/ Over(on[c]) /\ exitSeen' = [exitSeen EXCEPT ![on[c]] = TRUE]
    /\ \/ slices' = slices
       \/ \E n \in 0 .. MaxSlices : slices' = [slices EXCEPT ![c] = n]
    /\ ending' = ending \/ ending' = [ending EXCEPT ![c] = TRUE]
    /\ exitSent' = exitSent \/ exitSent' = [exitSent EXCEPT ![c] = TRUE]
    /\ out' \in [Handles -> 0 .. MaxOut]
    /\ UNCHANGED <<regVars, alive, shell, anchor, on, tok>>

\* A step of the data plane neither moves the lease nor the shell, and it
\* writes only with the newest token.
LEMMA TurnKeeps ==
    ASSUME IInv, NEW c \in Conn, Turn(c)
    PROVE  IInv' /\ \A h \in Handles : writer'[h] >= writer[h]
<1> USE PtyAssumption, TerminalAssumption
<1>1. /\ on[c] \in Handles /\ tok[c] \in Nat /\ tok[c] > 0
      /\ \A d \in Conn : on[d] \in Handles \cup {0} /\ tok[d] \in Nat
  BY DEF IInv, TypeOK, Threads, Turn
<1>2. PICK l \in Driving : /\ pc' = [pc EXCEPT ![c] = l]
                           /\ l = "write" => slices'[c] > 0
  BY DEF Turn
<1>3. \A h \in Handles : /\ lease[h] \in LeaseRecord
                         /\ lease'[h] \in LeaseRecord
                         /\ lease'[h].token = lease[h].token
                         /\ lease'[h].holder = lease[h].holder
                         /\ lease'[h].abandoned = lease[h].abandoned
  <2>1. lease \in [Handles -> LeaseRecord]
    BY DEF IInv, TypeOK
  <2>2. ASSUME NEW r \in LeaseRecord
        PROVE  /\ Renewed(r) \in LeaseRecord /\ Renewed(r).token = r.token
               /\ Renewed(r).holder = r.holder
               /\ Renewed(r).abandoned = r.abandoned
    BY DEF LeaseRecord, Renewed
  <2> QED
    BY <1>1, <2>1, <2>2 DEF Turn
<1>4. \A h \in Handles : writer'[h] \in Nat /\ writer'[h] >= writer[h]
                         /\ writer'[h] <= lease[h].token
  <2>1. \A h \in Handles : writer[h] \in Nat /\ writer[h] <= lease[h].token
    BY DEF IInv, TypeOK, WritersGranted
  <2>2. Mine(c) => tok[c] = lease[on[c]].token
    BY DEF Mine, IsCurrent
  <2>3. writer \in [Handles -> Nat]
    BY DEF IInv, TypeOK
  <2> QED
    BY <1>1, <1>3, <2>1, <2>2, <2>3 DEF Turn, LeaseRecord
<1>5. TypeOK'
  <2>1. lease' \in [Handles -> LeaseRecord]
    BY <1>3 DEF IInv, TypeOK, Turn
  <2>2. writer' \in [Handles -> Nat]
    BY <1>1, <1>4 DEF IInv, TypeOK, Turn
  <2>3. pc' \in [Conn -> Labels]
    BY <1>2 DEF IInv, TypeOK, Driving, Labels
  <2>4. exitSeen' \in [Handles -> BOOLEAN] /\ ending' \in [Conn -> BOOLEAN]
        /\ exitSent' \in [Conn -> BOOLEAN]
    BY DEF IInv, TypeOK, Turn
  <2>5. slices' \in [Conn -> 0 .. MaxSlices]
    BY DEF IInv, TypeOK, Turn
  <2> QED
    BY <2>1, <2>2, <2>3, <2>4, <2>5 DEF IInv, TypeOK, PtyTypeOK, Turn, regVars
<1>6. \A d \in Conn : d # c => pc'[d] = pc[d] /\ slices'[d] = slices[d]
  BY <1>2 DEF IInv, TypeOK, Turn
<1>7. pc'[c] = l /\ l \in Driving
  BY <1>2 DEF IInv, TypeOK
<1>8. UNCHANGED <<regVars, alive, shell, anchor, on, tok>>
  BY DEF Turn
<1>9. Threads'
  <2> SUFFICES ASSUME NEW d \in Conn
               PROVE  /\ tok[d] > 0 => on[d] \in Handles
                      /\ pc'[d] \in {"first", "open"} => on[d] = 0 /\ tok[d] = 0
                      /\ pc'[d] = "acquire" => on[d] \in Handles /\ tok[d] = 0
                      /\ pc'[d] \in Driving \cup {"retire"} => tok[d] > 0
                      /\ pc'[d] = "write" => slices'[d] > 0
    BY <1>8 DEF Threads
  <2>1. CASE d = c
    BY <1>1, <1>2, <1>7, <2>1 DEF Driving
  <2>2. CASE d # c
    BY <1>6, <2>2 DEF IInv, Threads
  <2> QED
    BY <2>1, <2>2
<1>10. Registry'
  <2>1. \A d \in Conn : pc'[d] = "open" => opener' = d
    BY <1>6, <1>7, <1>8 DEF IInv, Registry, Driving, regVars
  <2>2. \A h \in Handles : exitSeen'[h] => Over(h)'
    BY <1>1, <1>8 DEF IInv, TypeOK, Registry, Turn, Over
  <2> QED
    BY <2>1, <2>2, <1>8 DEF IInv, Registry, InOpen, Opening, regVars, Over
<1>11. OneHolder'
  <2> SUFFICES ASSUME NEW h \in Handles, NEW d \in Conn, Attached(d, h)
               PROVE  /\ \A e \in Conn : Attached(e, h) /\ tok[d] = tok[e] => d = e
                      /\ tok[d] <= lease'[h].token
                      /\ tok[d] = lease'[h].token =>
                           /\ lease'[h].holder = d
                           /\ lease'[h].abandoned <=>
                                pc'[d] = "retire" \/ pc'[d] \in {"done", "gone"}
    BY <1>8 DEF OneHolder, Attached, Ended
  <2>1. /\ pc'[d] = "retire" \/ pc'[d] \in {"done", "gone"}
           <=> pc[d] = "retire" \/ pc[d] \in {"done", "gone"}
    BY <1>6, <1>7 DEF Driving, Turn
  <2> QED
    BY <1>3, <2>1 DEF IInv, OneHolder, Ended
<1>12. NoOrphanShell'
  BY <1>8 DEF IInv, NoOrphanShell
<1> QED
  BY <1>3, <1>4, <1>5, <1>9, <1>10, <1>11, <1>12 DEF IInv, WritersGranted

\* Receiving a frame, or none.
LEMMA ReceiveIsTurn ==
    ASSUME IInv, NEW c \in Conn,
           \/ RecvInput(c) \/ RecvResize(c) \/ RecvPing(c) \/ RecvUnexpected(c)
           \/ RecvTimeout(c) \/ RecvClosed(c)
    PROVE  Turn(c)
<1> USE PtyAssumption, TerminalAssumption
<1> USE DEF Driving, Goto, regVars, connVars, hubVars, ptyVars
<1>1. out \in [Handles -> 0 .. MaxOut] /\ slices \in [Conn -> 0 .. MaxSlices]
  BY DEF IInv, TypeOK, PtyTypeOK
<1>2. Heartbeat(c) =>
        lease' = lease \/ lease' = [lease EXCEPT ![on[c]] = Renewed(lease[on[c]])]
  BY DEF Heartbeat
<1>3. CASE RecvInput(c)
  <2>1. CASE Mine(c)
    <3>1. PICK n \in 1 .. MaxSlices : slices' = [slices EXCEPT ![c] = n]
      BY <1>3, <2>1 DEF RecvInput
    <3>2. slices'[c] > 0
      BY <1>1, <3>1
    <3>3. n \in 0 .. MaxSlices
      OBVIOUS
    <3>4. \E k \in 0 .. MaxSlices : slices' = [slices EXCEPT ![c] = k]
      BY <3>1, <3>3, Zenon
    <3> QED
      BY <1>1, <1>2, <1>3, <2>1, <3>2, <3>4 DEF RecvInput, Turn
  <2>2. CASE ~Mine(c)
    BY <1>1, <1>2, <1>3, <2>2 DEF RecvInput, Turn
  <2> QED
    BY <2>1, <2>2
<1>4. CASE RecvResize(c)
  BY <1>1, <1>2, <1>4 DEF RecvResize, Turn
<1>5. CASE RecvPing(c) \/ RecvUnexpected(c)
  BY <1>1, <1>2, <1>5 DEF RecvPing, RecvUnexpected, Turn
<1>6. CASE RecvTimeout(c) \/ RecvClosed(c)
  BY <1>1, <1>6 DEF RecvTimeout, RecvClosed, Turn
<1> QED
  BY <1>3, <1>4, <1>5, <1>6

\* Everything that reaches the PTY passes the write gate.
LEMMA GatedIsTurn ==
    ASSUME IInv, NEW c \in Conn,
           SendGranted(c) \/ Resize(c) \/ WriteSlice(c) \/ WriteFails(c)
    PROVE  Turn(c)
<1> USE PtyAssumption, TerminalAssumption
<1> USE DEF Driving, Goto, regVars, connVars, hubVars, ptyVars, Gated
<1>1. out \in [Handles -> 0 .. MaxOut] /\ slices \in [Conn -> 0 .. MaxSlices]
  BY DEF IInv, TypeOK, PtyTypeOK
<1>2. CASE SendGranted(c) \/ Resize(c)
  BY <1>1, <1>2 DEF SendGranted, Resize, SetWinsize, Turn
<1>3. CASE WriteSlice(c)
  <2>1. slices[c] - 1 \in 0 .. MaxSlices
    BY <1>1, <1>3 DEF IInv, Threads, WriteSlice
  <2>2. slices' = [slices EXCEPT ![c] = slices[c] - 1]
    BY <1>3 DEF WriteSlice
  <2>3. \E n \in 0 .. MaxSlices : slices' = [slices EXCEPT ![c] = n]
    BY <2>1, <2>2
  <2> QED
    BY <1>1, <1>3, <2>3 DEF WriteSlice, WriteAllBounded, Turn
<1>4. CASE WriteFails(c)
  <2>1. 0 \in 0 .. MaxSlices /\ slices' = [slices EXCEPT ![c] = 0]
    BY <1>4 DEF WriteFails
  <2>2. \E n \in 0 .. MaxSlices : slices' = [slices EXCEPT ![c] = n]
    BY <2>1, Zenon
  <2> QED
    BY <1>1, <1>4, <2>2 DEF WriteFails, WriteAllBounded, Turn
<1> QED
  BY <1>2, <1>3, <1>4

\* The rest of a turn.
LEMMA RestIsTurn ==
    ASSUME IInv, NEW c \in Conn,
           \/ DrainBetweenSlices(c) \/ Drain(c) \/ DrainFails(c)
           \/ NoExit(c) \/ SendExit(c) \/ ExitWait(c) \/ ExitGrace(c) \/ Check(c)
    PROVE  Turn(c)
<1> USE PtyAssumption, TerminalAssumption
<1> USE DEF Driving, Goto, regVars, connVars, hubVars, ptyVars
<1>1. /\ out \in [Handles -> 0 .. MaxOut] /\ slices \in [Conn -> 0 .. MaxSlices]
      /\ pc \in [Conn -> Labels] /\ on[c] \in Handles \cup {0}
      /\ pc[c] \in Driving => on[c] \in Handles
  BY DEF IInv, TypeOK, PtyTypeOK, Threads
<1>2. ASSUME Drained(c), pc[c] \in Driving
      PROVE  out' \in [Handles -> 0 .. MaxOut]
  BY <1>1, <1>2 DEF Drained, ReadTimeout
<1>3. CASE DrainBetweenSlices(c)
  BY <1>1, <1>2, <1>3 DEF DrainBetweenSlices, Turn
<1>4. CASE Drain(c)
  BY <1>1, <1>2, <1>4 DEF Drain, Turn
<1>5. CASE DrainFails(c)
  <2>1. slices' = slices \/ \E n \in 0 .. MaxSlices : slices' = [slices EXCEPT ![c] = n]
    BY <1>5 DEF DrainFails
  <2> QED
    BY <1>1, <1>2, <1>5, <2>1 DEF DrainFails, Turn
<1>6. CASE NoExit(c) \/ ExitWait(c) \/ ExitGrace(c)
  BY <1>1, <1>6 DEF NoExit, ExitWait, ExitGrace, EndTurn, Turn
<1>7. CASE SendExit(c)
  <2>1. pc' = [pc EXCEPT ![c] = "exit"]
    BY <1>1, <1>7 DEF SendExit
  <2> QED
    BY <1>1, <1>7, <2>1 DEF SendExit, Turn
<1>8. CASE Check(c)
  BY <1>1, <1>8 DEF Check, Turn
<1> QED
  BY <1>3, <1>4, <1>5, <1>6, <1>7, <1>8

-----------------------------------------------------------------------------
(***************************************************************************)
(* The steps before the grant and the ones of the shells leave the leases  *)
(* and the writes alone.                                                   *)
(***************************************************************************)

\* The grant of a connection was dropped.
Released(c) == pc[c] = "retire" \/ Ended(c)

\* Holders change only with the lease, a token or the drop of a grant.
LEMMA HoldersStay ==
    ASSUME OneHolder, lease' = lease, tok' = tok,
           \A d \in Conn : tok[d] > 0 => /\ on'[d] = on[d]
                                         /\ Released(d)' <=> Released(d)
    PROVE  OneHolder'
<1> SUFFICES ASSUME NEW h \in Handles, NEW c \in Conn, Attached(c, h)'
             PROVE  /\ \A d \in Conn : Attached(d, h)' /\ tok[c] = tok[d] => c = d
                    /\ tok[c] <= lease[h].token
                    /\ tok[c] = lease[h].token =>
                         /\ lease[h].holder = c
                         /\ lease[h].abandoned <=> Released(c)'
  BY DEF OneHolder, Released
<1>1. \A d \in Conn : Attached(d, h)' => Attached(d, h)
  BY DEF Attached
<1>2. Attached(c, h) /\ (Released(c)' <=> Released(c))
  BY <1>1 DEF Attached
<1> QED
  BY <1>1, <1>2 DEF OneHolder, Released

\* The first frame.
LEMMA ArriveKeeps ==
    ASSUME IInv, NEW c \in Conn, Arrive(c)
    PROVE  IInv' /\ writer' = writer
<1> USE PtyAssumption, TerminalAssumption
<1> USE DEF Goto, regVars, connVars, hubVars, ptyVars, Unlocked
<1>1. /\ pc[c] = "first" /\ tok[c] = 0 /\ on[c] = 0
      /\ UNCHANGED <<lease, tok, writer, ptyVars, exitSeen, registered>>
  BY DEF Arrive, FirstOpen, FirstFails, FirstAttach, IInv, Threads
<1>2. \A d \in Conn : d # c => pc'[d] = pc[d] /\ on'[d] = on[d] /\ slices'[d] = slices[d]
  BY DEF Arrive, FirstOpen, FirstFails, FirstAttach, IInv, TypeOK
<1>3. OneHolder'
  BY <1>1, <1>2, HoldersStay DEF IInv, TypeOK, Released, Ended
<1>4. WritersGranted' /\ NoOrphanShell'
  BY <1>1 DEF IInv, WritersGranted, NoOrphanShell
<1>5. CASE FirstOpen(c)
  <2>1. TypeOK'
    <3>1. nextHandle' \in 1 .. MaxHandle + 1
      BY <1>5 DEF FirstOpen, IInv, TypeOK, Handles
    <3>2. pc' \in [Conn -> Labels] /\ opener' \in Conn \cup {NoConn}
      BY <1>5 DEF FirstOpen, IInv, TypeOK, Labels
    <3> QED
      BY <1>1, <1>5, <3>1, <3>2 DEF FirstOpen, IInv, TypeOK, PtyTypeOK
  <2>2. Threads'
    BY <1>1, <1>5 DEF FirstOpen, IInv, TypeOK, Threads, Driving
  <2>3. Registry'
    <3>1. \A h \in Handles : ~InOpen(h) /\ (InOpen(h)' <=> h = nextHandle)
      BY <1>5 DEF FirstOpen, InOpen, Opening, IInv, TypeOK, Handles
    <3>2. \A d \in Conn : pc'[d] = "open" => opener' = d
      BY <1>1, <1>2, <1>5 DEF FirstOpen, IInv, TypeOK, Registry
    <3>3. /\ opener' # NoConn => nextHandle' > 1
          /\ nextHandle' = nextHandle + 1 /\ nextHandle \in Nat
      BY <1>5 DEF FirstOpen, IInv, TypeOK
    <3>4. registered \subseteq Handles /\ \A d \in Conn : on[d] # 0 => on[d] \in Handles
      BY DEF IInv, TypeOK
    <3>5. on' = on
      BY <1>5 DEF FirstOpen
    <3>6. \A h \in registered : h < nextHandle' /\ ~InOpen(h)'
      <4> SUFFICES ASSUME NEW h \in registered
                   PROVE  h < nextHandle' /\ ~InOpen(h)'
        OBVIOUS
      <4>1. h \in Handles /\ h < nextHandle
        BY <3>4 DEF IInv, Registry
      <4> QED
        BY <3>1, <3>3, <4>1 DEF Handles
    <3>7. \A d \in Conn : on[d] # 0 => on[d] < nextHandle' /\ ~InOpen(on[d])'
      <4> SUFFICES ASSUME NEW d \in Conn, on[d] # 0
                   PROVE  on[d] < nextHandle' /\ ~InOpen(on[d])'
        OBVIOUS
      <4>1. on[d] \in Handles /\ on[d] < nextHandle
        BY <3>4 DEF IInv, Registry
      <4> QED
        BY <3>1, <3>3, <3>5, <4>1 DEF Handles, InOpen
    <3>8. \A h \in Handles :
            /\ h >= nextHandle' => shell[h] = "none"
            /\ shell[h] \in {"master", "forked", "armed"} => InOpen(h)'
            /\ shell[h] = "running" => InOpen(h)' \/ h \in registered
            /\ exitSeen[h] => Over(h)
            /\ anchor[h] \in {NoConn, SpawnThread}
      BY <3>1, <3>3 DEF IInv, Registry, Handles
    <3> QED
      BY <1>1, <3>2, <3>3, <3>5, <3>6, <3>7, <3>8 DEF Registry, Over, InOpen, Opening
  <2> QED
    BY <1>1, <1>3, <1>4, <2>1, <2>2, <2>3 DEF IInv
<1>6. CASE FirstFails(c) \/ \E h \in Handles : FirstAttach(c, h)
  <2>1. UNCHANGED <<nextHandle, opener, slices, ending, exitSent>>
    BY <1>6 DEF FirstFails, FirstAttach
  <2>2. /\ pc' = [pc EXCEPT ![c] = pc'[c]] /\ pc'[c] \in {"acquire", "done"}
        /\ on' = [on EXCEPT ![c] = on'[c]]
        /\ on'[c] # 0 => on'[c] \in registered
        /\ pc'[c] = "acquire" => on'[c] \in registered
    BY <1>1, <1>6 DEF FirstFails, FirstAttach, IInv, TypeOK
  <2>3. TypeOK'
    BY <1>1, <2>1, <2>2 DEF IInv, TypeOK, PtyTypeOK, Labels
  <2>4. Threads'
    BY <1>1, <1>2, <2>1, <2>2 DEF IInv, TypeOK, Threads, Driving
  <2>5. Registry'
    BY <1>1, <1>2, <2>1, <2>2 DEF IInv, TypeOK, Registry, InOpen, Opening, Over
  <2> QED
    BY <1>1, <1>3, <1>4, <2>3, <2>4, <2>5 DEF IInv
<1> QED
  BY <1>5, <1>6 DEF Arrive

\* A step of the spawn thread, of a child or of a shell.  A shell that runs
\* is executed while serve is alive, and only in the open of its terminal.
LEMMA ShellKeeps ==
    ASSUME IInv, \/ \E c \in Conn : alive /\ Spawn(c)
                 \/ \E h \in Handles : Child(h) \/ Shell(h)
                 \/ ServeKilled
    PROVE  IInv' /\ writer' = writer
<1> USE PtyAssumption, TerminalAssumption
<1> USE DEF regVars, connVars, ptyVars
<1>1. UNCHANGED <<regVars, lease, exitSeen, pc, connVars, writer>>
  BY DEF Spawn, Child, Shell, ServeKilled
<1>2. OneHolder' /\ WritersGranted' /\ Threads'
  BY <1>1 DEF IInv, OneHolder, Attached, Ended, WritersGranted, Threads
<1>3. \A c \in Conn : pc[c] = "open" => Opening \in Handles /\ InOpen(Opening)
  BY DEF IInv, TypeOK, Registry, InOpen, Opening, Handles
<1>4. ASSUME NEW c \in Conn, alive, Spawn(c)
      PROVE  IInv'
  <2>1. PICK h \in Handles : /\ InOpen(h) /\ h < nextHandle
                             /\ OpenMaster(h) \/ Fork(h, c)
    BY <1>3, <1>4 DEF Spawn, Opening, IInv, TypeOK
  <2>2. /\ shell' = [shell EXCEPT ![h] = shell'[h]]
        /\ shell'[h] \in {"master", "forked"} /\ shell[h] \in {"none", "master"}
        /\ alive' = alive /\ out' = out
        /\ anchor' = anchor \/ anchor' = [anchor EXCEPT ![h] = SpawnThread]
    BY <2>1 DEF OpenMaster, Fork, Anchor, IInv, TypeOK, PtyTypeOK
  <2>3. TypeOK'
    BY <1>1, <2>2 DEF IInv, TypeOK, PtyTypeOK, ShellStates
  <2>4. Registry'
    BY <1>1, <2>1, <2>2 DEF IInv, TypeOK, PtyTypeOK, Registry, InOpen, Opening, Over
  <2>5. NoOrphanShell'
    BY <1>4, <2>2 DEF NoOrphanShell
  <2> QED
    BY <1>2, <2>3, <2>4, <2>5 DEF IInv
<1>5. ASSUME NEW h \in Handles, Child(h)
      PROVE  IInv'
  <2>1. /\ shell' = [shell EXCEPT ![h] = shell'[h]]
        /\ shell'[h] \in {"armed", "running", "aborted"}
        /\ shell'[h] = "running" => alive
        /\ shell[h] \in {"forked", "armed"}
        /\ UNCHANGED <<alive, anchor, out>>
    BY <1>5 DEF Child, ChildArms, ChildExecs, IInv, TypeOK, PtyTypeOK
  <2>2. TypeOK'
    BY <1>1, <2>1 DEF IInv, TypeOK, PtyTypeOK, ShellStates
  <2>3. Registry'
    BY <1>1, <2>1 DEF IInv, TypeOK, PtyTypeOK, Registry, InOpen, Opening, Over
  <2>4. NoOrphanShell'
    BY <2>1 DEF IInv, TypeOK, PtyTypeOK, NoOrphanShell
  <2> QED
    BY <1>2, <2>2, <2>3, <2>4 DEF IInv
<1>6. ASSUME NEW h \in Handles, Shell(h)
      PROVE  IInv'
  <2>1. /\ shell[h] = "running" /\ UNCHANGED <<alive, anchor>>
        /\ shell' = shell \/ shell' = [shell EXCEPT ![h] = "exited"]
        /\ out' \in [Handles -> 0 .. MaxOut]
    BY <1>6 DEF Shell, ShellOutput, ShellExits, IInv, TypeOK, PtyTypeOK
  <2>2. TypeOK'
    BY <1>1, <2>1 DEF IInv, TypeOK, PtyTypeOK, ShellStates
  <2>3. Registry'
    BY <1>1, <2>1 DEF IInv, TypeOK, PtyTypeOK, Registry, InOpen, Opening, Over
  <2>4. NoOrphanShell'
    BY <2>1 DEF IInv, TypeOK, PtyTypeOK, NoOrphanShell
  <2> QED
    BY <1>2, <2>2, <2>3, <2>4 DEF IInv
<1>7. ASSUME ServeKilled
      PROVE  IInv'
  <2>1. /\ shell' = [h \in Handles |-> IF shell[h] \in {"armed", "running"}
                                       THEN "killed" ELSE shell[h]]
        /\ alive' = FALSE /\ UNCHANGED <<anchor, out>>
    BY <1>7 DEF ServeKilled, ServeDies, Killed
  <2>2. TypeOK'
    BY <1>1, <2>1 DEF IInv, TypeOK, PtyTypeOK, ShellStates
  <2>3. Registry'
    BY <1>1, <2>1 DEF IInv, TypeOK, PtyTypeOK, Registry, InOpen, Opening, Over
  <2>4. NoOrphanShell'
    BY <2>1 DEF NoOrphanShell
  <2> QED
    BY <1>2, <2>2, <2>3, <2>4 DEF IInv
<1> QED
  BY <1>1, <1>4, <1>5, <1>6, <1>7

\* The end of an open, with a registered shell or with none.
LEMMA OpenEndKeeps ==
    ASSUME IInv, NEW c \in Conn, OpenReturns(c) \/ OpenFails(c)
    PROVE  IInv' /\ writer' = writer
<1> USE PtyAssumption, TerminalAssumption
<1> USE DEF Goto, regVars, connVars, ptyVars
<1>1. /\ pc[c] = "open" /\ tok[c] = 0 /\ on[c] = 0 /\ opener = c
      /\ opener' = NoConn /\ Opening \in Handles /\ InOpen(Opening)
      /\ Opening < nextHandle /\ nextHandle \in Nat
      /\ UNCHANGED <<lease, tok, writer, exitSeen, nextHandle, slices, ending,
                     exitSent, alive, anchor, out>>
  BY DEF OpenReturns, OpenFails, IInv, TypeOK, Threads, Registry, InOpen, Opening,
         Handles
<1>2. /\ \A d \in Conn : d # c => pc'[d] = pc[d] /\ on'[d] = on[d]
      /\ pc' = [pc EXCEPT ![c] = pc'[c]] /\ pc'[c] \in {"acquire", "done"}
  BY DEF OpenReturns, OpenFails, IInv, TypeOK
<1>3. OneHolder'
  BY <1>1, <1>2, HoldersStay DEF IInv, TypeOK, Released, Ended
<1>4. \A h \in Handles : ~InOpen(h)'
  BY <1>1 DEF InOpen
<1>5. \A d \in Conn : pc'[d] # "open"
  BY <1>1, <1>2 DEF IInv, Registry
<1>6. WritersGranted'
  BY <1>1 DEF IInv, WritersGranted
<1>7. CASE OpenReturns(c)
  <2>1. /\ shell' = shell /\ registered' = registered \cup {Opening}
        /\ on' = [on EXCEPT ![c] = Opening] /\ pc'[c] = "acquire"
        /\ shell[Opening] = "running" \/ Over(Opening)
    BY <1>7 DEF OpenReturns, IInv, TypeOK
  <2>2. TypeOK'
    BY <1>1, <1>2, <2>1 DEF IInv, TypeOK, PtyTypeOK, Labels
  <2>3. Threads'
    BY <1>1, <1>2, <2>1 DEF IInv, TypeOK, Threads, Driving
  <2>4. Registry'
    <3>1. \A h \in Handles :
            /\ shell[h] \notin {"master", "forked", "armed"}
            /\ shell[h] = "running" => h \in registered'
      BY <2>1 DEF IInv, Registry, InOpen, Over
    <3>2. \A d \in Conn : on'[d] # 0 => on'[d] < nextHandle'
      BY <1>1, <1>2, <2>1 DEF IInv, TypeOK, Registry
    <3>3. \A h \in registered' : h < nextHandle'
      BY <1>1, <2>1 DEF IInv, Registry
    <3> QED
      BY <1>1, <1>4, <1>5, <2>1, <3>1, <3>2, <3>3 DEF IInv, Registry, Over, InOpen
  <2>5. NoOrphanShell'
    BY <1>1, <2>1 DEF IInv, NoOrphanShell
  <2> QED
    BY <1>1, <1>3, <1>6, <2>2, <2>3, <2>4, <2>5 DEF IInv
<1>8. CASE OpenFails(c)
  <2>1. /\ shell' = [shell EXCEPT ![Opening] = "aborted"] /\ registered' = registered
        /\ on' = on /\ pc'[c] = "done"
    BY <1>8 DEF OpenFails, IInv, TypeOK
  <2>2. TypeOK'
    BY <1>1, <1>2, <2>1 DEF IInv, TypeOK, PtyTypeOK, Labels, ShellStates
  <2>3. Threads'
    BY <1>1, <1>2, <2>1 DEF IInv, TypeOK, Threads, Driving
  <2>4. Registry'
    <3>1. \A h \in Handles : shell'[h] = IF h = Opening THEN "aborted" ELSE shell[h]
      BY <1>1, <2>1 DEF IInv, TypeOK, PtyTypeOK
    <3>2. ~exitSeen[Opening]
      BY <1>1, <1>8 DEF OpenFails, IInv, Registry, Over
    <3>3. \A h \in Handles :
            /\ h >= nextHandle => shell'[h] = "none"
            /\ shell'[h] \notin {"master", "forked", "armed"}
            /\ shell'[h] = "running" => h \in registered
            /\ exitSeen[h] => shell'[h] \in {"exited", "killed"}
      BY <1>1, <3>1, <3>2 DEF IInv, Registry, InOpen, Over, Handles
    <3> QED
      BY <1>1, <1>4, <1>5, <2>1, <3>3 DEF IInv, Registry, Over, InOpen
  <2>5. NoOrphanShell'
    BY <1>1, <2>1 DEF IInv, TypeOK, PtyTypeOK, NoOrphanShell
  <2> QED
    BY <1>1, <1>3, <1>6, <2>2, <2>3, <2>4, <2>5 DEF IInv
<1> QED
  BY <1>1, <1>7, <1>8

\* The end of a connection: retiring its terminal, and the thread itself.  No
\* shell that runs is killed by it.
LEMMA EndKeeps ==
    ASSUME IInv, NEW c \in Conn, Retire(c) \/ ThreadEnds(c)
    PROVE  /\ IInv' /\ writer' = writer
           /\ \A h \in Handles : shell[h] = "running" =>
                shell'[h] = "running" /\ (h \in registered => h \in registered')
<1> USE PtyAssumption, TerminalAssumption
<1> USE DEF Goto, regVars, connVars, ptyVars
<1>1. /\ UNCHANGED <<lease, tok, on, writer, exitSeen, nextHandle, opener, slices,
                     ending, exitSent, alive, anchor, out>>
      /\ pc' = [pc EXCEPT ![c] = pc'[c]] /\ pc'[c] \in {"done", "gone"}
      /\ pc[c] \in {"retire", "done"}
  BY DEF Retire, ThreadEnds, ThreadDies, IInv, TypeOK
<1>2. \A d \in Conn : d # c => pc'[d] = pc[d]
  BY <1>1 DEF IInv, TypeOK
<1>3. OneHolder'
  BY <1>1, <1>2, HoldersStay DEF IInv, TypeOK, Released, Ended
<1>4. WritersGranted' /\ Threads'
  BY <1>1, <1>2 DEF IInv, WritersGranted, Threads, Driving
<1>5. \A h \in Handles : exitSeen[h] => shell[h] # "running"
  BY DEF IInv, Registry, Over
<1>6. /\ shell' \in [Handles -> ShellStates]
      /\ \A h \in Handles : /\ shell[h] = "running" => shell'[h] = "running"
                            /\ Over(h) => shell'[h] = shell[h]
                            /\ shell[h] = "none" => shell'[h] = "none"
                            /\ shell'[h] = shell[h] \/ shell'[h] = "killed"
      /\ registered' \subseteq registered
      /\ \A h \in Handles : shell[h] = "running" /\ h \in registered => h \in registered'
  <2>1. CASE Retire(c)
    BY <1>5, <2>1 DEF Retire, IInv, TypeOK, PtyTypeOK
  <2>2. CASE ThreadEnds(c)
    <3> DEFINE H == {h \in {on[c]} \ registered :
                       \A d \in Conn \ {c} : on[d] = h => pc[d] = "gone"}
               K == {h \in Handles : anchor[h] = c \/ h \in H}
    <3>1. /\ registered' = registered
          /\ shell' = [h \in Handles |-> IF h \in K /\ shell[h] \in {"armed", "running"}
                                         THEN "killed" ELSE shell[h]]
      BY <2>2 DEF ThreadEnds, ThreadDies, Killed
    <3>2. \A h \in K : h = on[c] /\ h \notin registered
      BY DEF IInv, Registry
    <3>3. \A h \in K : shell[h] # "running"
      BY <3>2 DEF IInv, Registry, Handles
    <3>4. shell \in [Handles -> ShellStates]
      BY DEF IInv, TypeOK, PtyTypeOK
    <3> HIDE DEF K
    <3> QED
      BY <3>1, <3>3, <3>4 DEF Over, ShellStates
  <2> QED
    BY <2>1, <2>2
<1>7. TypeOK'
  BY <1>1, <1>6 DEF IInv, TypeOK, PtyTypeOK, Labels
<1>8. Registry'
  <2>1. \A d \in Conn : pc'[d] = "open" => opener = d
    BY <1>1, <1>2 DEF IInv, Registry
  <2>2. \A h \in Handles :
         /\ h >= nextHandle => shell'[h] = "none"
         /\ shell'[h] \in {"master", "forked", "armed"} => InOpen(h)
         /\ shell'[h] = "running" => InOpen(h) \/ h \in registered'
         /\ exitSeen[h] => shell'[h] \in {"exited", "killed"}
    BY <1>6 DEF IInv, Registry, Over
  <2> QED
    BY <1>1, <1>6, <2>1, <2>2 DEF IInv, Registry, InOpen, Opening, Over
<1>9. NoOrphanShell'
  BY <1>1, <1>6 DEF IInv, NoOrphanShell
<1> QED
  BY <1>1, <1>3, <1>4, <1>6, <1>7, <1>8, <1>9 DEF IInv
-----------------------------------------------------------------------------
(***************************************************************************)
(* The steps that move a lease.                                            *)
(***************************************************************************)

\* Only the lease, a token and the thread's next call change.
LeaseStep ==
    /\ UNCHANGED <<regVars, ptyVars, on, slices, ending, exitSent, writer>>
    /\ lease' \in [Handles -> LeaseRecord]
    /\ tok' \in [Conn -> Nat]
    /\ \A h \in Handles : lease[h].token <= lease'[h].token

LEMMA LeaseStepKeeps ==
    ASSUME IInv, LeaseStep, Threads', OneHolder', pc' \in [Conn -> Labels],
           \A d \in Conn : pc'[d] = "open" => pc[d] = "open",
           exitSeen' \in [Handles -> BOOLEAN],
           \A h \in Handles : exitSeen'[h] => Over(h)
    PROVE  IInv' /\ writer' = writer
<1> USE PtyAssumption, TerminalAssumption
<1> USE DEF LeaseStep, regVars, ptyVars
<1>1. TypeOK'
  BY DEF IInv, TypeOK, PtyTypeOK
<1>2. Registry'
  BY DEF IInv, Registry, InOpen, Opening, Over
<1>3. WritersGranted'
  BY <1>1 DEF IInv, TypeOK, WritersGranted, LeaseRecord
<1>4. NoOrphanShell'
  BY DEF IInv, NoOrphanShell
<1> QED
  BY <1>1, <1>2, <1>3, <1>4 DEF IInv

\* A grant has a token above all earlier ones.
LEMMA AcquireKeeps ==
    ASSUME IInv, NEW c \in Conn, Acquire(c)
    PROVE  IInv' /\ writer' = writer
<1> USE PtyAssumption, TerminalAssumption
<1>1. /\ on[c] \in Handles /\ tok[c] = 0 /\ pc[c] = "acquire"
      /\ lease \in [Handles -> LeaseRecord] /\ tok \in [Conn -> Nat]
      /\ pc \in [Conn -> Labels]
      /\ \A h \in Handles : lease[h].token \in Nat
  BY DEF Acquire, IInv, TypeOK, Threads, LeaseRecord
<1>2. exitSeen' = exitSeen /\ exitSeen \in [Handles -> BOOLEAN]
      /\ \A h \in Handles : exitSeen[h] => Over(h)
  BY DEF Acquire, IInv, TypeOK, Registry
<1>3. UNCHANGED <<regVars, ptyVars, on, slices, ending, exitSent, writer>>
  BY DEF Acquire
<1>4. CASE Busy(lease[on[c]])
  <2>1. UNCHANGED <<lease, tok>> /\ pc' = [pc EXCEPT ![c] = "done"]
    BY <1>4 DEF Acquire, Goto
  <2>2. LeaseStep
    BY <1>1, <1>3, <2>1 DEF LeaseStep
  <2>3. OneHolder'
    BY <1>1, <1>3, <2>1, HoldersStay DEF IInv, Released, Ended
  <2>4. Threads'
    BY <1>1, <1>3, <2>1 DEF IInv, Threads, Driving
  <2> QED
    BY <1>1, <1>2, <2>1, <2>2, <2>3, <2>4, LeaseStepKeeps DEF Labels
<1>5. CASE ~Busy(lease[on[c]])
  <2> DEFINE n == lease[on[c]].token + 1
             g == [token |-> n, holder |-> c, expired |-> FALSE, abandoned |-> FALSE]
  <2>1. lease' = [lease EXCEPT ![on[c]] = g] /\ g \in LeaseRecord
    BY <1>1, <1>5 DEF Acquire, Granted, LeaseRecord
  <2>2. /\ tok' = [tok EXCEPT ![c] = n]
        /\ pc' = [pc EXCEPT ![c] = "granted"] /\ n \in Nat /\ n > 0
    BY <1>1, <1>5, <2>1 DEF Acquire, Goto
  <2>3. LeaseStep
    BY <1>1, <1>3, <2>1, <2>2 DEF LeaseStep
  <2>4. Threads'
    BY <1>1, <1>3, <2>2 DEF IInv, Threads, Driving
  <2>5. OneHolder'
    <3> SUFFICES ASSUME NEW h \in Handles, NEW d \in Conn, Attached(d, h)'
                 PROVE  /\ \A e \in Conn :
                             Attached(e, h)' /\ tok'[d] = tok'[e] => d = e
                        /\ tok'[d] <= lease'[h].token
                        /\ tok'[d] = lease'[h].token =>
                             /\ lease'[h].holder = d
                             /\ lease'[h].abandoned <=> Released(d)'
      BY DEF OneHolder, Released
    <3>1. \A e \in Conn : Attached(e, h)' /\ e # c =>
            /\ Attached(e, h) /\ tok'[e] = tok[e]
            /\ tok[e] <= lease[h].token /\ (Released(e)' <=> Released(e))
      BY <1>1, <1>3, <2>2 DEF Attached, Released, Ended, IInv, OneHolder
    <3>2. CASE h # on[c]
      <4>1. lease'[h] = lease[h] /\ d # c
        BY <1>1, <1>3, <2>1, <3>2 DEF Attached
      <4>2. \A e \in Conn : Attached(e, h)' => e # c
        BY <1>3, <3>2 DEF Attached
      <4> QED
        BY <3>1, <4>1, <4>2 DEF IInv, OneHolder, Released
    <3>3. CASE h = on[c]
      <4>1. lease'[h] = g /\ tok'[c] = n
        BY <1>1, <2>1, <2>2, <3>3
      <4>2. \A e \in Conn : Attached(e, h)' /\ e # c => tok'[e] < n
        BY <1>1, <3>1, <3>3
      <4>3. ~Released(c)'
        BY <1>1, <2>2 DEF Released, Ended
      <4>4. n <= n /\ g.token = n /\ g.holder = c /\ g.abandoned = FALSE
        BY <2>2
      <4>5. CASE d = c
        BY <2>2, <4>1, <4>2, <4>3, <4>4, <4>5
      <4>6. CASE d # c
        <5>1. Attached(d, h) /\ tok'[d] = tok[d] /\ tok'[d] < n
          BY <3>1, <4>2, <4>6
        <5>2. ASSUME NEW e \in Conn, Attached(e, h)', tok'[d] = tok'[e]
              PROVE  d = e
          <6>1. e # c
            BY <1>1, <2>2, <4>1, <5>1, <5>2
          <6> QED
            BY ZenonT(40), <3>1, <5>1, <5>2, <6>1 DEF IInv, OneHolder
        <5>3. tok'[d] <= n /\ tok'[d] # n
          BY <1>1, <2>2, <5>1
        <5> QED
          BY <4>1, <4>4, <5>2, <5>3
      <4> QED
        BY <4>5, <4>6
    <3> QED
      BY <3>2, <3>3
  <2> QED
    BY <1>1, <1>2, <2>2, <2>3, <2>4, <2>5, LeaseStepKeeps DEF Labels
<1> QED
  BY <1>4, <1>5

\* Dropping a grant marks only the connection's own lease as abandoned.
LEMMA DropKeeps ==
    ASSUME IInv, NEW c \in Conn, Finish(c) \/ SendFails(c)
    PROVE  IInv' /\ writer' = writer
<1> USE PtyAssumption, TerminalAssumption
<1>1. /\ on[c] \in Handles /\ tok[c] > 0 /\ pc[c] \in Driving
      /\ lease \in [Handles -> LeaseRecord] /\ tok \in [Conn -> Nat]
      /\ pc \in [Conn -> Labels]
      /\ \A h \in Handles : lease[h].token \in Nat
  BY DEF Finish, SendFails, IInv, TypeOK, Threads, LeaseRecord, Driving
<1>2. /\ exitSeen' \in [Handles -> BOOLEAN]
      /\ \A h \in Handles : exitSeen'[h] => Over(h)
  BY <1>1 DEF Finish, SendFails, IInv, TypeOK, Registry
<1>3. /\ UNCHANGED <<regVars, ptyVars, connVars, writer>>
      /\ pc' = [pc EXCEPT ![c] = pc'[c]] /\ pc'[c] \in {"retire", "done"}
      /\ lease' = [lease EXCEPT ![on[c]] = Dropped(lease[on[c]], tok[c])]
  BY <1>1 DEF Finish, SendFails, DropGrant, Goto
<1>4. ASSUME NEW l \in LeaseRecord
      PROVE  /\ Dropped(l, tok[c]) \in LeaseRecord
             /\ Dropped(l, tok[c]).token = l.token
             /\ Dropped(l, tok[c]).holder = l.holder
             /\ l.token = tok[c] => Dropped(l, tok[c]).abandoned = TRUE
             /\ l.token # tok[c] => Dropped(l, tok[c]) = l
  BY DEF Dropped, LeaseRecord
<1>5. LeaseStep
  <2>1. lease' \in [Handles -> LeaseRecord]
    BY <1>1, <1>3, <1>4
  <2>2. \A h \in Handles : lease'[h].token = lease[h].token
    BY ZenonT(40), <1>1, <1>3, <1>4
  <2> QED
    BY <1>1, <1>3, <2>1, <2>2 DEF LeaseStep, connVars
<1>6. Threads'
  BY <1>1, <1>3 DEF IInv, Threads, Driving, connVars
<1>7. OneHolder'
  <2> SUFFICES ASSUME NEW h \in Handles, NEW d \in Conn, Attached(d, h)
               PROVE  /\ \A e \in Conn : Attached(e, h) /\ tok[d] = tok[e] => d = e
                      /\ tok[d] <= lease'[h].token
                      /\ tok[d] = lease'[h].token =>
                           /\ lease'[h].holder = d
                           /\ lease'[h].abandoned <=> Released(d)'
    BY <1>3 DEF OneHolder, Attached, Released, connVars
  <2>1. lease'[h].token = lease[h].token /\ lease'[h].holder = lease[h].holder
    BY ZenonT(40), <1>1, <1>3, <1>4
  <2>2. Attached(c, on[c])
    BY <1>1 DEF Attached
  <2>3. CASE d = c
    <3>1. h = on[c] /\ Released(d)'
      BY <1>1, <1>3, <2>3 DEF Attached, Released, Ended
    <3>2. tok[d] = lease[h].token => lease'[h].abandoned = TRUE
      BY <1>1, <1>3, <1>4, <2>3, <3>1
    <3> QED
      BY <2>1, <3>1, <3>2 DEF IInv, OneHolder
  <2>4. CASE d # c
    <3>1. Released(d)' <=> Released(d)
      BY <1>1, <1>3, <2>4 DEF Released, Ended
    <3>2. tok[d] = lease[h].token => lease'[h] = lease[h]
      <4>1. CASE h = on[c]
        <5>1. tok[d] # tok[c]
          BY <2>2, <2>4, <4>1 DEF IInv, OneHolder
        <5> QED
          BY <1>1, <1>3, <1>4, <4>1, <5>1
      <4>2. CASE h # on[c]
        BY <1>1, <1>3, <4>2
      <4> QED
        BY <4>1, <4>2
    <3> QED
      BY <2>1, <3>1, <3>2 DEF IInv, OneHolder, Released
  <2> QED
    BY <2>3, <2>4
<1>8. pc' \in [Conn -> Labels] /\ \A d \in Conn : pc'[d] = "open" => pc[d] = "open"
  BY <1>1, <1>3 DEF Labels
<1> QED
  BY <1>2, <1>5, <1>6, <1>7, <1>8, LeaseStepKeeps

\* Time alone neither changes a holder nor a token.
LEMMA ExpiryKeeps ==
    ASSUME IInv, NEW h \in Handles, LeaseExpires(h)
    PROVE  IInv' /\ writer' = writer
<1> USE PtyAssumption, TerminalAssumption
<1>1. /\ lease \in [Handles -> LeaseRecord] /\ tok \in [Conn -> Nat]
      /\ pc \in [Conn -> Labels] /\ exitSeen \in [Handles -> BOOLEAN]
      /\ \A k \in Handles : exitSeen[k] => Over(k)
  BY DEF IInv, TypeOK, Registry
<1>2. /\ UNCHANGED <<regVars, exitSeen, ptyVars, pc, connVars, writer>>
      /\ lease' = [lease EXCEPT ![h] = [lease[h] EXCEPT !.expired = TRUE]]
  BY DEF LeaseExpires
<1>3. /\ lease' \in [Handles -> LeaseRecord]
      /\ \A k \in Handles : /\ lease'[k].token = lease[k].token
                            /\ lease'[k].holder = lease[k].holder
                            /\ lease'[k].abandoned = lease[k].abandoned
  BY ZenonT(40), <1>1, <1>2 DEF LeaseRecord
<1>4. LeaseStep
  BY <1>1, <1>2, <1>3 DEF LeaseStep, connVars, LeaseRecord
<1>5. Threads' /\ OneHolder'
  BY <1>2, <1>3 DEF IInv, Threads, OneHolder, Attached, Ended, connVars
<1> QED
  BY <1>1, <1>2, <1>4, <1>5, LeaseStepKeeps
-----------------------------------------------------------------------------
(***************************************************************************)
(* The theorems.                                                           *)
(***************************************************************************)

LEMMA InitIInv == Init => IInv
<1> SUFFICES ASSUME Init PROVE IInv
  OBVIOUS
<1> USE PtyAssumption, TerminalAssumption DEF Init, PtyInit
<1>1. TypeOK
  BY DEF TypeOK, PtyTypeOK, Labels, ShellStates, LeaseRecord, NewLease, Handles
<1>2. Threads
  <2> SUFFICES ASSUME NEW c \in Conn
               PROVE  /\ tok[c] > 0 => on[c] \in Handles
                      /\ pc[c] \in {"first", "open"} => on[c] = 0 /\ tok[c] = 0
                      /\ pc[c] = "acquire" => on[c] \in Handles /\ tok[c] = 0
                      /\ pc[c] \in Driving \cup {"retire"} => tok[c] > 0
                      /\ pc[c] = "write" => slices[c] > 0
    BY DEF Threads
  <2>1. pc[c] = "first" /\ tok[c] = 0 /\ on[c] = 0
    OBVIOUS
  <2> QED
    BY <2>1 DEF Driving
<1>3. Registry
  BY DEF Registry, InOpen, Opening, Over
<1>4. OneHolder
  BY DEF OneHolder, Attached
<1>5. WritersGranted /\ NoOrphanShell
  BY DEF WritersGranted, NewLease, NoOrphanShell
<1> QED
  BY <1>1, <1>2, <1>3, <1>4, <1>5 DEF IInv

\* Every step keeps the invariant and lets the writes of a PTY go forward.
LEMMA NextIInv ==
    ASSUME IInv, [Next]_vars
    PROVE  IInv' /\ \A h \in Handles : writer'[h] >= writer[h]
<1>1. \A h \in Handles : writer[h] \in Nat
  BY DEF IInv, TypeOK
<1>2. ASSUME NEW c \in Conn, Arrive(c) \/ Drive(c)
      PROVE  IInv' /\ \A h \in Handles : writer'[h] >= writer[h]
  <2>1. CASE Arrive(c)
    BY <1>1, <2>1, ArriveKeeps
  <2>2. CASE Drive(c)
    <3>1. CASE alive /\ Spawn(c)
      BY <1>1, <3>1, ShellKeeps
    <3>2. CASE OpenReturns(c) \/ OpenFails(c)
      BY <1>1, <3>2, OpenEndKeeps
    <3>3. CASE Acquire(c)
      BY <1>1, <3>3, AcquireKeeps
    <3>4. CASE Finish(c) \/ SendFails(c)
      BY <1>1, <3>4, DropKeeps
    <3>5. CASE Retire(c) \/ ThreadEnds(c)
      BY <1>1, <3>5, EndKeeps
    <3>6. CASE Turn(c)
      BY <3>6, TurnKeeps
    <3> QED
      BY <2>2, <3>1, <3>2, <3>3, <3>4, <3>5, <3>6,
         ReceiveIsTurn, GatedIsTurn, RestIsTurn DEF Drive
  <2> QED
    BY <1>2, <2>1, <2>2
<1>3. ASSUME NEW h \in Handles, Child(h) \/ Shell(h) \/ LeaseExpires(h)
      PROVE  IInv' /\ writer' = writer
  BY <1>3, ShellKeeps, ExpiryKeeps
<1>4. CASE ServeKilled
  BY <1>1, <1>4, ShellKeeps
<1>5. CASE UNCHANGED vars
  <2> USE <1>5 DEF vars, regVars, ptyVars, connVars
  <2>1. TypeOK' /\ Threads'
    BY DEF IInv, TypeOK, PtyTypeOK, Threads
  <2>2. Registry'
    BY DEF IInv, Registry, InOpen, Opening, Over
  <2>3. OneHolder' /\ WritersGranted' /\ NoOrphanShell'
    BY DEF IInv, OneHolder, Attached, Ended, WritersGranted, NoOrphanShell
  <2> QED
    BY <1>1, <2>1, <2>2, <2>3 DEF IInv
<1> QED
  BY <1>1, <1>2, <1>3, <1>4, <1>5 DEF Next

\* The inductive invariant: in every state of serve, its threads, leases,
\* registry and children agree with each other (hub.rs, server.rs, lease.rs).
THEOREM Invariance == Spec => []IInv
<1>1. IInv /\ [Next]_vars => IInv'
  BY NextIInv
<1> QED
  BY InitIInv, <1>1, PTL DEF Spec

\* The types of the hub's state and of the locals of drive().
THEOREM TypeCorrect == Spec => []TypeOK
<1>1. IInv => TypeOK
  BY DEF IInv
<1> QED
  BY Invariance, <1>1, PTL

\* Each grant of a lease has a token of its own, and only the end of the
\* newest holder abandons the lease (acquire, Drop for LeaseGuard).
THEOREM OneHolderHolds == Spec => []OneHolder
<1>1. IInv => OneHolder
  BY DEF IInv
<1> QED
  BY Invariance, <1>1, PTL

\* No shell outlives serve: the parent-death signal and the getppid check of
\* spawn_on_pty leave no gap.
THEOREM NoOrphan == Spec => []NoOrphanShell
<1>1. IInv => NoOrphanShell
  BY DEF IInv
<1> QED
  BY Invariance, <1>1, PTL

\* A connection that was taken over never writes to the PTY after its
\* successor did (with_write_gate).
THEOREM WritesAreFenced == Spec => WritesFenced
<1>1. IInv /\ [Next]_vars =>
        [\A h \in Handles : writer'[h] >= writer[h]]_vars
  BY NextIInv
<1> QED
  BY Invariance, <1>1, PTL DEF Spec, WritesFenced

\* The loss of connections neither ends nor hides a shell that runs (the
\* spawn thread, retire_if_exited, Drop for PtyHub).
THEOREM ShellsOutlive == Spec => ShellOutlivesConnections
<1> DEFINE A == \A h \in Handles : shell[h] = "running" =>
                  \/ shell'[h] = "running" /\ (h \in registered => h \in registered')
                  \/ shell'[h] = "exited"
                  \/ ~alive'
<1>1. ASSUME IInv, Next
      PROVE  A
  <2> USE DEF regVars, ptyVars, hubVars
  <2>1. ASSUME NEW c \in Conn, Arrive(c)
        PROVE  A
    BY <2>1 DEF Arrive, FirstOpen, FirstFails, FirstAttach
  <2>2. ASSUME NEW c \in Conn, Drive(c)
        PROVE  A
    <3>1. CASE Spawn(c)
      BY <1>1, <3>1 DEF Spawn, OpenMaster, Fork, IInv, TypeOK, PtyTypeOK
    <3>2. CASE OpenReturns(c)
      BY <3>2 DEF OpenReturns
    <3>3. CASE OpenFails(c)
      BY <1>1, <3>3 DEF OpenFails, IInv, TypeOK, PtyTypeOK
    <3>4. CASE Acquire(c) \/ Finish(c) \/ SendFails(c)
      BY <3>4 DEF Acquire, Finish, SendFails
    <3>5. CASE Retire(c) \/ ThreadEnds(c)
      BY <1>1, <3>5, EndKeeps
    <3>6. CASE Turn(c)
      BY <3>6 DEF Turn
    <3> QED
      BY <1>1, <2>2, <3>1, <3>2, <3>3, <3>4, <3>5, <3>6,
         ReceiveIsTurn, GatedIsTurn, RestIsTurn DEF Drive
  <2>3. ASSUME NEW h \in Handles, Child(h) \/ Shell(h) \/ LeaseExpires(h)
        PROVE  A
    BY <1>1, <2>3 DEF Child, ChildArms, ChildExecs, Shell, ShellOutput, ShellExits,
                      LeaseExpires, IInv, TypeOK, PtyTypeOK
  <2>4. CASE ServeKilled
    BY <2>4 DEF ServeKilled, ServeDies
  <2> QED
    BY <1>1, <2>1, <2>2, <2>3, <2>4 DEF Next
<1>2. IInv /\ [Next]_vars => [A]_vars
  BY <1>1
<1> QED
  BY Invariance, <1>2, PTL DEF Spec, ShellOutlivesConnections

-----------------------------------------------------------------------------
\* TerminalClient: one client, its connection and the time that passes.

ClientPlaces == {"attach", "wait", "top", "ping", "stdin", "input", "window",
                 "resize", "poll", "stdout", "waitExit", "done"}

Serving == {"run", "hold", "drain", "exit"}

Results == {"none", "LeaseHeldByOther", "TerminalGone", "Protocol", "ClosedByPeer", "Timeout",
            "Detached", "SendTimeout", "Disconnected", "Io", "Exit"}

Ends == {"none", "Denied", "Failed", "PeerClosed", "Fenced", "ShellExited", "LeaseExpired"}

Frame == {"Open", "Attach", "ping", "input", "resize", "Granted", "Busy", "Gone",
          "Output", "Exit"}

Wire == [frames : Seq(Frame), closed : BOOLEAN]

\* 1 when the loop has made its turn since the last tick, else 0.
Turns == [c : BOOLEAN, s : BOOLEAN]
RanC(r) == IF r.c THEN 1 ELSE 0
RanS(r) == IF r.s THEN 1 ELSE 0

\* How many frames are on the way, and the last of them.
Queued(w) == Len(w.frames)
Final(w) == w.frames[Len(w.frames)]

ClientRecord ==
    [pc : ClientPlaces, driver : {"interactive", "wait_exit"},
     result : Results, mode : {"New", "Recover"}, sincePing : 0 .. PingInterval,
     sinceEof : Nat, waited : Nat, deadline : Nat, patience : Nat, stall : 0 .. MaxStall]

ServerRecord ==
    [pc : Serving \cup {"first", "done"}, end : Ends, ending : BOOLEAN, age : Nat,
     hold : Nat, exitAge : Nat, backlog : Nat]

PairTypeOK ==
    /\ cl \in ClientRecord /\ sv \in ServerRecord
    /\ up \in Wire /\ down \in Wire
    /\ ran \in Turns

\* Which places of the two ends go together, and what each is held up for.
Phases ==
    /\ cl.pc = "attach" => sv.pc = "first" /\ Queued(up) < 1
    /\ sv.pc = "first" => /\ cl.pc \in {"attach", "wait", "done"}
                          /\ Queued(down) < 1 /\ Queued(up) < 2
    /\ cl.pc = "wait" /\ sv.pc \in Serving =>
         Queued(up) < 1 /\ Queued(down) > 0 /\ sv.age + RanC(ran) <= 1
    /\ cl.pc = "waitExit" => cl.driver = "wait_exit"
    /\ cl.stall > 0 => cl.pc = "stdout"
    /\ cl.pc = "stdout" /\ cl.stall = 0 => RanC(ran) = 0
    /\ sv.hold > 0 => sv.pc = "hold"
    /\ sv.pc = "hold" => /\ sv.age + sv.hold <= MaxHold /\ sv.exitAge = NotYet
                         /\ sv.hold = 0 => RanS(ran) = 0
    /\ Queued(up) <= Capacity /\ Queued(down) <= Capacity
    /\ sv.pc \in {"first", "done"} => sv.exitAge = NotYet
    /\ sv.pc # "done" => sv.end = "none"
    /\ down.closed => sv.pc = "done" \/ sv.exitAge # NotYet
    /\ sv.exitAge # NotYet => down.closed
    /\ up.closed => cl.pc = "done"

\* An upper bound on the ticks until a pumping client that is not blocked has
\* sent a frame that restarts its ping clock.
Slack == IF MaxStall = 0 THEN 1 ELSE MaxStall
UntilSend(c, r) ==
    IF c.sincePing < PingInterval THEN PingInterval - c.sincePing + Slack
    ELSE IF c.pc = "stdout" THEN c.stall
    ELSE IF c.pc \in {"top", "ping", "input"} THEN RanC(r)
    ELSE Slack + RanC(r)

\* The lease lasts until the frame on the way is taken, and if there is none
\* until the next one is sent and taken.
LeaseInv ==
    /\ Pumping /\ sv.pc \in Serving =>
         /\ Queued(up) < 1 => sv.age + UntilSend(cl, ran) + 1 <= LeaseTimeout
         /\ Queued(up) > 0 /\ sv.pc # "hold" => sv.age + RanS(ran) <= LeaseTimeout
    /\ sv.end \in {"LeaseExpired", "Fenced"} => cl.driver = "wait_exit" \/ cl.pc = "done"

\* Upper bounds, while the server is in its exit grace, on the ticks a send
\* is blocked, on those until the client reads the next frame, and on those until
\* it reads the last one.
Blocked(u, r) == IF Queued(u) < Capacity THEN RanC(r) ELSE 1 + RanS(r)
UntilPoll(c, u, r) ==
    IF c.pc = "stdout" THEN c.stall + 6
    ELSE IF c.pc \in {"top", "ping"} THEN Blocked(u, r) + 4
    ELSE IF c.pc \in {"stdin", "input"} THEN Blocked(u, r) + 2
    ELSE IF c.pc \in {"window", "resize"} THEN Blocked(u, r)
    ELSE RanC(r)
UntilExit(c, u, d, r) == UntilPoll(c, u, r) + (Queued(d) - 1) * TurnTime

\* Until the client has read Exit it is the last frame; and it will be read before
\* the grace is over, if that is in time for all the frames before it.
ExitInv ==
    /\ (sv.exitAge # NotYet \/ sv.end = "ShellExited") /\ cl.pc # "done" =>
         Queued(down) > 0 /\ Final(down) = "Exit"
    /\ sv.exitAge # NotYet /\ cl.pc # "done" /\ InTime(sv.backlog) =>
         sv.exitAge + UntilExit(cl, up, down, ran) + 1 <= ExitGraceTime
    /\ sv.end = "ShellExited" /\ InTime(sv.backlog) => cl.pc = "done"
    /\ cl.result = "ClosedByPeer" => sv.pc = "done" /\ sv.end # "ShellExited"
    /\ cl.result = "Disconnected" =>
         sv.pc = "done" /\ ~(sv.end = "ShellExited" /\ InTime(sv.backlog))
    /\ cl.pc # "done" => cl.result = "none"

PairInv == PairTypeOK /\ Phases /\ LeaseInv /\ ExitInv

-----------------------------------------------------------------------------
\* What the assumption on the times says.
LEMMA Times ==
    /\ PingInterval \in Nat /\ PingInterval >= 1 /\ PingDeadline \in Nat
    /\ DetachGrace \in Nat /\ DetachGrace >= 1 /\ ExitBudget \in Nat
    /\ ExitGraceTime \in Nat /\ Capacity \in Nat /\ Capacity >= 1
    /\ MaxStall \in Nat /\ MaxHold \in Nat /\ LeaseTimeout \in Nat /\ AttachTimeout \in Nat
    /\ LeaseTimeout >= MaxHold /\ LeaseTimeout >= PingInterval + Slack + 2
    /\ TurnTime \in Nat /\ TurnTime = MaxStall + 6
    /\ Slack \in Nat /\ Slack >= 1 /\ Slack >= MaxStall
    /\ NotYet \in Nat /\ NotYet > ExitGraceTime /\ NotYet > DetachGrace
BY ClientAssumption DEF Slack, TurnTime, NotYet

\* What a connection holds, in frames.
LEMMA WireFacts ==
    ASSUME NEW w \in Wire
    PROVE  /\ Queued(w) \in Nat
           /\ w.frames = <<>> <=> Queued(w) < 1
           /\ Room(w) <=> Queued(w) < Capacity
           /\ w.closed \in BOOLEAN
BY DEF Wire, Queued, Room

\* A frame that is sent becomes the last one.
LEMMA WireSent ==
    ASSUME NEW w \in Wire, NEW f \in Frame
    PROVE  /\ Sent(w, f) \in Wire
           /\ Queued(Sent(w, f)) = Queued(w) + 1
           /\ Sent(w, f).closed = w.closed
           /\ Final(Sent(w, f)) = f
BY DEF Wire, Sent, Queued, Final

\* A frame that is received was the first one; the last stays the last.
LEMMA WireReceived ==
    ASSUME NEW w \in Wire, w.frames # <<>>
    PROVE  /\ Received(w) \in Wire
           /\ Queued(Received(w)) = Queued(w) - 1
           /\ Received(w).closed = w.closed
           /\ Head(w.frames) \in Frame
           /\ Queued(w) > 1 => Final(Received(w)) = Final(w)
           /\ Queued(w) < 2 => Head(w.frames) = Final(w)
<1> DEFINE q == w.frames
<1>1. q \in Seq(Frame) /\ Received(w).frames = Tail(q) /\ Received(w).closed = w.closed
      /\ Received(w) \in Wire
  BY SMTT(30) DEF Wire, Received
<1>2. Len(q) \in Nat /\ Len(q) >= 1 /\ Len(Tail(q)) = Len(q) - 1
  BY <1>1
<1>3. Head(q) = q[1] /\ \A i \in 1 .. Len(q) - 1 : Tail(q)[i] = q[i + 1]
  BY <1>1, <1>2
<1>4. Head(q) \in Frame
  BY <1>1, <1>2
<1>5. Len(q) > 1 => Tail(q)[Len(Tail(q))] = q[Len(q)]
  BY <1>2, <1>3
<1>6. Len(q) < 2 => Head(q) = q[Len(q)]
  BY <1>2, <1>3
<1> QED
  BY <1>1, <1>2, <1>4, <1>5, <1>6 DEF Queued, Final

\* A closed connection still holds what was sent.
LEMMA WireClosed ==
    ASSUME NEW w \in Wire
    PROVE  /\ [w EXCEPT !.closed = TRUE] \in Wire
           /\ Queued([w EXCEPT !.closed = TRUE]) = Queued(w)
           /\ [w EXCEPT !.closed = TRUE].closed = TRUE
           /\ Final([w EXCEPT !.closed = TRUE]) = Final(w)
BY DEF Wire, Queued, Final

\* A frame less is a turn less.
LEMMA Fewer ==
    ASSUME NEW k \in Nat, NEW t \in Nat, k >= 1
    PROVE  /\ (k - 1) * t \in Nat
           /\ k >= 2 => (k - 1) * t = ((k - 1) - 1) * t + t
OBVIOUS

\* The last of the frames is read a turn before the time for all of them is over.
LEMMA Most ==
    ASSUME NEW k \in Nat, NEW t \in Nat
    PROVE  ((k + 1) - 1) * t + t = (k + 1) * t
OBVIOUS

\* It holds before attach.
LEMMA InitEstablishes == PairInit => PairInv
<1> SUFFICES ASSUME PairInit PROVE PairInv
  OBVIOUS
<1>1. up \in Wire /\ down \in Wire /\ Queued(up) = 0 /\ Queued(down) = 0
  BY DEF PairInit, Wire, Queued
<1>2. /\ cl.pc = "attach" /\ cl.driver \in {"interactive", "wait_exit"}
      /\ cl.result = "none" /\ cl.stall = 0
      /\ cl \in ClientRecord
  <2>1. PICK d \in {"interactive", "wait_exit"}, m \in {"New", "Recover"} :
           cl = [ClientInit EXCEPT !.driver = d, !.mode = m]
    BY DEF PairInit
  <2>2. ClientInit \in ClientRecord
    BY Times DEF ClientInit, ClientRecord, ClientPlaces, Results
  <2> QED
    BY <2>1, <2>2 DEF ClientInit, ClientRecord
<1>3. sv = ServerInit /\ ~down.closed /\ ~up.closed /\ ran = [c |-> FALSE, s |-> FALSE]
  BY DEF PairInit
<1>4. PairTypeOK
  BY <1>1, <1>2, <1>3, Times DEF PairTypeOK, ServerInit, ServerRecord, Serving, Ends, Turns
<1>5. Phases
  BY <1>1, <1>2, <1>3, Times DEF Phases, ServerInit, Serving, RanC, RanS
<1>6. LeaseInv /\ ExitInv
  BY <1>1, <1>2, <1>3, Times DEF LeaseInv, ExitInv, ServerInit, Serving, Pumping
<1> QED
  BY <1>4, <1>5, <1>6 DEF PairInv

\* The types of what the bounds are computed from.
LEMMA Counts ==
    ASSUME PairTypeOK
    PROVE  /\ Queued(up) \in Nat /\ Queued(down) \in Nat
           /\ up.frames = <<>> <=> Queued(up) < 1
           /\ down.frames = <<>> <=> Queued(down) < 1
           /\ Room(up) <=> Queued(up) < Capacity
           /\ Room(down) <=> Queued(down) < Capacity
           /\ cl.pc \in ClientPlaces /\ cl.sincePing \in 0 .. PingInterval
           /\ cl.stall \in 0 .. MaxStall
           /\ sv.age \in Nat /\ sv.hold \in Nat /\ sv.exitAge \in Nat
           /\ sv.pc \in Serving \cup {"first", "done"}
           /\ RanC(ran) \in {0, 1} /\ RanS(ran) \in {0, 1}
<1>1. up \in Wire /\ down \in Wire
  BY DEF PairTypeOK
<1> QED
  BY <1>1, WireFacts DEF PairTypeOK, ClientRecord, ServerRecord, RanC, RanS

\* A turn is over for the client, or for the server.
LEMMA TurnMade ==
    ASSUME PairTypeOK
    PROVE  /\ ran' = [ran EXCEPT !.c = TRUE] =>
                ran' \in Turns /\ RanC(ran') = 1 /\ RanS(ran') = RanS(ran)
           /\ ran' = [ran EXCEPT !.s = TRUE] =>
                ran' \in Turns /\ RanS(ran') = 1 /\ RanC(ran') = RanC(ran)
           /\ ran' = ran => RanC(ran') = RanC(ran) /\ RanS(ran') = RanS(ran)
BY DEF PairTypeOK, Turns, RanC, RanS

\* A turn is counted once.
LEMMA Bits ==
    ASSUME NEW r \in Turns
    PROVE  RanC(r) \in {0, 1} /\ RanS(r) \in {0, 1}
BY DEF RanC, RanS

\* From any point of its loop the client reads within a turn.
LEMMA PollBound ==
    ASSUME NEW c \in ClientRecord, NEW u \in Wire, NEW r \in Turns
    PROVE  UntilPoll(c, u, r) \in Nat /\ UntilPoll(c, u, r) <= TurnTime
<1>1. Blocked(u, r) \in Nat /\ Blocked(u, r) <= 2
  BY WireFacts, Bits DEF Blocked
<1>2. c.stall \in 0 .. MaxStall /\ RanC(r) \in {0, 1}
  BY Bits DEF ClientRecord
<1> QED
  BY <1>1, <1>2, Times DEF UntilPoll

\* From any point of its loop the client sends within its interval and a hold-up.
LEMMA SendBound ==
    ASSUME NEW c \in ClientRecord, NEW r \in Turns
    PROVE  UntilSend(c, r) \in Nat /\ UntilSend(c, r) <= PingInterval + Slack
<1>1. UntilSend(c, r) \in {PingInterval - c.sincePing + Slack, c.stall,
      RanC(r), Slack + RanC(r)}
  BY DEF UntilSend
<1>2. /\ c.stall \in 0 .. MaxStall /\ RanC(r) \in {0, 1} /\ c.sincePing \in 0 .. PingInterval
      /\ MaxStall \in Nat /\ Slack \in Nat /\ Slack >= MaxStall /\ PingInterval \in Nat
      /\ Slack >= 1 /\ PingInterval >= 1
  BY Bits, Times DEF ClientRecord
<1> QED
  BY <1>1, <1>2

\* The client gets closer to its next frame, and with it to Exit.
LEMMA Closer ==
    ASSUME PairTypeOK, PairTypeOK', Queued(down') = Queued(down), Queued(down) > 0,
           NEW x \in Nat, UntilPoll(cl', up', ran') + x <= UntilPoll(cl, up, ran)
    PROVE  /\ UntilExit(cl', up', down', ran') + x <= UntilExit(cl, up, down, ran)
           /\ UntilExit(cl', up', down', ran') \in Nat /\ UntilExit(cl, up, down, ran) \in Nat
<1> DEFINE p == (Queued(down) - 1) * TurnTime
<1>1. p \in Nat
  <2>1. Queued(down) \in Nat /\ TurnTime \in Nat /\ Queued(down) >= 1
    BY Counts, Times
  <2> QED
    BY <2>1, Fewer
<1>2. /\ UntilExit(cl, up, down, ran) = UntilPoll(cl, up, ran) + p
      /\ UntilExit(cl', up', down', ran') = UntilPoll(cl', up', ran') + p
  BY DEF UntilExit
<1>3. UntilPoll(cl, up, ran) \in Nat /\ UntilPoll(cl', up', ran') \in Nat
  BY PollBound DEF PairTypeOK
<1> HIDE DEF p
<1> QED
  BY <1>1, <1>2, <1>3

\* A frame before Exit is read: the next one comes within a turn.
LEMMA Progress ==
    ASSUME PairTypeOK, PairTypeOK', Queued(down) >= 2, Queued(down') = Queued(down) - 1
    PROVE  /\ UntilExit(cl', up', down', ran') <= UntilExit(cl, up, down, ran)
           /\ UntilExit(cl', up', down', ran') \in Nat /\ UntilExit(cl, up, down, ran) \in Nat
<1> DEFINE k == Queued(down)
           t == TurnTime
           u == UntilPoll(cl, up, ran)
           v == UntilPoll(cl', up', ran')
<1>1. k \in Nat /\ t \in Nat /\ u \in Nat /\ v \in Nat /\ v <= t /\ k >= 2
  BY Counts, Times, PollBound DEF PairTypeOK
<1>2. /\ UntilExit(cl, up, down, ran) = u + (k - 1) * t
      /\ UntilExit(cl', up', down', ran') = v + ((k - 1) - 1) * t
  BY DEF UntilExit
<1> HIDE DEF k, t, u, v
<1>3. (k - 1) * t \in Nat /\ (k - 1) * t = ((k - 1) - 1) * t + t
  BY <1>1, Fewer
<1>4. ((k - 1) - 1) * t \in Nat
  BY <1>1, Fewer
<1> QED
  BY <1>1, <1>2, <1>3, <1>4

\* A client that returns.
LEMMA ReturnKeeps ==
    ASSUME PairInv, NEW r \in Results \ {"none"}, Return(r), sv' = sv,
           down' \in Wire, Queued(down') <= Queued(down), down'.closed = down.closed,
           r = "ClosedByPeer" => sv.pc = "done" /\ sv.end # "ShellExited",
           r = "Disconnected" =>
             sv.pc = "done" /\ ~(sv.end = "ShellExited" /\ InTime(sv.backlog))
    PROVE  PairInv'
<1> USE DEF PairInv
<1>1. cl' \in ClientRecord /\ cl'.pc = "done" /\ cl'.stall = 0 /\ cl'.result = r
  <2>1. ClientInit \in ClientRecord
    BY Times DEF ClientInit, ClientRecord, ClientPlaces, Results
  <2> QED
    BY <2>1, WireClosed DEF Return, PairTypeOK, ClientRecord, ClientPlaces, ClientInit
<1>2. up' \in Wire /\ Queued(up') = Queued(up)
  BY WireClosed DEF Return, PairTypeOK
<1>3. ran' \in Turns /\ RanS(ran') = RanS(ran)
  BY TurnMade DEF Return
<1>4. PairTypeOK'
  BY <1>1, <1>2, <1>3 DEF PairTypeOK
<1>5. Phases'
  BY <1>1, <1>2, <1>3, <1>4, Counts, WireFacts, Times DEF Phases, PairTypeOK, Serving
<1>6. LeaseInv' /\ ExitInv'
  BY <1>1, <1>4 DEF LeaseInv, ExitInv, Pumping
<1> QED
  BY <1>4, <1>5, <1>6

\* A server thread that ends.
LEMMA ThreadEndKeeps ==
    ASSUME PairInv, NEW e \in Ends \ {"none"}, cl' = cl,
           sv' = Returned(e), ran' = [ran EXCEPT !.s = TRUE],
           down' \in Wire, Queued(down') <= Capacity,
           sv.pc # "done", cl.pc # "attach",
           up' \in Wire, Queued(up') <= Queued(up), up'.closed = up.closed,
           e \in {"LeaseExpired", "Fenced"} => cl.driver = "wait_exit" \/ cl.pc = "done",
           e = "ShellExited" /\ cl.pc # "done" =>
             /\ Queued(down') > 0 /\ Final(down') = "Exit"
             /\ ~InTime(sv.backlog)
    PROVE  PairInv'
<1> USE DEF PairInv
<1>1. /\ sv' \in ServerRecord /\ sv'.pc = "done" /\ sv'.hold = 0 /\ sv'.end = e
      /\ sv'.exitAge = NotYet /\ sv'.backlog = sv.backlog
  <2>1. ServerInit \in ServerRecord
    BY Times DEF ServerInit, ServerRecord, Serving, Ends
  <2>2. sv.backlog \in Nat
    BY DEF PairTypeOK, ServerRecord
  <2> QED
    BY <2>1, <2>2 DEF Returned, ServerRecord, Serving, ServerInit
<1>2. ran' \in Turns /\ RanC(ran') = RanC(ran)
  BY TurnMade
<1>3. PairTypeOK'
  BY <1>1, <1>2 DEF PairTypeOK
<1>4. Phases'
  <2>1. Queued(up') \in Nat /\ Queued(up) \in Nat /\ Capacity \in Nat
    BY Counts, WireFacts, Times
  <2>2. Queued(up') <= Capacity
    BY <2>1 DEF Phases
  <2> QED
    BY <1>1, <1>2, <2>1, <2>2 DEF Phases, Serving
<1>5. LeaseInv' /\ ExitInv'
  BY <1>1, <1>3 DEF LeaseInv, ExitInv, Serving, Phases, PairTypeOK
<1> QED
  BY <1>3, <1>4, <1>5

\* The same when it sends nothing more.
LEMMA ServerEndKeeps ==
    ASSUME PairInv, NEW e \in Ends \ {"none"}, EndServer(e), cl' = cl,
           sv.pc # "done", cl.pc # "attach",
           up' \in Wire, Queued(up') <= Queued(up), up'.closed = up.closed,
           e \in {"LeaseExpired", "Fenced"} => cl.driver = "wait_exit" \/ cl.pc = "done",
           e = "ShellExited" /\ cl.pc # "done" =>
             /\ Queued(down') > 0 /\ Final(down') = "Exit"
             /\ ~InTime(sv.backlog)
    PROVE  PairInv'
<1>1. down' \in Wire /\ Queued(down') <= Capacity
  BY WireClosed DEF EndServer, PairInv, PairTypeOK, Phases
<1>2. sv' = Returned(e) /\ ran' = [ran EXCEPT !.s = TRUE]
  BY DEF EndServer
<1> QED
  BY <1>1, <1>2, ThreadEndKeeps

\* attach sends its first frame.
LEMMA AttachSendKeeps ==
    ASSUME PairInv, AttachSend
    PROVE  PairInv'
<1> USE DEF PairInv
<1>1. up' \in Wire /\ Queued(up') = Queued(up) + 1 /\ up'.closed = up.closed
  BY WireSent DEF AttachSend, PairTypeOK, Frame
<1>2. /\ cl' \in ClientRecord /\ cl.pc = "attach" /\ cl'.pc = "wait" /\ cl'.stall = cl.stall
      /\ cl'.result = cl.result /\ cl'.driver = cl.driver
      /\ sv' = sv
      /\ down' = down
      /\ ran' = ran
      /\ RanC(ran') = RanC(ran)
      /\ RanS(ran') = RanS(ran)
  BY TurnMade DEF AttachSend, Client, PairTypeOK, ClientRecord, ClientPlaces
<1>3. PairTypeOK'
  BY <1>1, <1>2 DEF PairTypeOK
<1>4. Phases'
  <2>1. Queued(up) \in Nat /\ Capacity \in Nat /\ Capacity >= 1
    BY Counts, Times
  <2> QED
    BY <1>1, <1>2, <2>1, SMTT(30) DEF Phases, Serving
<1>5. LeaseInv'
  BY <1>1, <1>2, Counts DEF LeaseInv, Pumping
<1>6. ExitInv'
  BY <1>1, <1>2, Counts DEF ExitInv, Phases
<1> QED
  BY <1>3, <1>4, <1>5, <1>6

\* Granted is read, a tick after it was sent at the latest: the pump starts.
LEMMA AttachGrantedKeeps ==
    ASSUME PairInv, AttachGranted
    PROVE  PairInv'
<1> USE DEF PairInv
<1>1. /\ down' \in Wire /\ Queued(down') = Queued(down) - 1 /\ down'.closed = down.closed
      /\ Queued(down) > 1 => Final(down') = Final(down)
      /\ Queued(down) < 2 => Final(down) = "Granted"
      /\ Queued(down) > 0
  BY WireReceived, Counts DEF AttachGranted, PairTypeOK
<1>2. /\ cl' \in ClientRecord /\ cl.pc = "wait" /\ cl'.stall = cl.stall
      /\ cl'.pc = IF cl.driver = "interactive" THEN "top" ELSE "waitExit"
      /\ cl'.result = cl.result /\ cl'.driver = cl.driver /\ cl'.sincePing = 0
      /\ cl.driver \in {"interactive", "wait_exit"}
      /\ sv' = sv /\ up' = up
  <2>1. cl \in ClientRecord /\ cl.driver \in {"interactive", "wait_exit"}
    BY DEF PairTypeOK, ClientRecord
  <2> DEFINE l == IF cl.driver = "interactive" THEN "top" ELSE "waitExit"
  <2>2. /\ l \in ClientPlaces /\ cl.pc = "wait" /\ sv' = sv /\ up' = up
        /\ cl' = [cl EXCEPT !.pc = l, !.sincePing = 0, !.waited = 0]
    BY DEF AttachGranted, ClientPlaces
  <2> HIDE DEF l
  <2>3. /\ cl' \in ClientRecord /\ cl'.pc = l /\ cl'.sincePing = 0 /\ cl'.stall = cl.stall
        /\ cl'.result = cl.result /\ cl'.driver = cl.driver
    <3>1. 0 \in 0 .. PingInterval
      BY Times
    <3> QED
      BY <2>1, <2>2, <3>1 DEF ClientRecord
  <2> QED
    BY <2>1, <2>2, <2>3 DEF l
<1>3. ran' \in Turns /\ RanC(ran') = 1 /\ RanS(ran') = RanS(ran)
  BY TurnMade DEF AttachGranted
<1>4. PairTypeOK'
  BY <1>1, <1>2, <1>3 DEF PairTypeOK
<1>5. Phases'
  BY <1>1, <1>2, <1>3, Counts, Times DEF Phases, Serving
<1>6. LeaseInv'
  BY <1>1, <1>2, <1>3, Counts, Times, SMTT(30)
     DEF LeaseInv, UntilSend, Pumping, Phases, Serving
<1>7. ExitInv'
  <2>1. sv.exitAge # NotYet \/ sv.end = "ShellExited" =>
            Queued(down) >= 2 /\ Final(down') = "Exit"
    BY <1>1, <1>2, Counts DEF ExitInv
  <2>2. Queued(down) >= 2 =>
          /\ UntilExit(cl', up', down', ran') <= UntilExit(cl, up, down, ran)
          /\ UntilExit(cl', up', down', ran') \in Nat
          /\ UntilExit(cl, up, down, ran) \in Nat
    BY <1>1, <1>4, Progress
  <2>3. sv.exitAge \in Nat /\ Queued(down) \in Nat /\ ExitGraceTime \in Nat
    BY Counts, Times
  <2> QED
    BY <1>1, <1>2, <2>1, <2>2, <2>3 DEF ExitInv
<1> QED
  BY <1>4, <1>5, <1>6, <1>7

\* What a receive of the client does to the wire.
LEMMA TakesDown ==
    ASSUME PairTypeOK, down.frames # <<>>, down' = Received(down)
    PROVE  /\ down' \in Wire /\ Queued(down') = Queued(down) - 1 /\ down'.closed = down.closed
           /\ Queued(down) > 1 => Final(down') = Final(down)
           /\ Queued(down) < 2 => Final(down) = Head(down.frames)
           /\ Queued(down) > 0 /\ Queued(down) \in Nat /\ Queued(down') <= Queued(down)
           /\ Head(down.frames) \in Frame
<1>1. down \in Wire
  BY DEF PairTypeOK
<1>2. Queued(down) \in Nat /\ Queued(down) > 0
  BY Counts
<1> QED
  BY <1>1, <1>2, WireReceived

\* A denial is read.
LEMMA AttachRefusedKeeps ==
    ASSUME PairInv, AttachRefused
    PROVE  PairInv'
<1> USE DEF PairInv
<1>1. /\ down' \in Wire /\ Queued(down') <= Queued(down) /\ down'.closed = down.closed
      /\ sv' = sv
  BY TakesDown DEF AttachRefused
<1>2. PICK r \in {"LeaseHeldByOther", "TerminalGone", "Protocol"} : Return(r)
  BY DEF AttachRefused
<1> QED
  BY <1>1, <1>2, ReturnKeeps DEF Results

\* Nothing to read: the client waits on, or gives up.
LEMMA AttachWaitsKeeps ==
    ASSUME PairInv, AttachWaits
    PROVE  PairInv'
<1> USE DEF PairInv
<1>1. /\ down' = down /\ sv' = sv /\ down \in Wire /\ cl.pc = "wait" /\ RanC(ran) = 0
      /\ Queued(down) < 1 /\ Queued(down) \in Nat
  BY Counts DEF AttachWaits, PairTypeOK, RanC
<1>2. CASE down.closed /\ Return("ClosedByPeer")
  <2>1. sv.pc = "done" /\ sv.end # "ShellExited"
    BY <1>1, <1>2 DEF Phases, ExitInv
  <2> QED
    BY <1>1, <1>2, <2>1, ReturnKeeps DEF Results
<1>3. CASE Return("Timeout")
  BY <1>1, <1>3, ReturnKeeps DEF Results
<1>4. CASE ran' = [ran EXCEPT !.c = TRUE] /\ UNCHANGED <<cl, up>>
  <2>1. ran' \in Turns /\ RanC(ran') = 1 /\ RanS(ran') = RanS(ran)
    BY <1>4, TurnMade
  <2>2. cl' = cl /\ up' = up
    BY <1>4
  <2>3. PairTypeOK'
    BY <1>1, <2>1, <2>2 DEF PairTypeOK
  <2>4. Phases'
    BY <1>1, <2>1, <2>2 DEF Phases
  <2>5. LeaseInv'
    BY <1>1, <2>1, <2>2 DEF LeaseInv, Pumping
  <2>6. ExitInv'
    BY <1>1, <2>1, <2>2 DEF ExitInv
  <2> QED
    BY <2>3, <2>4, <2>5, <2>6
<1> QED
  BY <1>2, <1>3, <1>4 DEF AttachWaits

\* The grace after the end of stdin is over.
LEMMA DetachKeeps ==
    ASSUME PairInv, Detach
    PROVE  PairInv'
<1> USE DEF PairInv
<1>1. down' = down /\ sv' = sv /\ down \in Wire /\ Queued(down) \in Nat /\ Return("Detached")
  BY Counts DEF Detach, PairTypeOK
<1> QED
  BY <1>1, ReturnKeeps DEF Results

\* The places of the pump at which nothing is held up.
Pump == {"top", "ping", "stdin", "input", "window", "resize", "poll"}

\* The client goes on to a place that is no further from its next frame.
LEMMA PumpMoves ==
    ASSUME PairInv, cl' \in ClientRecord, cl'.driver = cl.driver, cl'.result = cl.result,
           cl'.stall = 0, cl.pc \in Pump \cup {"stdout"}, cl'.pc \in Pump,
           cl'.sincePing = cl.sincePing,
           sv' = sv, up' = up, down' = down, ran' = ran,
           UntilSend(cl', ran') <= UntilSend(cl, ran),
           UntilPoll(cl', up', ran') <= UntilPoll(cl, up, ran)
    PROVE  PairInv'
<1> USE DEF PairInv
<1>1. RanC(ran') = RanC(ran) /\ RanS(ran') = RanS(ran)
  BY TurnMade
<1>2. PairTypeOK'
  BY DEF PairTypeOK
<1>3. Phases'
  BY <1>1 DEF Phases, Pump, Serving
<1>4. LeaseInv'
  <2>1. UntilSend(cl, ran) \in Nat /\ UntilSend(cl', ran') \in Nat
    BY <1>2, SendBound DEF PairTypeOK
  <2>2. sv.age \in Nat /\ LeaseTimeout \in Nat
    BY Counts, Times
  <2> QED
    BY <1>1, <2>1, <2>2 DEF LeaseInv, Pumping, Pump
<1>5. ExitInv'
  <2>1. UntilPoll(cl, up, ran) \in Nat /\ UntilPoll(cl', up', ran') \in Nat
    BY <1>2, PollBound DEF PairTypeOK
  <2>2. ASSUME Queued(down) > 0
        PROVE  /\ UntilExit(cl', up', down', ran') <= UntilExit(cl, up, down, ran)
               /\ UntilExit(cl', up', down', ran') \in Nat
               /\ UntilExit(cl, up, down, ran) \in Nat
    <3>1. UntilPoll(cl', up', ran') + 0 <= UntilPoll(cl, up, ran) /\ 0 \in Nat
      BY <2>1
    <3>2. /\ UntilExit(cl', up', down', ran') + 0 <= UntilExit(cl, up, down, ran)
          /\ UntilExit(cl', up', down', ran') \in Nat
          /\ UntilExit(cl, up, down, ran) \in Nat
      BY <2>2, <3>1, <1>2, Closer
    <3> QED
      BY <3>2
  <2>3. sv.exitAge \in Nat /\ ExitGraceTime \in Nat
    BY Counts, Times
  <2> QED
    BY <2>2, <2>3 DEF ExitInv, Pump
<1> QED
  BY <1>2, <1>3, <1>4, <1>5

\* A ping is due, or not yet.
LEMMA PingDueKeeps ==
    ASSUME PairInv, PingDue
    PROVE  PairInv'
<1> USE DEF PairInv
<1>1. cl \in ClientRecord /\ cl.pc = "top"
      /\ sv' = sv /\ up' = up /\ down' = down /\ ran' = ran
  BY DEF PingDue, PairTypeOK
<1>2. /\ RanC(ran') = RanC(ran)
      /\ RanS(ran') = RanS(ran)
      /\ cl.stall = 0
      /\ Blocked(up', ran') = Blocked(up, ran)
  BY <1>1, TurnMade, Counts DEF Phases, Blocked
<1>3. /\ RanC(ran) \in {0, 1}
      /\ Blocked(up, ran) \in {RanC(ran), 1 + RanS(ran)}
      /\ RanS(ran) \in {0, 1}
  BY Counts DEF Blocked
<1>4. CASE cl.sincePing >= PingInterval
  <2>1. cl' = [cl EXCEPT !.pc = "ping", !.deadline = PingDeadline, !.patience = PingDeadline]
    BY <1>4 DEF PingDue, StartSend
  <2>2. /\ cl' \in ClientRecord /\ cl'.pc = "ping" /\ cl'.driver = cl.driver
        /\ cl'.result = cl.result /\ cl'.stall = cl.stall /\ cl'.sincePing = cl.sincePing
    BY <1>1, <2>1, Times DEF ClientRecord, ClientPlaces
  <2>3. /\ UntilSend(cl', ran') = UntilSend(cl, ran)
        /\ UntilPoll(cl', up', ran') = UntilPoll(cl, up, ran)
    BY <1>1, <1>2, <2>2 DEF UntilSend, UntilPoll
  <2>4. UntilSend(cl, ran) \in Nat /\ UntilPoll(cl, up, ran) \in Nat
    BY SendBound, PollBound DEF PairTypeOK
  <2>5. /\ UntilSend(cl', ran') <= UntilSend(cl, ran)
        /\ UntilPoll(cl', up', ran') <= UntilPoll(cl, up, ran)
    BY <2>3, <2>4
  <2> QED
    BY <1>1, <1>2, <2>2, <2>5, PumpMoves DEF Pump
<1>5. CASE ~(cl.sincePing >= PingInterval)
  <2>1. cl' = [cl EXCEPT !.pc = "stdin"]
    BY <1>5 DEF PingDue, Client
  <2>2. /\ cl' \in ClientRecord /\ cl'.pc = "stdin" /\ cl'.driver = cl.driver
        /\ cl'.result = cl.result /\ cl'.stall = cl.stall /\ cl'.sincePing = cl.sincePing
    BY <1>1, <2>1 DEF ClientRecord, ClientPlaces
  <2>3. UntilSend(cl', ran') = UntilSend(cl, ran)
    BY <1>1, <1>5, <2>2, Counts, Times DEF UntilSend
  <2>4. /\ UntilPoll(cl, up, ran) = Blocked(up, ran) + 4
        /\ UntilPoll(cl', up', ran') = Blocked(up, ran) + 2
    BY <1>1, <1>2, <2>2 DEF UntilPoll
  <2>5. /\ UntilSend(cl', ran') <= UntilSend(cl, ran)
        /\ UntilPoll(cl', up', ran') <= UntilPoll(cl, up, ran)
    BY <2>3, <2>4, <1>3, SendBound DEF PairTypeOK
  <2> QED
    BY <1>1, <1>2, <2>2, <2>5, PumpMoves DEF Pump
<1> QED
  BY <1>4, <1>5

\* What the pump's own steps leave alone.
LEMMA PumpFacts ==
    ASSUME PairInv, cl.pc \in Pump, ran' = ran, up' = up
    PROVE  /\ cl \in ClientRecord /\ cl.stall = 0
           /\ RanC(ran) \in {0, 1} /\ RanS(ran) \in {0, 1}
           /\ Blocked(up, ran) \in Nat /\ Blocked(up', ran') = Blocked(up, ran)
           /\ Blocked(up, ran) >= RanC(ran)
           /\ UntilSend(cl, ran) \in Nat
<1>1. cl \in ClientRecord /\ ran \in Turns
  BY DEF PairInv, PairTypeOK
<1>2. RanC(ran) \in {0, 1} /\ RanS(ran) \in {0, 1}
  BY <1>1, Bits
<1>3. cl.stall = 0
  BY Counts DEF PairInv, Phases, Pump
<1> QED
  BY <1>1, <1>2, <1>3, SendBound DEF Blocked

\* A read of stdin is taken, or its end, or there is none.
LEMMA TakeStdinKeeps ==
    ASSUME PairInv, TakeStdin
    PROVE  PairInv'
<1>1. cl.pc = "stdin" /\ sv' = sv /\ up' = up /\ down' = down /\ ran' = ran
  BY DEF TakeStdin
<1>2. cl.pc \in Pump
  BY <1>1 DEF Pump
<1>3. PICK l \in {"input", "window"} :
        /\ cl' \in ClientRecord /\ cl'.pc = l /\ cl'.driver = cl.driver
        /\ cl'.result = cl.result /\ cl'.stall = cl.stall /\ cl'.sincePing = cl.sincePing
  <2>1. CASE cl' = [cl EXCEPT !.pc = "window"]
    BY <2>1, <1>1, <1>2, PumpFacts DEF ClientRecord, ClientPlaces
  <2>2. CASE cl' = [cl EXCEPT !.pc = "input", !.deadline = cl.deadline,
         !.patience = cl.deadline]
    BY <2>2, <1>1, <1>2, PumpFacts DEF ClientRecord, ClientPlaces
  <2>3. ASSUME NEW z \in Nat, cl' = [cl EXCEPT !.pc = "window", !.sinceEof = z]
        PROVE  /\ cl' \in ClientRecord /\ cl'.pc = "window" /\ cl'.driver = cl.driver
               /\ cl'.result = cl.result /\ cl'.stall = cl.stall /\ cl'.sincePing = cl.sincePing
    BY <2>3, <1>1, <1>2, PumpFacts DEF ClientRecord, ClientPlaces
  <2>4. cl.sinceEof \in Nat
    BY <1>1, <1>2, PumpFacts DEF ClientRecord
  <2>5. (IF cl.sinceEof = NotYet THEN 0 ELSE cl.sinceEof) \in Nat
    BY <2>4
  <2> QED
    BY <2>1, <2>2, <2>3, <2>5 DEF TakeStdin, Client, StartSend
<1>4. /\ UntilSend(cl', ran') <= UntilSend(cl, ran)
      /\ UntilPoll(cl', up', ran') <= UntilPoll(cl, up, ran)
  <2>1. UntilPoll(cl', up', ran') <= UntilPoll(cl, up, ran)
    BY <1>1, <1>2, <1>3, PumpFacts DEF UntilPoll
  <2> QED
    BY <1>1, <1>2, <1>3, <2>1, PumpFacts, Times DEF UntilSend
<1> QED
  BY <1>1, <1>2, <1>3, <1>4, PumpFacts, PumpMoves DEF Pump

\* The window is looked at.
LEMMA ProbeWindowKeeps ==
    ASSUME PairInv, ProbeWindow
    PROVE  PairInv'
<1>1. cl.pc = "window" /\ sv' = sv /\ up' = up /\ down' = down /\ ran' = ran
  BY DEF ProbeWindow
<1>2. cl.pc \in Pump
  BY <1>1 DEF Pump
<1>3. PICK l \in {"resize", "poll"} :
        /\ cl' \in ClientRecord /\ cl'.pc = l /\ cl'.driver = cl.driver
        /\ cl'.result = cl.result /\ cl'.stall = cl.stall /\ cl'.sincePing = cl.sincePing
  <2>1. CASE cl' = [cl EXCEPT !.pc = "poll"]
    BY <2>1, <1>1, <1>2, PumpFacts DEF ClientRecord, ClientPlaces
  <2>2. CASE cl' = [cl EXCEPT !.pc = "resize", !.deadline = cl.deadline,
         !.patience = cl.deadline]
    BY <2>2, <1>1, <1>2, PumpFacts DEF ClientRecord, ClientPlaces
  <2> QED
    BY <2>1, <2>2 DEF ProbeWindow, Client, StartSend
<1>4. /\ UntilSend(cl', ran') <= UntilSend(cl, ran)
      /\ UntilPoll(cl', up', ran') <= UntilPoll(cl, up, ran)
  <2>1. UntilPoll(cl', up', ran') <= UntilPoll(cl, up, ran)
    BY <1>1, <1>2, <1>3, PumpFacts DEF UntilPoll
  <2> QED
    BY <1>1, <1>2, <1>3, <2>1, PumpFacts, Times DEF UntilSend
<1> QED
  BY <1>1, <1>2, <1>3, <1>4, PumpFacts, PumpMoves DEF Pump

\* A write to stdout is done.
LEMMA StdoutWrittenKeeps ==
    ASSUME PairInv, StdoutWritten
    PROVE  PairInv'
<1>1. /\ cl.pc = "stdout" /\ cl.stall = 0 /\ sv' = sv /\ up' = up /\ down' = down /\ ran' = ran
      /\ cl' = [cl EXCEPT !.pc = "top"]
  BY DEF StdoutWritten, Client
<1>2. /\ cl' \in ClientRecord /\ cl'.pc = "top" /\ cl'.driver = cl.driver
      /\ cl'.result = cl.result /\ cl'.stall = 0 /\ cl'.sincePing = cl.sincePing
  BY <1>1 DEF PairInv, PairTypeOK, ClientRecord, ClientPlaces
<1>3. RanC(ran) = 0 /\ RanS(ran) \in {0, 1}
  BY <1>1, Counts DEF PairInv, Phases
<1>4. UntilPoll(cl', up', ran') <= UntilPoll(cl, up, ran)
  BY <1>1, <1>2, <1>3 DEF UntilPoll, Blocked
<1>5. UntilSend(cl', ran') <= UntilSend(cl, ran)
  <2>1. cl.sincePing \in 0 .. PingInterval
    BY Counts DEF PairInv
  <2> QED
    BY <1>1, <1>2, <1>3, <2>1, Times DEF UntilSend
<1> QED
  BY <1>1, <1>2, <1>4, <1>5, PumpMoves DEF Pump

\* A frame is sent, with which both bounds start anew.
LEMMA SendDoneKeeps ==
    ASSUME PairInv, SendDone
    PROVE  PairInv'
<1> USE DEF PairInv
<1>1. /\ cl.pc \in {"ping", "input", "resize"} /\ Queued(up) < Capacity
      /\ sv' = sv /\ down' = down /\ ran' = ran /\ Queued(up) \in Nat
      /\ RanC(ran) \in {0, 1} /\ RanS(ran) \in {0, 1} /\ cl.stall = 0 /\ sv.age \in Nat
  BY Counts DEF SendDone, Phases
<1>2. /\ up' \in Wire /\ Queued(up') = Queued(up) + 1 /\ up'.closed = up.closed
  <2>1. up \in Wire /\ cl.pc \in Frame /\ up' = Sent(up, cl.pc)
    BY <1>1 DEF SendDone, PairTypeOK, Frame
  <2> QED
    BY <2>1, WireSent
<1>3. /\ cl' \in ClientRecord /\ cl'.driver = cl.driver
      /\ cl'.result = cl.result /\ cl'.stall = cl.stall
      /\ cl'.pc = IF cl.pc = "ping" THEN "stdin"
                  ELSE IF cl.pc = "input" THEN "window" ELSE "poll"
  <2> DEFINE l == CASE cl.pc = "ping" -> "stdin" [] cl.pc = "input" -> "window" [] OTHER -> "poll"
             z == IF cl.pc = "resize" THEN cl.sincePing ELSE 0
  <2>1. /\ l = (IF cl.pc = "ping" THEN "stdin" ELSE IF cl.pc = "input" THEN "window" ELSE "poll")
        /\ l \in ClientPlaces
    BY <1>1 DEF ClientPlaces
  <2>2. z \in 0 .. PingInterval
    BY Counts, Times
  <2>3. cl' = [cl EXCEPT !.pc = l, !.sincePing = z, !.patience = 0] /\ cl \in ClientRecord
    BY DEF SendDone, PairTypeOK
  <2> HIDE DEF l, z
  <2>4. /\ cl' \in ClientRecord /\ cl'.driver = cl.driver
        /\ cl'.result = cl.result /\ cl'.stall = cl.stall /\ cl'.pc = l
    BY <2>1, <2>2, <2>3 DEF ClientRecord
  <2> QED
    BY <2>1, <2>4
<1>4. PairTypeOK'
  BY <1>1, <1>2, <1>3 DEF PairTypeOK
<1>5. Phases'
  BY <1>1, <1>2, <1>3, Times DEF Phases, Serving
<1>6. LeaseInv'
  <2>1. UntilSend(cl, ran) \in Nat /\ LeaseTimeout \in Nat
    BY SendBound, Times DEF PairTypeOK
  <2>2. Pumping' => Pumping
    BY <1>1, <1>3 DEF Pumping
  <2>3. Queued(up) < 1 \/ Queued(up) > 0
    BY <1>1
  <2> QED
    BY <1>1, <1>2, <1>3, <2>1, <2>2, <2>3 DEF LeaseInv
<1>7. ExitInv'
  <2>1. UntilPoll(cl', up', ran') + 0 <= UntilPoll(cl, up, ran)
    <3>1. Blocked(up, ran) = RanC(ran) /\ Blocked(up', ran') \in {RanC(ran), 1 + RanS(ran)}
      BY <1>1 DEF Blocked
    <3> QED
      BY <1>1, <1>3, <3>1 DEF UntilPoll
  <2>2. Queued(down) > 0 =>
          /\ UntilExit(cl', up', down', ran') + 0 <= UntilExit(cl, up, down, ran)
          /\ UntilExit(cl', up', down', ran') \in Nat /\ UntilExit(cl, up, down, ran) \in Nat
    BY <1>1, <1>4, <2>1, Closer
  <2>3. sv.exitAge \in Nat /\ ExitGraceTime \in Nat
    BY Counts, Times
  <2> QED
    BY <1>1, <1>3, <2>2, <2>3 DEF ExitInv
<1> QED
  BY <1>4, <1>5, <1>6, <1>7

\* The connection is full: the server makes room within its next turn.
LEMMA SendBlocksKeeps ==
    ASSUME PairInv, SendBlocks
    PROVE  PairInv'
<1> USE DEF PairInv
<1>1. /\ cl.pc \in {"ping", "input", "resize"} /\ ~(Queued(up) < Capacity)
      /\ cl' = cl
      /\ up' = up
      /\ sv' = sv
      /\ down' = down
      /\ Queued(up) \in Nat
      /\ Queued(up) > 0
  BY Counts, Times, SMTT(30) DEF SendBlocks
<1>2. ran' \in Turns /\ RanC(ran') = 1 /\ RanS(ran') = RanS(ran)
  BY TurnMade DEF SendBlocks
<1>3. PairTypeOK'
  BY <1>1, <1>2 DEF PairTypeOK
<1>4. Phases'
  BY <1>1, <1>2 DEF Phases
<1>5. LeaseInv'
  BY <1>1, <1>2 DEF LeaseInv, Pumping
<1>6. ExitInv'
  <2>1. UntilPoll(cl', up', ran') = UntilPoll(cl, up, ran)
    BY <1>1, <1>2 DEF UntilPoll, Blocked
  <2>2. UntilExit(cl', up', down', ran') = UntilExit(cl, up, down, ran)
    BY <1>1, <2>1 DEF UntilExit
  <2> QED
    BY <1>1, <2>2 DEF ExitInv
<1> QED
  BY <1>3, <1>4, <1>5, <1>6

\* A send fails.
LEMMA SendErrorKeeps ==
    ASSUME PairInv, SendError
    PROVE  PairInv'
<1> USE DEF PairInv
<1>1. /\ down' = down /\ sv' = sv /\ down \in Wire /\ Queued(down) \in Nat /\ cl.pc # "done"
  BY Counts DEF SendError, PairTypeOK
<1>2. CASE Return("SendTimeout")
  BY <1>1, <1>2, ReturnKeeps DEF Results
<1>3. CASE sv.pc = "done" /\ Return("Disconnected")
  <2>1. ~(sv.end = "ShellExited" /\ InTime(sv.backlog))
    BY <1>1 DEF ExitInv
  <2> QED
    BY <1>1, <1>3, <2>1, ReturnKeeps DEF Results
<1> QED
  BY <1>2, <1>3 DEF SendError

\* Output is read: the next frame comes within a turn.
LEMMA PollOutputKeeps ==
    ASSUME PairInv, PollOutput
    PROVE  PairInv'
<1> USE DEF PairInv
<1>1. /\ cl.pc = "poll" /\ sv' = sv /\ down.frames # <<>> /\ down' = Received(down)
      /\ Head(down.frames) = "Output"
  BY DEF PollOutput
<1>2. /\ down' \in Wire /\ Queued(down') = Queued(down) - 1 /\ down'.closed = down.closed
      /\ Queued(down) > 1 => Final(down') = Final(down)
      /\ Queued(down) < 2 => Final(down) = "Output"
      /\ Queued(down) > 0 /\ Queued(down) \in Nat /\ Queued(down') <= Queued(down)
  BY <1>1, TakesDown
<1>3. CASE Return("Io")
  BY <1>1, <1>2, <1>3, ReturnKeeps DEF Results
<1>4. ASSUME NEW n \in 0 .. MaxStall,
             cl' = [cl EXCEPT !.pc = IF n = 0 THEN "top" ELSE "stdout", !.stall = n,
              !.deadline = 1],
             ran' = [ran EXCEPT !.c = TRUE], up' = up
      PROVE  PairInv'
  <2> DEFINE l == IF n = 0 THEN "top" ELSE "stdout"
  <2>1. ran' \in Turns /\ RanC(ran') = 1 /\ RanS(ran') = RanS(ran)
    BY <1>4, TurnMade
  <2>2. /\ cl' \in ClientRecord /\ cl'.driver = cl.driver /\ cl'.sincePing = cl.sincePing
        /\ cl'.result = cl.result /\ cl'.stall = n /\ cl'.pc = l
    <3>1. l \in ClientPlaces /\ cl \in ClientRecord
          /\ cl' = [cl EXCEPT !.pc = l, !.stall = n, !.deadline = 1]
      BY <1>4 DEF ClientPlaces, PairTypeOK
    <3> HIDE DEF l
    <3> QED
      BY <3>1 DEF ClientRecord
  <2>3. PairTypeOK'
    BY <1>1, <1>2, <1>4, <2>1, <2>2 DEF PairTypeOK
  <2>4. Phases'
    <3>1. /\ cl'.pc \in {"top", "stdout"} /\ n \in Nat /\ Capacity \in Nat
          /\ n > 0 => cl'.pc = "stdout"
          /\ cl'.pc = "stdout" => n # 0
      BY <2>2, Times
    <3> QED
      BY <1>1, <1>2, <1>4, <2>1, <2>2, <3>1 DEF Phases, Serving
  <2>5. LeaseInv'
    <3>1. RanC(ran) \in {0, 1} /\ cl.sincePing \in 0 .. PingInterval /\ sv.age \in Nat
      BY Counts
    <3>2. UntilSend(cl', ran') <= UntilSend(cl, ran)
      BY <1>1, <2>1, <2>2, <3>1, Times DEF UntilSend
    <3>3. /\ UntilSend(cl', ran') \in Nat /\ UntilSend(cl, ran) \in Nat /\ LeaseTimeout \in Nat
          /\ Queued(up) \in Nat
      BY <2>3, SendBound, Times, Counts DEF PairTypeOK
    <3>4. Pumping' => Pumping
      BY <1>1, <2>2 DEF Pumping
    <3> QED
      BY <1>1, <1>4, <2>1, <2>2, <3>1, <3>2, <3>3, <3>4 DEF LeaseInv
  <2>6. ExitInv'
    <3>1. sv.exitAge # NotYet \/ sv.end = "ShellExited" =>
            Queued(down) >= 2 /\ Final(down') = "Exit"
      BY <1>1, <1>2 DEF ExitInv
    <3>2. Queued(down) >= 2 =>
            /\ UntilExit(cl', up', down', ran') <= UntilExit(cl, up, down, ran)
            /\ UntilExit(cl', up', down', ran') \in Nat /\ UntilExit(cl, up, down, ran) \in Nat
      BY <1>2, <2>3, Progress
    <3>3. sv.exitAge \in Nat /\ ExitGraceTime \in Nat
      BY Counts, Times
    <3> QED
      BY <1>1, <1>2, <2>2, <3>1, <3>2, <3>3, SMTT(30) DEF ExitInv
  <2> QED
    BY <2>3, <2>4, <2>5, <2>6
<1> QED
  BY <1>3, <1>4 DEF PollOutput

\* Exit is read.
LEMMA PollExitKeeps ==
    ASSUME PairInv, PollExit
    PROVE  PairInv'
<1> USE DEF PairInv
<1>1. /\ down' \in Wire /\ Queued(down') <= Queued(down) /\ down'.closed = down.closed
      /\ sv' = sv /\ Return("Exit")
  BY TakesDown DEF PollExit
<1> QED
  BY <1>1, ReturnKeeps DEF Results

\* Nothing to read, which in the exit grace does not happen.
LEMMA PollEmptyKeeps ==
    ASSUME PairInv, PollEmpty
    PROVE  PairInv'
<1> USE DEF PairInv
<1>1. /\ cl.pc = "poll" /\ sv' = sv /\ down' = down /\ down \in Wire
      /\ Queued(down) \in Nat /\ Queued(down) < 1
  BY Counts DEF PollEmpty, PairTypeOK
<1>2. sv.exitAge = NotYet /\ sv.end # "ShellExited"
  BY <1>1 DEF ExitInv
<1>3. CASE down.closed /\ Return("ClosedByPeer")
  <2>1. sv.pc = "done" /\ sv.end # "ShellExited"
    BY <1>1, <1>2, <1>3 DEF Phases, ExitInv
  <2> QED
    BY <1>1, <1>3, <2>1, ReturnKeeps DEF Results
<1>4. CASE /\ cl' = [cl EXCEPT !.pc = "top", !.deadline = 1]
           /\ ran' = [ran EXCEPT !.c = TRUE] /\ up' = up
  <2>1. ran' \in Turns /\ RanC(ran') = 1 /\ RanS(ran') = RanS(ran)
    BY <1>4, TurnMade
  <2>2. /\ cl' \in ClientRecord /\ cl'.driver = cl.driver /\ cl'.sincePing = cl.sincePing
        /\ cl'.result = cl.result /\ cl'.stall = cl.stall /\ cl'.pc = "top" /\ up' = up
    BY <1>4 DEF PairTypeOK, ClientRecord, ClientPlaces
  <2>3. PairTypeOK'
    BY <1>1, <2>1, <2>2 DEF PairTypeOK
  <2>4. Phases'
    BY <1>1, <2>1, <2>2 DEF Phases, Serving
  <2>5. LeaseInv'
    <3>1. RanC(ran) \in {0, 1} /\ cl.sincePing \in 0 .. PingInterval /\ sv.age \in Nat
      BY Counts
    <3>2. UntilSend(cl', ran') <= UntilSend(cl, ran)
      BY <1>1, <2>1, <2>2, <3>1, Times DEF UntilSend
    <3>3. /\ UntilSend(cl', ran') \in Nat /\ UntilSend(cl, ran) \in Nat /\ LeaseTimeout \in Nat
          /\ Queued(up) \in Nat
      BY <2>3, SendBound, Times, Counts DEF PairTypeOK
    <3>4. Pumping' => Pumping
      BY <1>1, <2>2 DEF Pumping
    <3> QED
      BY <1>1, <2>1, <2>2, <3>1, <3>2, <3>3, <3>4 DEF LeaseInv
  <2>6. ExitInv'
    BY <1>1, <1>2, <2>2 DEF ExitInv
  <2> QED
    BY <2>3, <2>4, <2>5, <2>6
<1> QED
  BY <1>3, <1>4 DEF PollEmpty

\* The same without a pump.
LEMMA WaitExitKeeps ==
    ASSUME PairInv, WaitExit
    PROVE  PairInv'
<1> USE DEF PairInv
<1>1. /\ cl.pc = "waitExit" /\ cl.driver = "wait_exit" /\ sv' = sv /\ down \in Wire
      /\ Queued(down) \in Nat /\ (down.frames = <<>> => Queued(down) < 1)
  BY Counts DEF WaitExit, PairTypeOK, Phases
<1>2. CASE Return("Timeout") /\ UNCHANGED down
  <2>1. down' = down
    BY <1>2
  <2> QED
    BY <1>1, <1>2, <2>1, ReturnKeeps DEF Results
<1>3. CASE /\ down.frames # <<>> /\ Head(down.frames) = "Output" /\ down' = Received(down)
           /\ ran' = [ran EXCEPT !.c = TRUE] /\ UNCHANGED <<cl, up>>
  <2>1. /\ down' \in Wire /\ Queued(down') = Queued(down) - 1 /\ down'.closed = down.closed
        /\ Queued(down) > 1 => Final(down') = Final(down)
        /\ Queued(down) < 2 => Final(down) = "Output"
        /\ Queued(down) > 0
    BY <1>3, TakesDown
  <2>2. ran' \in Turns /\ RanC(ran') = 1 /\ RanS(ran') = RanS(ran) /\ cl' = cl /\ up' = up
    BY <1>3, TurnMade
  <2>3. PairTypeOK'
    BY <1>1, <2>1, <2>2 DEF PairTypeOK
  <2>4. Phases'
    <3>1. Capacity \in Nat
      BY Times
    <3> QED
      BY <1>1, <2>1, <2>2, <3>1 DEF Phases, Serving
  <2>5. LeaseInv'
    BY <1>1, <2>1, <2>2 DEF LeaseInv, Pumping
  <2>6. ExitInv'
    <3>1. sv.exitAge # NotYet \/ sv.end = "ShellExited" =>
            Queued(down) >= 2 /\ Final(down') = "Exit"
      BY <1>1, <2>1 DEF ExitInv
    <3>2. Queued(down) >= 2 =>
            /\ UntilExit(cl', up', down', ran') <= UntilExit(cl, up, down, ran)
            /\ UntilExit(cl', up', down', ran') \in Nat /\ UntilExit(cl, up, down, ran) \in Nat
      BY <2>1, <2>3, Progress
    <3>3. sv.exitAge \in Nat /\ ExitGraceTime \in Nat
      BY Counts, Times
    <3> QED
      BY <1>1, <2>1, <2>2, <3>1, <3>2, <3>3 DEF ExitInv
  <2> QED
    BY <2>3, <2>4, <2>5, <2>6
<1>4. CASE down.frames = <<>> /\ down.closed /\ Return("ClosedByPeer") /\ UNCHANGED down
  <2>1. down' = down /\ sv.pc = "done" /\ sv.end # "ShellExited"
    BY <1>1, <1>4 DEF Phases, ExitInv
  <2>2. Return("ClosedByPeer")
    BY <1>4
  <2> QED
    BY <1>1, <2>1, <2>2, ReturnKeeps DEF Results
<1>5. CASE down.frames = <<>> /\ ran' = [ran EXCEPT !.c = TRUE] /\ UNCHANGED <<cl, up, down>>
  <2>1. /\ ran' \in Turns /\ RanC(ran') = 1 /\ RanS(ran') = RanS(ran)
        /\ cl' = cl /\ up' = up /\ down' = down
    BY <1>5, TurnMade
  <2>2. PairTypeOK'
    BY <1>1, <2>1 DEF PairTypeOK
  <2>3. Phases'
    BY <1>1, <2>1 DEF Phases
  <2>4. LeaseInv'
    BY <1>1, <2>1 DEF LeaseInv, Pumping
  <2>5. ExitInv'
    BY <1>1, <1>5, <2>1 DEF ExitInv
  <2> QED
    BY <2>2, <2>3, <2>4, <2>5
<1> QED
  BY <1>2, <1>3, <1>4, <1>5 DEF WaitExit

\* The caller of wait_exit sends an input.
LEMMA DirectInputKeeps ==
    ASSUME PairInv, DirectInput
    PROVE  PairInv'
<1> USE DEF PairInv
<1>1. /\ cl.pc = "waitExit" /\ cl.driver = "wait_exit" /\ Queued(up) < Capacity
      /\ cl' = cl /\ sv' = sv /\ down' = down /\ ran' = ran /\ Queued(up) \in Nat
  BY Counts DEF DirectInput, Phases
<1>2. /\ up' \in Wire /\ Queued(up') = Queued(up) + 1 /\ up'.closed = up.closed
  BY WireSent DEF DirectInput, PairTypeOK, Frame
<1>3. PairTypeOK'
  BY <1>1, <1>2 DEF PairTypeOK
<1>4. Phases'
  BY <1>1, <1>2, Times DEF Phases
<1>5. LeaseInv'
  BY <1>1, <1>2 DEF LeaseInv, Pumping
<1>6. ExitInv'
  <2>1. UntilExit(cl', up', down', ran') = UntilExit(cl, up, down, ran)
    BY <1>1 DEF UntilExit, UntilPoll
  <2> QED
    BY <1>1, <2>1 DEF ExitInv
<1> QED
  BY <1>3, <1>4, <1>5, <1>6

-----------------------------------------------------------------------------
\* The server's steps.

\* A frame that is on the way is taken by the server.
LEMMA TakesUp ==
    ASSUME PairTypeOK, up.frames # <<>>, up' = Received(up)
    PROVE  /\ up' \in Wire /\ Queued(up') = Queued(up) - 1 /\ up'.closed = up.closed
           /\ Queued(up) > 0 /\ Queued(up) \in Nat /\ Queued(up') <= Queued(up)
<1>1. up \in Wire
  BY DEF PairTypeOK
<1>2. Queued(up) \in Nat /\ Queued(up) > 0
  BY Counts
<1> QED
  BY <1>1, <1>2, WireReceived

\* While the client pumps, the lease has not expired when the server looks.
LEMMA NotExpired ==
    ASSUME PairInv, sv.pc \in {"run", "exit"}, sv.pc = "run" => Queued(up) > 0, Expired
    PROVE  cl.driver = "wait_exit" \/ cl.pc = "done"
<1>1. /\ sv.age \in Nat /\ LeaseTimeout \in Nat /\ RanC(ran) \in {0, 1} /\ RanS(ran) \in {0, 1}
      /\ Queued(up) \in Nat /\ UntilSend(cl, ran) \in Nat /\ LeaseTimeout >= 1
      /\ cl.driver \in {"interactive", "wait_exit"}
  BY Counts, Times, SendBound, SMTT(30) DEF PairInv, PairTypeOK, ClientRecord
<1>2. CASE Pumping
  BY <1>1, <1>2 DEF PairInv, LeaseInv, Serving, Expired
<1>3. CASE cl.pc \in {"attach", "wait"}
  BY <1>1, <1>3 DEF PairInv, Phases, Serving, Expired
<1> QED
  BY <1>1, <1>2, <1>3 DEF Pumping

\* The first frame: a grant, a denial, or no shell.
LEMMA ServerFirstKeeps ==
    ASSUME PairInv, ServerFirst
    PROVE  PairInv'
<1> USE DEF PairInv
<1>1. /\ up' \in Wire /\ Queued(up') = Queued(up) - 1 /\ up'.closed = up.closed
      /\ Queued(up) > 0 /\ Queued(up) \in Nat /\ Queued(up') <= Queued(up)
  BY TakesUp DEF ServerFirst
<1>2. /\ sv.pc = "first" /\ cl' = cl /\ cl.pc \in {"wait", "done"} /\ down \in Wire
      /\ Queued(down) < 1 /\ Queued(down) \in Nat /\ Queued(up) < 2 /\ sv.exitAge = NotYet
      /\ sv.end = "none"
      /\ sv \in ServerRecord
      /\ RanC(ran) \in {0, 1}
      /\ sv.hold = 0
      /\ ~down.closed
      /\ cl.stall = 0
  <2>1. sv.pc = "first" /\ cl' = cl /\ down \in Wire /\ sv \in ServerRecord
    BY DEF ServerFirst, PairTypeOK
  <2>2. sv.hold \in Nat /\ cl.stall \in Nat /\ Queued(down) \in Nat /\ RanC(ran) \in {0, 1}
    BY Counts, Times
  <2> QED
    BY <1>1, <2>1, <2>2 DEF Phases
<1>3. CASE Head(up.frames) = "Open" /\ EndServer("Failed")
  BY <1>1, <1>2, <1>3, ServerEndKeeps DEF Ends
<1>4. CASE /\ down' = Sent(down, "Granted") /\ sv' = [sv EXCEPT !.pc = "run", !.age = 0]
           /\ ran' = [ran EXCEPT !.s = TRUE]
  <2>1. ran' \in Turns /\ RanS(ran') = 1 /\ RanC(ran') = RanC(ran)
    BY <1>4, TurnMade
  <2>2. down' \in Wire /\ Queued(down') = Queued(down) + 1 /\ down'.closed = down.closed
    BY <1>2, <1>4, WireSent DEF Frame
  <2>3. /\ sv' \in ServerRecord /\ sv'.pc = "run" /\ sv'.age = 0 /\ sv'.hold = sv.hold
        /\ sv'.end = sv.end /\ sv'.exitAge = sv.exitAge /\ sv'.backlog = sv.backlog
    BY <1>2, <1>4 DEF ServerRecord, Serving
  <2>4. PairTypeOK'
    BY <1>1, <1>2, <2>1, <2>2, <2>3 DEF PairTypeOK
  <2>5. Phases'
    BY <1>1, <1>2, <2>1, <2>2, <2>3, Times DEF Phases, Serving
  <2>6. LeaseInv' /\ ExitInv'
    BY <1>2, <2>3 DEF LeaseInv, ExitInv, Pumping
  <2> QED
    BY <2>4, <2>5, <2>6
<1>5. ASSUME NEW d \in {"Busy", "Gone"}, down' = [Sent(down, d) EXCEPT !.closed = TRUE],
             sv' = [sv EXCEPT !.pc = "done", !.end = "Denied"], ran' = [ran EXCEPT !.s = TRUE]
      PROVE  PairInv'
  <2>1. ran' \in Turns /\ RanS(ran') = 1 /\ RanC(ran') = RanC(ran)
    BY <1>5, TurnMade
  <2>2. down' \in Wire /\ Queued(down') = Queued(down) + 1
    <3>1. d \in Frame /\ down \in Wire
      BY <1>2 DEF Frame
    <3>2. Sent(down, d) \in Wire /\ Queued(Sent(down, d)) = Queued(down) + 1
      BY <3>1, WireSent
    <3> QED
      BY <1>5, <3>2, WireClosed
  <2>3. /\ sv' \in ServerRecord /\ sv'.pc = "done" /\ sv'.hold = sv.hold
        /\ sv'.end = "Denied" /\ sv'.exitAge = sv.exitAge /\ sv'.backlog = sv.backlog
    BY <1>2, <1>5 DEF ServerRecord, Serving, Ends
  <2>4. PairTypeOK'
    BY <1>1, <1>2, <2>1, <2>2, <2>3 DEF PairTypeOK
  <2>5. Phases'
    BY <1>1, <1>2, <2>1, <2>2, <2>3, Times DEF Phases, Serving
  <2>6. LeaseInv' /\ ExitInv'
    BY <1>2, <2>3 DEF LeaseInv, ExitInv, Pumping
  <2> QED
    BY <2>4, <2>5, <2>6
<1> QED
  BY <1>3, <1>4, <1>5 DEF ServerFirst

\* A step of the server that moves it and leaves the wires and the clocks alone.
LEMMA ServerMoves ==
    ASSUME PairInv, sv.pc \in Serving, NEW l \in {"run", "drain", "exit"},
           sv' = [sv EXCEPT !.pc = l], sv.pc # "hold",
           cl' = cl, up' = up, down' = down, ran' = ran
    PROVE  PairInv'
<1> USE DEF PairInv
<1>1. /\ sv' \in ServerRecord /\ sv'.pc = l /\ sv'.hold = sv.hold /\ sv'.age = sv.age
      /\ sv'.end = sv.end /\ sv'.exitAge = sv.exitAge /\ sv'.backlog = sv.backlog
  BY DEF PairTypeOK, ServerRecord, Serving
<1>2. PairTypeOK'
  BY <1>1 DEF PairTypeOK
<1>3. Phases'
  BY <1>1 DEF Phases, Serving
<1>4. LeaseInv'
  BY <1>1 DEF LeaseInv, Serving, Pumping
<1>5. ExitInv'
  BY <1>1 DEF ExitInv, Serving
<1> QED
  BY <1>2, <1>3, <1>4, <1>5

\* A turn of the server without a frame.
LEMMA ServerNoFrameKeeps ==
    ASSUME PairInv, ServerNoFrame
    PROVE  PairInv'
<1> USE DEF PairInv
<1>1. /\ sv.pc \in {"first", "run"} /\ Queued(up) < 1 /\ Queued(up) \in Nat /\ up \in Wire
      /\ cl' = cl /\ up' = up /\ sv \in ServerRecord
  BY Counts DEF ServerNoFrame, PairTypeOK
<1>2. CASE up.closed /\ EndServer("PeerClosed")
  BY <1>1, <1>2, ServerEndKeeps DEF Ends, Phases
<1>3. CASE /\ sv' = [sv EXCEPT !.pc = IF sv.pc = "first" THEN "first" ELSE "drain"]
           /\ ran' = [ran EXCEPT !.s = TRUE] /\ UNCHANGED down
  <2>1. ran' \in Turns /\ RanS(ran') = 1 /\ RanC(ran') = RanC(ran) /\ down' = down
    BY <1>3, TurnMade
  <2>2. /\ sv' \in ServerRecord /\ sv'.hold = sv.hold /\ sv'.age = sv.age
        /\ sv'.end = sv.end /\ sv'.exitAge = sv.exitAge /\ sv'.backlog = sv.backlog
        /\ sv'.pc = IF sv.pc = "first" THEN "first" ELSE "drain"
    BY <1>1, <1>3 DEF ServerRecord, Serving
  <2>3. PairTypeOK'
    BY <1>1, <2>1, <2>2 DEF PairTypeOK
  <2>4. Phases'
    BY <1>1, <2>1, <2>2 DEF Phases, Serving
  <2>5. LeaseInv'
    <3>1. UntilSend(cl', ran') = UntilSend(cl, ran)
      BY <1>1, <2>1 DEF UntilSend
    <3> QED
      BY <1>1, <2>1, <2>2, <3>1 DEF LeaseInv, Serving, Pumping
  <2>6. ExitInv'
    <3>1. UntilExit(cl', up', down', ran') = UntilExit(cl, up, down, ran)
      BY <1>1, <2>1, Times DEF UntilExit, UntilPoll, Blocked
    <3> QED
      BY <1>1, <2>1, <2>2, <3>1 DEF ExitInv
  <2> QED
    BY <2>3, <2>4, <2>5, <2>6
<1> QED
  BY <1>2, <1>3 DEF ServerNoFrame

\* A frame is taken and the lease renewed, since it has not expired.
LEMMA ServerRecvKeeps ==
    ASSUME PairInv, ServerRecv
    PROVE  PairInv'
<1> USE DEF PairInv
<1>1. /\ up' \in Wire /\ Queued(up') = Queued(up) - 1 /\ up'.closed = up.closed
      /\ Queued(up) > 0 /\ Queued(up) \in Nat /\ Queued(up') <= Queued(up)
  BY TakesUp DEF ServerRecv
<1>2. sv.pc = "run" /\ cl' = cl /\ sv \in ServerRecord /\ cl.pc \notin {"attach", "wait"}
  <2>1. sv.pc = "run" /\ cl' = cl /\ sv \in ServerRecord
    BY DEF ServerRecv, PairTypeOK
  <2> QED
    BY <1>1, <2>1 DEF Phases, Serving
<1>3. CASE Expired /\ EndServer("Fenced")
  <2>1. cl.driver = "wait_exit" \/ cl.pc = "done"
    BY <1>1, <1>2, <1>3, NotExpired
  <2> QED
    BY <1>1, <1>2, <1>3, <2>1, ServerEndKeeps DEF Ends
<1>4. ASSUME NEW n \in 0 .. (IF Head(up.frames) = "input" THEN MaxHold ELSE 0),
             NEW fails \in BOOLEAN,
             ~Expired \/ Head(up.frames) = "ping",
             Head(up.frames) = "input" /\ sv.exitAge # NotYet => fails /\ n = 0,
             sv' = [sv EXCEPT !.pc = IF n = 0 THEN "drain" ELSE "hold", !.hold = n,
                              !.ending = fails, !.age = IF Expired THEN @ ELSE 0],
             ran' = [ran EXCEPT !.s = TRUE], UNCHANGED down
      PROVE  PairInv'
  <2> DEFINE l == IF n = 0 THEN "drain" ELSE "hold"
             a == IF Expired THEN sv.age ELSE 0
  <2>1. ran' \in Turns /\ RanS(ran') = 1 /\ RanC(ran') = RanC(ran) /\ down' = down
    BY <1>4, TurnMade
  <2>2. /\ n \in Nat /\ n <= MaxHold /\ l \in {"drain", "hold"} /\ a \in Nat
        /\ n > 0 => sv.exitAge = NotYet /\ a = 0 /\ l = "hold"
        /\ l = "hold" => n > 0
        /\ ~Expired => a = 0
    BY <1>2, <1>4, Times DEF ServerRecord
  <2>3. /\ sv' \in ServerRecord /\ sv'.hold = n /\ sv'.age = a /\ sv'.pc = l
        /\ sv'.end = sv.end /\ sv'.exitAge = sv.exitAge /\ sv'.backlog = sv.backlog
    <3>1. sv' = [sv EXCEPT !.pc = l, !.hold = n, !.ending = fails, !.age = a]
      BY <1>4
    <3> HIDE DEF l, a
    <3> QED
      BY <1>2, <2>2, <3>1 DEF ServerRecord, Serving
  <2> HIDE DEF l, a
  <2>4. PairTypeOK'
    BY <1>1, <1>2, <2>1, <2>3 DEF PairTypeOK
  <2>5. Phases'
    BY <1>1, <1>2, <2>1, <2>2, <2>3, Times DEF Phases, Serving
  <2>6. LeaseInv'
    <3>1. UntilSend(cl', ran') \in Nat /\ UntilSend(cl', ran') <= PingInterval + Slack
      BY <2>4, SendBound DEF PairTypeOK
    <3>2. /\ LeaseTimeout \in Nat /\ PingInterval \in Nat /\ Slack \in Nat
          /\ LeaseTimeout >= PingInterval + Slack + 2
      BY Times
    <3>3. Pumping' => ~Expired
      BY <1>1, <1>2, NotExpired DEF Pumping
    <3> QED
      BY <1>1, <1>2, <2>1, <2>2, <2>3, <3>1, <3>2, <3>3 DEF LeaseInv, Phases
  <2>7. ExitInv'
    <3>1. UntilPoll(cl', up', ran') + 0 <= UntilPoll(cl, up, ran)
      <4>1. RanC(ran) \in {0, 1} /\ RanS(ran) \in {0, 1} /\ cl.stall \in Nat /\ Capacity \in Nat
        BY Counts, Times, SMTT(30)
      <4>2. Blocked(up', ran') = RanC(ran) /\ Blocked(up, ran) \in {RanC(ran), 1 + RanS(ran)}
        BY <1>1, <2>1, <4>1 DEF Blocked, Phases
      <4> QED
        BY <1>2, <2>1, <4>1, <4>2 DEF UntilPoll
    <3>2. Queued(down) > 0 =>
            /\ UntilExit(cl', up', down', ran') + 0 <= UntilExit(cl, up, down, ran)
            /\ UntilExit(cl', up', down', ran') \in Nat /\ UntilExit(cl, up, down, ran) \in Nat
      BY <2>1, <2>4, <3>1, Closer
    <3>3. sv.exitAge \in Nat /\ ExitGraceTime \in Nat
      BY Counts, Times
    <3> QED
      BY <1>2, <2>1, <2>2, <2>3, <3>2, <3>3 DEF ExitInv
  <2> QED
    BY <2>4, <2>5, <2>6, <2>7
<1> QED
  BY <1>3, <1>4 DEF ServerRecv

\* A write of input that was held up is done.
LEMMA ServerHeldKeeps ==
    ASSUME PairInv, ServerHeld
    PROVE  PairInv'
<1> USE DEF PairInv
<1>1. /\ sv.pc = "hold" /\ sv.hold = 0 /\ sv' = [sv EXCEPT !.pc = "drain"]
      /\ cl' = cl /\ up' = up /\ down' = down /\ ran' = ran /\ RanS(ran) = 0
      /\ sv.age \in Nat /\ sv.age <= MaxHold /\ sv.exitAge = NotYet
  <2>1. /\ sv.pc = "hold" /\ sv.hold = 0 /\ sv' = [sv EXCEPT !.pc = "drain"]
        /\ cl' = cl /\ up' = up /\ down' = down /\ ran' = ran
    BY DEF ServerHeld
  <2>2. sv.age \in Nat /\ MaxHold \in Nat
    BY Counts, Times
  <2> QED
    BY <2>1, <2>2 DEF Phases
<1>2. /\ sv' \in ServerRecord /\ sv'.pc = "drain" /\ sv'.hold = sv.hold /\ sv'.age = sv.age
      /\ sv'.end = sv.end /\ sv'.exitAge = sv.exitAge /\ sv'.backlog = sv.backlog
  BY <1>1 DEF PairTypeOK, ServerRecord, Serving
<1>3. PairTypeOK'
  BY <1>1, <1>2 DEF PairTypeOK
<1>4. Phases'
  BY <1>1, <1>2 DEF Phases, Serving
<1>5. LeaseInv'
  BY <1>1, <1>2, Times DEF LeaseInv, Serving, Pumping
<1>6. ExitInv'
  BY <1>1, <1>2 DEF ExitInv
<1> QED
  BY <1>3, <1>4, <1>5, <1>6

\* drain_pty.
LEMMA ServerDrainKeeps ==
    ASSUME PairInv, ServerDrain
    PROVE  PairInv'
<1> USE DEF PairInv
<1>1. /\ sv.pc = "drain" /\ cl' = cl /\ up' = up /\ up \in Wire /\ down \in Wire
      /\ sv \in ServerRecord /\ cl.pc # "attach" /\ Queued(up) \in Nat
  BY Counts DEF ServerDrain, PairTypeOK, Phases
<1>2. CASE sv' = [sv EXCEPT !.pc = "exit"] /\ down' = down /\ ran' = ran
  BY <1>1, <1>2, ServerMoves DEF Serving
<1>3. CASE EndServer("Failed")
  BY <1>1, <1>3, ServerEndKeeps DEF Ends
<1>4. CASE /\ Room(down) /\ ~down.closed /\ down' = Sent(down, "Output")
           /\ sv' = [sv EXCEPT !.pc = "exit"] /\ ran' = ran
  <2>1. /\ down' \in Wire /\ Queued(down') = Queued(down) + 1 /\ down'.closed = down.closed
        /\ Queued(down) \in Nat /\ Queued(down) < Capacity
    BY <1>1, <1>4, WireSent, Counts DEF Frame
  <2>2. /\ sv' \in ServerRecord /\ sv'.pc = "exit" /\ sv'.hold = sv.hold /\ sv'.age = sv.age
        /\ sv'.end = sv.end /\ sv'.exitAge = sv.exitAge /\ sv'.backlog = sv.backlog
    BY <1>1, <1>4 DEF ServerRecord, Serving
  <2>3. sv.exitAge = NotYet /\ sv.end = "none" /\ ran' = ran
    BY <1>1, <1>4 DEF Phases
  <2>4. PairTypeOK'
    BY <1>1, <2>1, <2>2, <2>3 DEF PairTypeOK
  <2>5. Phases'
    BY <1>1, <2>1, <2>2, <2>3, Times DEF Phases, Serving
  <2>6. LeaseInv'
    BY <1>1, <2>2, <2>3 DEF LeaseInv, Serving, Pumping
  <2>7. ExitInv'
    BY <1>1, <2>2, <2>3 DEF ExitInv
  <2> QED
    BY <2>4, <2>5, <2>6, <2>7
<1> QED
  BY <1>2, <1>3, <1>4 DEF ServerDrain

\* Exit is sent while there is room, hence with a grace that outlasts its turns.
LEMMA ServerExitKeeps ==
    ASSUME PairInv, ServerExit
    PROVE  PairInv'
<1> USE DEF PairInv
<1>1. /\ sv.pc = "exit" /\ cl' = cl /\ up' = up /\ up \in Wire /\ down \in Wire
      /\ sv \in ServerRecord /\ cl.pc # "attach" /\ Queued(up) \in Nat
  BY Counts DEF ServerExit, PairTypeOK, Phases
<1>2. CASE /\ sv.exitAge = NotYet /\ Room(down)
           /\ down' = [Sent(down, "Exit") EXCEPT !.closed = TRUE]
           /\ sv' = [sv EXCEPT !.pc = "run", !.exitAge = 0, !.backlog = Len(down.frames) + 1]
           /\ ran' = ran
  <2>1. /\ down' \in Wire /\ Queued(down') = Queued(down) + 1 /\ down'.closed
        /\ Final(down') = "Exit" /\ Queued(down) \in Nat /\ Queued(down) < Capacity
    <3>1. /\ Sent(down, "Exit") \in Wire /\ Queued(Sent(down, "Exit")) = Queued(down) + 1
          /\ Final(Sent(down, "Exit")) = "Exit"
      BY <1>1, WireSent DEF Frame
    <3>2. Queued(down) \in Nat /\ Queued(down) < Capacity
      BY <1>2, Counts
    <3> QED
      BY <1>2, <3>1, <3>2, WireClosed
  <2>2. /\ sv' \in ServerRecord /\ sv'.pc = "run" /\ sv'.hold = sv.hold /\ sv'.age = sv.age
        /\ sv'.end = sv.end /\ sv'.exitAge = 0 /\ sv'.backlog = Queued(down) + 1
        /\ ran' = ran
    <3> DEFINE n == Len(down.frames) + 1
    <3>1. n = Queued(down) + 1 /\ n \in Nat
      BY <2>1 DEF Queued
    <3> HIDE DEF n
    <3>2. sv' = [sv EXCEPT !.pc = "run", !.exitAge = 0, !.backlog = n] /\ ran' = ran
      BY <1>2 DEF n
    <3> QED
      BY <1>1, <3>1, <3>2 DEF ServerRecord, Serving
  <2>3. PairTypeOK'
    BY <1>1, <2>1, <2>2 DEF PairTypeOK
  <2>4. Phases'
    BY <1>1, <2>1, <2>2, Times DEF Phases, Serving
  <2>5. LeaseInv'
    BY <1>1, <2>2 DEF LeaseInv, Serving, Pumping
  <2>6. ExitInv'
    <3> DEFINE k == Queued(down)
               t == TurnTime
               p == UntilPoll(cl', up', ran')
    <3>1. p \in Nat /\ p <= t /\ t \in Nat /\ k \in Nat
      BY <2>1, <2>3, PollBound, Times DEF PairTypeOK
    <3>2. ((k + 1) - 1) * t + t = (k + 1) * t
      BY <3>1, Most
    <3>3. ((k + 1) - 1) * t \in Nat
      <4>1. k + 1 \in Nat /\ k + 1 >= 1
        BY <3>1
      <4> QED
        BY <3>1, <4>1, Fewer
    <3>4. UntilExit(cl', up', down', ran') = p + ((k + 1) - 1) * t
      BY <2>1 DEF UntilExit
    <3>5. /\ InTime(sv'.backlog) => (k + 1) * t < ExitGraceTime
          /\ ExitGraceTime \in Nat
      BY <2>2, Times DEF InTime
    <3> HIDE DEF k, t, p
    <3>6. InTime(sv'.backlog) =>
            0 + UntilExit(cl', up', down', ran') + 1 <= ExitGraceTime
      BY <3>1, <3>2, <3>3, <3>4, <3>5
    <3>7. Queued(down') > 0
      BY <2>1
    <3>8. sv.end = "none"
      BY <1>1 DEF Phases
    <3> QED
      BY <1>1, <2>1, <2>2, <3>6, <3>7, <3>8 DEF ExitInv
  <2> QED
    BY <2>3, <2>4, <2>5, <2>6
<1>3. CASE EndServer("Failed")
  BY <1>1, <1>3, ServerEndKeeps DEF Ends
<1>4. CASE sv.exitAge # NotYet /\ sv.exitAge >= ExitGraceTime /\ EndServer("ShellExited")
  <2>1. down' = [down EXCEPT !.closed = TRUE]
    BY <1>4 DEF EndServer
  <2>2. ASSUME cl.pc # "done"
        PROVE  /\ Queued(down') > 0 /\ Final(down') = "Exit"
               /\ ~InTime(sv.backlog)
    <3>1. Queued(down) > 0 /\ Final(down) = "Exit"
      BY <1>4, <2>2 DEF ExitInv
    <3>2. UntilExit(cl, up, down, ran) \in Nat
      <4>1. (Queued(down) - 1) * TurnTime \in Nat
        <5>1. Queued(down) \in Nat /\ Queued(down) >= 1 /\ TurnTime \in Nat
          BY <3>1, Counts, Times
        <5> QED
          BY <5>1, Fewer
      <4>2. UntilPoll(cl, up, ran) \in Nat
        BY PollBound DEF PairTypeOK
      <4> QED
        BY <4>1, <4>2 DEF UntilExit
    <3>3. InTime(sv.backlog) => sv.exitAge + UntilExit(cl, up, down, ran) + 1 <= ExitGraceTime
      BY <1>4, <2>2 DEF ExitInv
    <3>4. sv.exitAge \in Nat /\ ExitGraceTime \in Nat
      BY Counts, Times
    <3>5. ~InTime(sv.backlog)
      BY <1>4, <3>2, <3>3, <3>4
    <3> QED
      BY <1>1, <2>1, <3>1, <3>5, WireClosed
  <2> QED
    BY <1>1, <1>4, <2>2, ServerEndKeeps DEF Ends
<1>5. CASE Expired /\ EndServer("LeaseExpired")
  <2>1. cl.driver = "wait_exit" \/ cl.pc = "done"
    BY <1>1, <1>5, NotExpired
  <2> QED
    BY <1>1, <1>5, <2>1, ServerEndKeeps DEF Ends
<1>6. CASE sv' = [sv EXCEPT !.pc = "run"] /\ UNCHANGED <<down, ran>>
  BY <1>1, <1>6, ServerMoves DEF Serving
<1>7. CASE /\ Room(down) /\ down' = [Sent(down, "Exit") EXCEPT !.closed = TRUE]
           /\ sv' = Returned("Failed") /\ ran' = [ran EXCEPT !.s = TRUE]
  <2>1. down' \in Wire /\ Queued(down') = Queued(down) + 1
    <3>1. Sent(down, "Exit") \in Wire /\ Queued(Sent(down, "Exit")) = Queued(down) + 1
      BY <1>1, WireSent DEF Frame
    <3> QED
      BY <1>7, <3>1, WireClosed
  <2>2. Queued(down') <= Capacity
    <3>1. Queued(down) \in Nat /\ Capacity \in Nat /\ Queued(down) < Capacity
      BY <1>7, Counts, Times
    <3> QED
      BY <2>1, <3>1
  <2>3. sv' = Returned("Failed") /\ ran' = [ran EXCEPT !.s = TRUE]
    BY <1>7
  <2>4. "Failed" \in Ends \ {"none"} /\ sv.pc # "done" /\ Queued(up') <= Queued(up)
    BY <1>1 DEF Ends
  <2> QED
    BY <1>1, <2>1, <2>2, <2>3, <2>4, ThreadEndKeeps
<1>8. CASE NextTurn
  BY <1>3, <1>6, <1>8 DEF NextTurn
<1> QED
  BY ZenonT(40), <1>2, <1>3, <1>4, <1>5, <1>7, <1>8 DEF ServerExit

-----------------------------------------------------------------------------
\* What neither end does, and time.

\* The stdin thread, the window and the shell move neither end.
LEMMA OthersKeep ==
    ASSUME PairInv, ReaderReads \/ WindowChanges \/ ShellActs \/ UNCHANGED pairVars
    PROVE  PairInv'
<1>1. cl' = cl /\ sv' = sv /\ up' = up /\ down' = down /\ ran' = ran
  BY DEF ReaderReads, WindowChanges, ShellActs, pairVars
<1>2. PairTypeOK'
  BY <1>1 DEF PairInv, PairTypeOK
<1>3. Phases'
  BY <1>1 DEF PairInv, Phases
<1>4. LeaseInv'
  BY <1>1 DEF PairInv, LeaseInv, Pumping
<1>5. ExitInv'
  BY <1>1 DEF PairInv, ExitInv
<1> QED
  BY <1>2, <1>3, <1>4, <1>5 DEF PairInv

\* What a tick does to the client.
LEMMA TickClient ==
    ASSUME PairTypeOK, Tick
    PROVE  /\ cl' \in ClientRecord /\ cl'.pc = cl.pc /\ cl'.driver = cl.driver
           /\ cl'.result = cl.result
           /\ cl'.stall = IF cl.stall > 0 THEN cl.stall - 1 ELSE 0
           /\ cl.pc # "done" => cl'.sincePing =
                IF cl.sincePing < PingInterval THEN cl.sincePing + 1 ELSE cl.sincePing
<1> DEFINE z == IF cl.pc = "done" THEN cl.sincePing ELSE Later(cl.sincePing, PingInterval)
           e == Later(cl.sinceEof, DetachGrace)
           w == IF cl.pc \in {"wait", "waitExit"}
                THEN Later(cl.waited, ExitBudget + AttachTimeout) ELSE cl.waited
           p == Sooner(cl.patience)
           n == Sooner(cl.stall)
<1>1. /\ cl' = [cl EXCEPT !.sincePing = z, !.sinceEof = e, !.waited = w,
                          !.patience = p, !.stall = n]
      /\ cl \in ClientRecord
  BY DEF Tick, PairTypeOK
<1>2. /\ cl.sincePing \in 0 .. PingInterval /\ cl.sinceEof \in Nat /\ cl.waited \in Nat
      /\ cl.patience \in Nat /\ cl.stall \in 0 .. MaxStall
  BY <1>1 DEF ClientRecord
<1>3. z \in 0 .. PingInterval /\ e \in Nat /\ w \in Nat /\ p \in Nat /\ n \in 0 .. MaxStall
  BY <1>2, Times DEF Later, Sooner
<1>4. /\ n = IF cl.stall > 0 THEN cl.stall - 1 ELSE 0
      /\ cl.pc # "done" => z = IF cl.sincePing < PingInterval THEN cl.sincePing + 1
                               ELSE cl.sincePing
  BY DEF Later, Sooner
<1> HIDE DEF z, e, w, p, n
<1>5. /\ cl' \in ClientRecord /\ cl'.pc = cl.pc /\ cl'.driver = cl.driver
      /\ cl'.result = cl.result /\ cl'.stall = n /\ cl'.sincePing = z
  BY <1>1, <1>3 DEF ClientRecord
<1> QED
  BY <1>4, <1>5

\* What a tick does to the server.
LEMMA TickServer ==
    ASSUME PairTypeOK, Tick
    PROVE  /\ sv' \in ServerRecord /\ sv'.pc = sv.pc /\ sv'.end = sv.end
           /\ sv'.backlog = sv.backlog
           /\ sv'.hold = IF sv.hold > 0 THEN sv.hold - 1 ELSE 0
           /\ sv'.age \in {sv.age, sv.age + 1}
           /\ sv'.exitAge = IF sv.exitAge < ExitGraceTime THEN sv.exitAge + 1 ELSE sv.exitAge
<1> DEFINE a == IF sv.pc \in {"first", "done"} THEN sv.age ELSE Later(sv.age, LeaseTimeout + 1)
           x == Later(sv.exitAge, ExitGraceTime)
           n == Sooner(sv.hold)
<1>1. sv' = [sv EXCEPT !.age = a, !.exitAge = x, !.hold = n] /\ sv \in ServerRecord
  BY DEF Tick, PairTypeOK
<1>2. sv.age \in Nat /\ sv.exitAge \in Nat /\ sv.hold \in Nat
  BY <1>1 DEF ServerRecord
<1>3. a \in Nat /\ x \in Nat /\ n \in Nat /\ a \in {sv.age, sv.age + 1}
  BY <1>2, Times DEF Later, Sooner
<1>4. /\ n = IF sv.hold > 0 THEN sv.hold - 1 ELSE 0
      /\ x = IF sv.exitAge < ExitGraceTime THEN sv.exitAge + 1 ELSE sv.exitAge
  BY DEF Later, Sooner
<1> HIDE DEF a, x, n
<1>5. /\ sv' \in ServerRecord /\ sv'.pc = sv.pc /\ sv'.end = sv.end
      /\ sv'.backlog = sv.backlog
      /\ sv'.hold = n /\ sv'.age = a /\ sv'.exitAge = x
  BY <1>1, <1>3 DEF ServerRecord
<1> QED
  BY <1>3, <1>4, <1>5

\* What lets time pass: each end has made its turn or is held up or is gone.
LEMMA TickFacts ==
    ASSUME PairInv, Tick
    PROVE  /\ PairTypeOK' /\ up' = up /\ down' = down
           /\ RanC(ran') = 0 /\ RanS(ran') = 0
           /\ RanC(ran) = 1 \/ cl.pc = "done" \/ cl.stall > 0
           /\ RanS(ran) = 1 \/ sv.pc = "done" \/ sv.hold > 0
           /\ sv'.exitAge = NotYet <=> sv.exitAge = NotYet
<1>1. ran' = [c |-> FALSE, s |-> FALSE] /\ up' = up /\ down' = down
  BY DEF Tick
<1>2. ran' \in Turns /\ RanC(ran') = 0 /\ RanS(ran') = 0
  BY <1>1 DEF Turns, RanC, RanS
<1>3. PairTypeOK'
  BY <1>1, <1>2, TickClient, TickServer DEF PairInv, PairTypeOK
<1>4. /\ RanC(ran) = 1 \/ cl.pc = "done" \/ cl.stall > 0
      /\ RanS(ran) = 1 \/ sv.pc = "done" \/ sv.hold > 0
  BY DEF Tick, RanC, RanS
<1>5. sv'.exitAge = NotYet <=> sv.exitAge = NotYet
  <2>1. sv'.exitAge = IF sv.exitAge < ExitGraceTime THEN sv.exitAge + 1 ELSE sv.exitAge
    BY TickServer DEF PairInv
  <2>2. sv.exitAge \in Nat /\ NotYet \in Nat /\ ExitGraceTime \in Nat /\ NotYet > ExitGraceTime
    BY Counts, Times DEF PairInv
  <2> QED
    BY <2>1, <2>2
<1> QED
  BY <1>1, <1>2, <1>3, <1>4, <1>5

\* A client that is there has made its turn, or its stdout holds it up.
LEMMA TickTurns ==
    ASSUME PairInv, Tick, cl.pc # "done"
    PROVE  /\ cl.pc = "stdout" => cl.stall > 0
           /\ cl.pc # "stdout" => RanC(ran) = 1
           /\ RanC(ran') = 0 /\ RanS(ran') = 0
<1>1. RanC(ran') = 0 /\ RanS(ran') = 0 /\ (RanC(ran) = 1 \/ cl.stall > 0)
  BY TickFacts
<1>2. /\ cl.stall > 0 => cl.pc = "stdout"
      /\ cl.pc = "stdout" /\ cl.stall = 0 => RanC(ran) = 0
  BY DEF PairInv, Phases
<1>3. cl.stall \in 0 .. MaxStall /\ MaxStall \in Nat
  BY Counts, Times DEF PairInv
<1> QED
  BY <1>1, <1>2, <1>3

\* A tick brings a pumping client one tick closer to its next frame.
LEMMA TickSends ==
    ASSUME PairInv, Tick, cl.pc # "done"
    PROVE  /\ UntilSend(cl', ran') + 1 <= UntilSend(cl, ran)
           /\ UntilSend(cl', ran') \in Nat /\ UntilSend(cl, ran) \in Nat
<1> USE DEF PairInv
<1>1. UntilSend(cl', ran') \in Nat /\ UntilSend(cl, ran) \in Nat
  BY TickFacts, SendBound DEF PairTypeOK
<1>2. /\ cl'.pc = cl.pc /\ cl'.stall = IF cl.stall > 0 THEN cl.stall - 1 ELSE 0
      /\ cl'.sincePing = IF cl.sincePing < PingInterval THEN cl.sincePing + 1 ELSE cl.sincePing
  BY TickClient
<1>3. /\ cl.pc = "stdout" => cl.stall > 0
      /\ cl.pc # "stdout" => RanC(ran) = 1
      /\ RanC(ran') = 0
  BY TickTurns
<1>4. /\ cl.stall \in 0 .. MaxStall /\ MaxStall \in Nat /\ Slack \in Nat /\ Slack >= MaxStall
      /\ cl.sincePing \in 0 .. PingInterval /\ PingInterval \in Nat
  BY Counts, Times
<1>5. CASE cl.sincePing < PingInterval
  <2>1. UntilSend(cl, ran) = PingInterval - cl.sincePing + Slack
    BY <1>5 DEF UntilSend
  <2>2. CASE cl.sincePing + 1 < PingInterval
    <3>1. UntilSend(cl', ran') = PingInterval - (cl.sincePing + 1) + Slack
      BY <1>2, <1>5, <2>2 DEF UntilSend
    <3> QED
      BY <1>1, <1>4, <2>1, <3>1
  <2>3. CASE ~(cl.sincePing + 1 < PingInterval)
    <3>1. UntilSend(cl', ran') \in {cl'.stall, RanC(ran'), Slack + RanC(ran')}
      BY <1>2, <1>5, <2>3 DEF UntilSend
    <3>2. cl'.stall \in Nat /\ cl'.stall <= Slack
      BY <1>2, <1>4
    <3>3. PingInterval - cl.sincePing = 1
      BY <1>4, <1>5, <2>3
    <3> QED
      BY <1>1, <1>3, <1>4, <2>1, <3>1, <3>2, <3>3
  <2> QED
    BY <2>2, <2>3
<1>6. CASE ~(cl.sincePing < PingInterval)
  <2>1. cl'.sincePing = cl.sincePing
    BY <1>2, <1>6
  <2>2. CASE cl.pc = "stdout"
    BY <1>2, <1>3, <1>4, <1>6, <2>1, <2>2 DEF UntilSend
  <2>3. CASE cl.pc # "stdout"
    BY <1>2, <1>3, <1>4, <1>6, <2>1, <2>3 DEF UntilSend
  <2> QED
    BY <2>2, <2>3
<1> QED
  BY <1>1, <1>5, <1>6

\* In the exit grace a tick brings the client one tick closer to its next read.
LEMMA TickReads ==
    ASSUME PairInv, Tick, cl.pc # "done", sv.exitAge # NotYet
    PROVE  UntilPoll(cl', up', ran') + 1 <= UntilPoll(cl, up, ran)
<1> USE DEF PairInv
<1>1. /\ cl'.pc = cl.pc /\ cl'.stall = IF cl.stall > 0 THEN cl.stall - 1 ELSE 0
  BY TickClient
<1>2. /\ cl.pc = "stdout" => cl.stall > 0
      /\ cl.pc # "stdout" => RanC(ran) = 1
      /\ RanC(ran') = 0 /\ RanS(ran') = 0
  BY TickTurns
<1>3. RanS(ran) = 1
  <2>1. sv.pc # "hold" /\ sv.pc # "done"
    BY DEF Phases
  <2>2. ~(sv.hold > 0)
    BY <2>1 DEF Phases
  <2> QED
    BY <2>1, <2>2, TickFacts
<1>4. up' = up /\ cl.stall \in 0 .. MaxStall /\ MaxStall \in Nat
  BY TickFacts, Counts, Times
<1>5. CASE cl.pc = "stdout"
  BY <1>1, <1>2, <1>4, <1>5 DEF UntilPoll
<1>6. CASE cl.pc # "stdout"
  <2>1. /\ Blocked(up, ran) \in {1, 2} /\ Blocked(up', ran') \in {0, 1}
        /\ Blocked(up', ran') + 1 = Blocked(up, ran)
    BY <1>2, <1>3, <1>4, <1>6 DEF Blocked
  <2> QED
    BY <1>1, <1>2, <1>6, <2>1 DEF UntilPoll
<1> QED
  BY <1>5, <1>6

\* Time passes.
LEMMA TickKeeps ==
    ASSUME PairInv, Tick
    PROVE  PairInv'
<1> USE DEF PairInv
<1>1. /\ PairTypeOK' /\ up' = up /\ down' = down
      /\ RanC(ran') = 0 /\ RanS(ran') = 0
      /\ RanC(ran) = 1 \/ cl.pc = "done" \/ cl.stall > 0
      /\ RanS(ran) = 1 \/ sv.pc = "done" \/ sv.hold > 0
      /\ sv'.exitAge = NotYet <=> sv.exitAge = NotYet
  BY TickFacts
<1>2. /\ cl'.pc = cl.pc /\ cl'.driver = cl.driver /\ cl'.result = cl.result
      /\ cl'.stall = IF cl.stall > 0 THEN cl.stall - 1 ELSE 0
  BY TickClient
<1>3. /\ sv'.pc = sv.pc /\ sv'.end = sv.end /\ sv'.backlog = sv.backlog
      /\ sv'.hold = IF sv.hold > 0 THEN sv.hold - 1 ELSE 0
      /\ sv'.age \in {sv.age, sv.age + 1}
      /\ sv'.exitAge = IF sv.exitAge < ExitGraceTime THEN sv.exitAge + 1 ELSE sv.exitAge
  BY TickServer
<1>4. /\ cl.stall \in 0 .. MaxStall /\ MaxStall \in Nat /\ sv.hold \in Nat /\ sv.age \in Nat
      /\ RanC(ran) \in {0, 1} /\ RanS(ran) \in {0, 1} /\ MaxHold \in Nat
      /\ LeaseTimeout \in Nat /\ ExitGraceTime \in Nat /\ sv.exitAge \in Nat
  BY Counts, Times
<1>5. Phases'
  <2>1. cl.pc = "wait" /\ sv.pc \in Serving => sv'.age + 0 <= 1
    <3>1. SUFFICES ASSUME cl.pc = "wait", sv.pc \in Serving PROVE sv'.age + 0 <= 1
      OBVIOUS
    <3>2. sv.age + RanC(ran) <= 1 /\ ~(cl.stall > 0)
      BY <3>1 DEF Phases
    <3> QED
      BY <1>1, <1>3, <1>4, <3>1, <3>2
  <2>2. sv.pc = "hold" => sv'.age + sv'.hold <= MaxHold
    <3>1. SUFFICES ASSUME sv.pc = "hold" PROVE sv'.age + sv'.hold <= MaxHold
      OBVIOUS
    <3>2. sv.age + sv.hold <= MaxHold /\ (sv.hold = 0 => RanS(ran) = 0)
      BY <3>1 DEF Phases
    <3> QED
      BY <1>1, <1>3, <1>4, <3>1, <3>2
  <2>3. (cl'.stall > 0 => cl.pc = "stdout") /\ (sv'.hold > 0 => sv.pc = "hold")
    BY <1>2, <1>3, <1>4 DEF Phases
  <2> QED
    BY <1>1, <1>2, <1>3, <2>1, <2>2, <2>3 DEF Phases
<1>6. LeaseInv'
  <2>1. ASSUME Pumping, sv.pc \in Serving, Queued(up) < 1
        PROVE  sv'.age + UntilSend(cl', ran') + 1 <= LeaseTimeout
    <3>1. sv.age + UntilSend(cl, ran) + 1 <= LeaseTimeout
      BY <2>1 DEF LeaseInv
    <3>2. /\ UntilSend(cl', ran') + 1 <= UntilSend(cl, ran)
          /\ UntilSend(cl', ran') \in Nat /\ UntilSend(cl, ran) \in Nat
      BY <2>1, TickSends DEF Pumping
    <3> QED
      BY <1>3, <1>4, <3>1, <3>2
  <2>2. ASSUME Pumping, sv.pc \in Serving, Queued(up) > 0, sv.pc # "hold"
        PROVE  sv'.age + 0 <= LeaseTimeout
    <3>1. sv.age + RanS(ran) <= LeaseTimeout
      BY <2>2 DEF LeaseInv
    <3>2. ~(sv.hold > 0) /\ sv.pc # "done"
      BY <2>2 DEF Phases, Serving
    <3> QED
      BY <1>1, <1>3, <1>4, <3>1, <3>2
  <2>3. Pumping' = Pumping
    BY <1>2 DEF Pumping
  <2> QED
    BY <1>1, <1>2, <1>3, <2>1, <2>2, <2>3 DEF LeaseInv
<1>7. ExitInv'
  <2>1. ASSUME sv.exitAge # NotYet, cl.pc # "done", InTime(sv.backlog)
        PROVE  sv'.exitAge + UntilExit(cl', up', down', ran') + 1 <= ExitGraceTime
    <3>1. Queued(down) > 0 /\ sv.exitAge + UntilExit(cl, up, down, ran) + 1 <= ExitGraceTime
      BY <2>1 DEF ExitInv
    <3>2. /\ UntilExit(cl', up', down', ran') + 1 <= UntilExit(cl, up, down, ran)
          /\ UntilExit(cl', up', down', ran') \in Nat /\ UntilExit(cl, up, down, ran) \in Nat
      <4>1. UntilPoll(cl', up', ran') + 1 <= UntilPoll(cl, up, ran)
        BY <2>1, TickReads
      <4>2. Queued(down') = Queued(down)
        BY <1>1
      <4> QED
        BY <1>1, <3>1, <4>1, <4>2, Closer
    <3>3. sv'.exitAge \in {sv.exitAge, sv.exitAge + 1}
      BY <1>3
    <3> QED
      BY <1>4, <3>1, <3>2, <3>3
  <2> QED
    BY <1>1, <1>2, <1>3, <2>1 DEF ExitInv
<1> QED
  BY <1>1, <1>5, <1>6, <1>7

\* Every step keeps the invariant.
LEMMA PairKeeps ==
    ASSUME PairInv, [PairNext]_pairVars
    PROVE  PairInv'
<1>1. CASE ClientStep
  BY <1>1, AttachSendKeeps, AttachGrantedKeeps, AttachRefusedKeeps, AttachWaitsKeeps,
     DetachKeeps, PingDueKeeps, TakeStdinKeeps, ProbeWindowKeeps, SendDoneKeeps,
     SendBlocksKeeps, SendErrorKeeps, PollOutputKeeps, StdoutWrittenKeeps, PollExitKeeps,
     PollEmptyKeeps, WaitExitKeeps, DirectInputKeeps
     DEF ClientStep
<1>2. CASE ServerStep
  BY <1>2, ServerFirstKeeps, ServerNoFrameKeeps, ServerRecvKeeps, ServerHeldKeeps,
     ServerDrainKeeps, ServerExitKeeps
     DEF ServerStep
<1>3. CASE ReaderReads \/ WindowChanges \/ ShellActs \/ UNCHANGED pairVars
  BY <1>3, OthersKeep
<1>4. CASE Tick
  BY <1>4, TickKeeps
<1> QED
  BY <1>1, <1>2, <1>3, <1>4 DEF PairNext

\* The bounds on how long either end takes hold in every state of the client's
\* pump and the server's loop, whatever frames are on the way between them, for
\* every setting of the times that meets ClientAssumption.
THEOREM PairInvariance == PairSpec => []PairInv
<1>1. PairInit => PairInv
  BY InitEstablishes
<1>2. PairInv /\ [PairNext]_pairVars => PairInv'
  BY PairKeeps
<1> QED
  BY <1>1, <1>2, PTL DEF PairSpec

\* While the pump of client.rs runs, drive (server.rs) neither evicts the client
\* for an expired lease nor fences its input off: the pings keep the lease.
THEOREM LeaseIsKept == PairSpec => []LeaseKept
<1>1. PairInv => LeaseKept
  BY DEF PairInv, LeaseInv, LeaseKept, Pumping
<1> QED
  BY <1>1, PairInvariance, PTL

\* A connection that drive (server.rs) ends after its exit grace: Exit is there to
\* be read before the end of the stream, whatever the grace; and the client has read
\* it before the end, if the grace was in time for what was in the connection when
\* Exit was sent.  Nothing is assumed of the grace but that there is one.
THEOREM ExitIsNotLost == PairSpec => []ExitNotLost
<1>1. PairInv => ExitNotLost
  BY DEF PairInv, ExitInv, ExitNotLost
<1> QED
  BY <1>1, PairInvariance, PTL
=============================================================================

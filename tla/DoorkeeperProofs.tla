-------------------------- MODULE DoorkeeperProofs --------------------------
(***************************************************************************)
(* Proofs about the doorkeeper, for every number of connections, every     *)
(* limit and any number of chunks.                                         *)
(*                                                                         *)
(* The inductive invariant has three parts: the counter is the number of   *)
(* counted threads (LimitHeld), where a connection's three threads can be  *)
(* together (Placed), and what each place of a pipe thread says about the  *)
(* sockets and first_err (Explained).                                      *)
(***************************************************************************)
EXTENDS Doorkeeper, FiniteSetTheorems, TLAPS

\* Where a pipe thread that was started may be.
Steps == {"read", "write", "held", "readErr", "writeErr", "close", "done"}

\* Nothing has been done with the connection's sockets.
Fresh(c) ==
    /\ firstErr[c] = "none"
    /\ \A e \in Side : pipe[c][e] = "off" /\ ~shut[c][e]

Early == {"none", "refused", "spawn", "setup", "warn", "connect", "clone", "pipe1"}

\* Which pipe threads run follows from where the connection's thread is.
Placed(c) ==
    /\ handler[c] \in Early => Fresh(c)
    /\ handler[c] \in {"pipe2", "panicked"} => pipe[c]["upstream"] = "off"
    /\ handler[c] = "guard" => \A e \in Side : pipe[c][e] \in {"off", "done"}
    /\ reason[c] = "normal" =>
          /\ handler[c] = "guard" /\ firstErr[c] = "none"
          /\ \A e \in Side : pipe[c][e] = "done"

\* Why the thread that reads from e is where it is.
Explained(c, e) ==
    /\ written[c][e] <= sent[c][e]
    /\ shut[c][e] => firstErr[c] # "none"
    /\ pipe[c][e] \in {"write", "held"} => written[c][e] < sent[c][e]
    /\ pipe[c][e] = "readErr" => rst[c][e]
    /\ pipe[c][e] = "writeErr" => rst[c][WriteSide(e)] \/ firstErr[c] # "none"
    /\ pipe[c][e] = "close" => firstErr[c] # "none"
    /\ pipe[c][e] = "done" => \/ fin[c][e] /\ written[c][e] = sent[c][e]
                              \/ firstErr[c] # "none"
                              \/ pipe[c][WriteSide(e)] = "writeErr"

\* What holds of one connection.
Local(c) ==
    /\ Placed(c)
    /\ firstErr[c] # "none" => rst[c][firstErr[c]]
    /\ \A e \in Side : Explained(c, e)

IInv == LimitHeld /\ \A c \in Conn : Local(c)

Served == {c \in Conn : Counted(c)}

\* A step of one connection leaves every other one alone.
Apart(c) ==
    \A d \in Conn : d # c =>
        /\ handler'[d] = handler[d] /\ reason'[d] = reason[d]
        /\ pipe'[d] = pipe[d] /\ firstErr'[d] = firstErr[d]
        /\ sent'[d] = sent[d] /\ written'[d] = written[d]
        /\ fin'[d] = fin[d] /\ rst'[d] = rst[d] /\ shut'[d] = shut[d]

LEMMA Sides ==
    /\ \A e \in Side : WriteSide(e) \in Side /\ WriteSide(e) # e
    /\ \A e, x \in Side : x = e \/ x = WriteSide(e)
    /\ \A e \in Side : WriteSide(WriteSide(e)) = e
  BY DEF Side, WriteSide

\* The invariant of the connections a step does not touch is kept.
LEMMA OthersKeep ==
    ASSUME IInv, NEW c \in Conn, Apart(c)
    PROVE  \A d \in Conn : d # c => Local(d)'
  BY DEF Apart, IInv, Local, Placed, Explained, Fresh, Early

-----------------------------------------------------------------------------
(* The counter.                                                            *)

LEMMA ServedFinite == IsFiniteSet(Served) /\ IsFiniteSet(Served')
  BY DoorkeeperAssumption, FS_Subset DEF Served

\* A thread that starts to count raises the number of served connections by
\* one, one that ceases to count lowers it by one.
LEMMA Counting ==
    ASSUME TypeOK, NEW c \in Conn, Apart(c), handler' \in [Conn -> HandlerStep]
    PROVE  /\ (Counted(c)' <=> Counted(c)) => Cardinality(Served') = Cardinality(Served)
           /\ Counted(c)' /\ ~Counted(c) => Cardinality(Served') = Cardinality(Served) + 1
           /\ ~Counted(c)' /\ Counted(c) => Cardinality(Served') = Cardinality(Served) - 1
<1>1. \A d \in Conn : d # c => (Counted(d)' <=> Counted(d))
  BY DEF Apart, Counted
<1>2. ASSUME Counted(c)' <=> Counted(c)
      PROVE  Served' = Served
  BY <1>1, <1>2 DEF Served
<1>3. ASSUME Counted(c)', ~Counted(c)
      PROVE  Cardinality(Served') = Cardinality(Served) + 1
  <2>1. Served' = Served \cup {c} /\ c \notin Served
    BY <1>1, <1>3 DEF Served
  <2> QED
    BY <2>1, ServedFinite, FS_AddElement
<1>4. ASSUME ~Counted(c)', Counted(c)
      PROVE  Cardinality(Served') = Cardinality(Served) - 1
  <2>1. Served' = Served \ {c} /\ c \in Served
    BY <1>1, <1>4 DEF Served
  <2> QED
    BY <2>1, ServedFinite, FS_RemoveElement
<1> QED
  BY <1>2, <1>3, <1>4

\* The counter stays right when it moves with the thread of one connection.
LEMMA LimitKept ==
    ASSUME LimitHeld, NEW c \in Conn, Apart(c), TypeOK',
           \/ (Counted(c)' <=> Counted(c)) /\ conns' = conns
           \/ ~Counted(c) /\ Counted(c)' /\ conns' = conns + 1 /\ conns < MaxConns
           \/ Counted(c) /\ ~Counted(c)' /\ conns' = conns - 1
    PROVE  LimitHeld'
<1>1. TypeOK /\ conns \in Nat /\ conns = Cardinality(Served) /\ conns <= MaxConns
  BY DEF LimitHeld, TypeOK, Served
<1>2. handler' \in [Conn -> HandlerStep]
  BY DEF TypeOK, PipeStep
<1>3. conns' = Cardinality(Served')
  BY <1>1, <1>2, Counting
<1>4. conns' <= MaxConns
  BY <1>1, DoorkeeperAssumption
<1> QED
  BY <1>3, <1>4 DEF LimitHeld, Served


-----------------------------------------------------------------------------
(* The steps: each one keeps the types, touches one connection and keeps   *)
(* what holds of it.                                                       *)

Kept(c) == TypeOK' /\ Apart(c) /\ Local(c)'

LEMMA TypesOf ==
    ASSUME TypeOK
    PROVE  /\ handler \in [Conn -> HandlerStep]
           /\ pipe \in [Conn -> [Side -> PipeStep]]
           /\ conns \in Nat
           /\ sent \in [Conn -> [Side -> 0 .. MaxChunks]]
           /\ written \in [Conn -> [Side -> 0 .. MaxChunks]]
           /\ fin \in [Conn -> [Side -> BOOLEAN]]
           /\ rst \in [Conn -> [Side -> BOOLEAN]]
           /\ shut \in [Conn -> [Side -> BOOLEAN]]
           /\ firstErr \in [Conn -> Side \cup {"none"}]
           /\ reason \in [Conn -> {"open", "over_limit", "client_reset",
                            "upstream_reset", "warn_write_timeout",
                            "upstream_unavailable", "normal"}]
  BY DEF TypeOK, PipeStep

LEMMA ForgetKeeps ==
    ASSUME IInv, NEW c \in Conn, Forget(c), conns' \in Nat
    PROVE  Kept(c) /\ ~Counted(c)'
<1>1. TypeOK
  BY DEF IInv, LimitHeld
<1>2. 0 \in 0 .. MaxChunks
  BY DoorkeeperAssumption
<1>3. handler' \in [Conn -> HandlerStep] /\ handler'[c] = "none"
  BY <1>1, TypesOf DEF Forget, Goto, HandlerStep
<1>4. TypeOK'
  BY <1>1, <1>2, <1>3, TypesOf DEF TypeOK, PipeStep, Forget
<1>5. Apart(c)
  BY <1>1, TypesOf DEF Apart, Forget, Goto
<1>6. /\ firstErr'[c] = "none" /\ reason'[c] = "open"
      /\ \A e \in Side : /\ pipe'[c][e] = "off" /\ ~shut'[c][e]
                         /\ sent'[c][e] = 0 /\ written'[c][e] = 0
  BY <1>1, TypesOf DEF Forget
<1>7. Local(c)'
  BY <1>3, <1>6 DEF Local, Placed, Fresh, Early, Explained, Side
<1> QED
  BY <1>3, <1>4, <1>5, <1>7 DEF Kept, Counted

\* A step of the connection's own thread that touches no socket.
LEMMA MoveKeeps ==
    ASSUME IInv, NEW c \in Conn, NEW l \in HandlerStep, Goto(c, l), UNCHANGED data,
           conns' \in Nat,
           \/ reason' = reason
           \/ \E why \in {"over_limit", "client_reset", "upstream_reset",
                          "warn_write_timeout", "upstream_unavailable"} :
                 reason' = [reason EXCEPT ![c] = why],
           handler[c] \in Early,
           l \in Early \cup {"guard"}
    PROVE  Kept(c) /\ handler'[c] = l
<1>1. TypeOK /\ Local(c)
  BY DEF IInv, LimitHeld
<1>2. handler' \in [Conn -> HandlerStep] /\ handler'[c] = l
  BY <1>1, TypesOf DEF Goto
<1>3. /\ pipe' = pipe /\ written' = written /\ shut' = shut /\ firstErr' = firstErr
      /\ sent' = sent /\ fin' = fin /\ rst' = rst
  BY DEF data, ends
<1>4. reason' \in [Conn -> {"open", "over_limit", "client_reset", "upstream_reset",
                            "warn_write_timeout", "upstream_unavailable", "normal"}]
  BY <1>1, TypesOf
<1>5. TypeOK'
  BY <1>1, <1>2, <1>3, <1>4, TypesOf DEF TypeOK, PipeStep
<1>6. Apart(c)
  BY <1>1, <1>3, TypesOf DEF Apart, Goto
<1>7. Fresh(c) /\ reason[c] # "normal"
  BY <1>1 DEF Local, Placed, Early
<1>8. reason'[c] # "normal"
  BY <1>1, <1>7, TypesOf
<1>9. Placed(c)'
  BY <1>2, <1>3, <1>7, <1>8 DEF Placed, Fresh, Early
<1>10. \A e \in Side : Explained(c, e)'
  BY <1>1, <1>3 DEF Local, Explained
<1> QED
  BY <1>1, <1>2, <1>3, <1>5, <1>6, <1>9, <1>10 DEF Kept, Local

LEMMA JoinKeeps ==
    ASSUME IInv, NEW c \in Conn, Join(c)
    PROVE  Kept(c) /\ (Counted(c)' <=> Counted(c)) /\ conns' = conns
<1>1. TypeOK /\ Local(c)
  BY DEF IInv, LimitHeld
<1>2. handler' = [handler EXCEPT ![c] = "guard"] /\ handler[c] = "join"
  BY DEF Join, Closing, Goto
<1>3. handler' \in [Conn -> HandlerStep] /\ handler'[c] = "guard"
  BY <1>1, <1>2, TypesOf DEF HandlerStep
<1>4. /\ pipe' = pipe /\ written' = written /\ shut' = shut /\ firstErr' = firstErr
      /\ sent' = sent /\ fin' = fin /\ rst' = rst /\ conns' = conns
  BY DEF Join, data, ends
<1>5. PICK why : reason' = [reason EXCEPT ![c] = why]
                 /\ why \in {"client_reset", "upstream_reset", "normal"}
                 /\ (why = "normal" => firstErr[c] = "none")
  <2> DEFINE w == CASE firstErr[c] = "client"   -> "client_reset"
                    [] firstErr[c] = "upstream" -> "upstream_reset"
                    [] OTHER                    -> "normal"
  <2>0. reason' = [reason EXCEPT ![c] = w]
    BY DEF Join, Closing
  <2>1. CASE firstErr[c] = "client"
    <3>1. w = "client_reset"
      BY <2>1
    <3> QED
      BY <2>0, <3>1
  <2>2. CASE firstErr[c] = "upstream"
    <3>1. w = "upstream_reset"
      BY <2>2
    <3> QED
      BY <2>0, <3>1
  <2>3. CASE firstErr[c] = "none"
    <3>1. w = "normal"
      BY <2>3
    <3> QED
      BY <2>0, <2>3, <3>1
  <2> QED
    BY <1>1, <2>1, <2>2, <2>3, TypesOf DEF Side
<1>6. TypeOK'
  <2>1. reason' \in [Conn -> {"open", "over_limit", "client_reset", "upstream_reset",
                            "warn_write_timeout", "upstream_unavailable", "normal"}]
    BY <1>1, <1>5, TypesOf
  <2> QED
    BY <1>1, <1>3, <1>4, <2>1, TypesOf DEF TypeOK, PipeStep
<1>7. Apart(c)
  BY <1>1, <1>2, <1>4, <1>5, TypesOf DEF Apart
<1>8. reason'[c] = why
  BY <1>1, <1>5, TypesOf
<1>9. \A e \in Side : pipe[c][e] = "done"
  BY DEF Join
<1>10. Placed(c)'
  BY <1>3, <1>4, <1>5, <1>8, <1>9 DEF Placed, Early
<1>11. \A e \in Side : Explained(c, e)'
  BY <1>1, <1>4 DEF Local, Explained
<1> QED
  BY <1>1, <1>2, <1>3, <1>4, <1>6, <1>7, <1>10, <1>11 DEF Kept, Local, Counted

LEMMA SpawnPipeKeeps ==
    ASSUME IInv, NEW c \in Conn, NEW e \in Side, SpawnPipe(c, e)
    PROVE  Kept(c) /\ (Counted(c)' <=> Counted(c)) /\ conns' = conns
<1>1. TypeOK /\ Local(c)
  BY DEF IInv, LimitHeld
<1>2. /\ pipe' = [pipe EXCEPT ![c][e] = "read"]
      /\ written' = written /\ shut' = shut /\ firstErr' = firstErr
      /\ sent' = sent /\ fin' = fin /\ rst' = rst /\ conns' = conns /\ reason' = reason
  BY DEF SpawnPipe, ends
<1>3. \/ /\ e = "client" /\ handler[c] = "pipe1"
         /\ handler' = [handler EXCEPT ![c] = "pipe2"]
      \/ /\ e = "upstream" /\ handler[c] = "pipe2"
         /\ handler' = [handler EXCEPT ![c] = "join"]
  BY DEF SpawnPipe, Goto, Side
<1>4. handler' \in [Conn -> HandlerStep]
  BY <1>1, <1>3, TypesOf DEF HandlerStep
<1>5. TypeOK'
  BY <1>1, <1>2, <1>4, TypesOf DEF TypeOK, PipeStep
<1>6. Apart(c)
  BY <1>1, <1>2, <1>3, TypesOf DEF Apart
<1>7. pipe'[c][e] = "read" /\ \A x \in Side : x # e => pipe'[c][x] = pipe[c][x]
  BY <1>1, <1>2, TypesOf
<1>8. pipe[c][e] = "off" /\ reason[c] # "normal"
  BY <1>1, <1>3 DEF Local, Placed, Fresh, Early, Side
<1>9. Placed(c)'
  <2>1. CASE e = "client"
    BY <1>1, <1>2, <1>3, <1>7, <1>8, <2>1, TypesOf DEF Local, Placed, Fresh, Early, Side
  <2>2. CASE e = "upstream"
    BY <1>1, <1>2, <1>3, <1>7, <1>8, <2>2, TypesOf DEF Local, Placed, Fresh, Early, Side
  <2> QED
    BY <2>1, <2>2 DEF Side
<1>10. ASSUME NEW x \in Side
       PROVE  Explained(c, x)'
  BY <1>1, <1>2, <1>7, <1>8, Sides DEF Local, Explained
<1>11. Counted(c)' <=> Counted(c)
  BY <1>1, <1>3, TypesOf DEF Counted
<1> QED
  BY <1>1, <1>2, <1>5, <1>6, <1>9, <1>10, <1>11 DEF Kept, Local

LEMMA PanicKeeps ==
    ASSUME IInv, NEW c \in Conn, handler[c] = "pipe2", Goto(c, "panicked"),
           UNCHANGED <<reason, data>>, conns' \in Nat
    PROVE  Kept(c) /\ ~Counted(c)'
<1>1. TypeOK /\ Local(c)
  BY DEF IInv, LimitHeld
<1>2. handler' \in [Conn -> HandlerStep] /\ handler'[c] = "panicked"
  BY <1>1, TypesOf DEF Goto, HandlerStep
<1>3. /\ pipe' = pipe /\ written' = written /\ shut' = shut /\ firstErr' = firstErr
      /\ sent' = sent /\ fin' = fin /\ rst' = rst /\ reason' = reason
  BY DEF data, ends
<1>4. TypeOK'
  BY <1>1, <1>2, <1>3, TypesOf DEF TypeOK, PipeStep
<1>5. Apart(c)
  BY <1>1, <1>3, TypesOf DEF Apart, Goto
<1>6. Local(c)'
  BY <1>1, <1>2, <1>3 DEF Local, Placed, Early, Explained
<1> QED
  BY <1>2, <1>4, <1>5, <1>6 DEF Kept, Counted

-----------------------------------------------------------------------------
(* The pipe threads.                                                       *)

\* A pipe thread that is running has a handler that is waiting or panicked.
LEMMA Running ==
    ASSUME IInv, NEW c \in Conn, NEW e \in Side, pipe[c][e] \notin {"off", "done"}
    PROVE  /\ handler[c] \notin Early \cup {"guard"} /\ reason[c] # "normal"
           /\ handler[c] \in {"pipe2", "panicked"} => e # "upstream"
<1>1. Placed(c)
  BY DEF IInv, Local
<1> QED
  BY <1>1 DEF Placed, Fresh

\* What a step of the thread that reads from e leaves alone, and where it goes.
LEMMA PipeMoves ==
    ASSUME IInv, NEW c \in Conn, NEW e \in Side, pipe[c][e] \notin {"off", "done"},
           NEW l \in Steps,
           At(c, e, l), UNCHANGED server
    PROVE  /\ pipe' \in [Conn -> [Side -> PipeStep]]
           /\ pipe'[c][e] = l /\ pipe'[c][WriteSide(e)] = pipe[c][WriteSide(e)]
           /\ \A d \in Conn : d # c => pipe'[d] = pipe[d]
           /\ conns' = conns /\ handler' = handler /\ reason' = reason
           /\ sent' = sent /\ fin' = fin /\ rst' = rst
           /\ Placed(c)' /\ (Counted(c)' <=> Counted(c))
<1>1. TypeOK /\ Placed(c)
  BY DEF IInv, LimitHeld, Local
<1>2. /\ conns' = conns /\ handler' = handler /\ reason' = reason
      /\ sent' = sent /\ fin' = fin /\ rst' = rst
  BY DEF server, ends
<1>3. pipe' \in [Conn -> [Side -> PipeStep]]
  BY <1>1, TypesOf DEF At, Steps, PipeStep
<1>4. /\ pipe'[c][e] = l /\ pipe'[c][WriteSide(e)] = pipe[c][WriteSide(e)]
      /\ \A d \in Conn : d # c => pipe'[d] = pipe[d]
  BY <1>1, TypesOf, Sides DEF At
<1>5. /\ handler[c] \notin Early \cup {"guard"} /\ reason[c] # "normal"
      /\ handler[c] \in {"pipe2", "panicked"} => e # "upstream"
  BY Running
<1>6. ASSUME handler[c] \in {"pipe2", "panicked"}
      PROVE  pipe'[c]["upstream"] = "off"
  <2>1. WriteSide(e) = "upstream"
    BY <1>5, <1>6 DEF Side, WriteSide
  <2> QED
    BY <1>1, <1>4, <1>6, <2>1 DEF Placed
<1>7. Placed(c)'
  BY <1>2, <1>5, <1>6 DEF Placed
<1> QED
  BY <1>2, <1>3, <1>4, <1>7 DEF Counted

\* What each conjunct of the rest asks of such a step.
LEMMA PipeKeeps ==
    ASSUME IInv, NEW c \in Conn, NEW e \in Side, pipe[c][e] \notin {"off", "done"},
           NEW l \in Steps,
           At(c, e, l), UNCHANGED server,
           written' \in [Conn -> [Side -> 0 .. MaxChunks]],
           shut' \in [Conn -> [Side -> BOOLEAN]],
           firstErr' \in [Conn -> Side \cup {"none"}],
           \A d \in Conn : d # c => /\ written'[d] = written[d]
                                    /\ shut'[d] = shut[d] /\ firstErr'[d] = firstErr[d],
           firstErr'[c] # "none" => rst[c][firstErr'[c]],
           \A x \in Side : Explained(c, x)'
    PROVE  Kept(c) /\ (Counted(c)' <=> Counted(c)) /\ conns' = conns
<1>1. TypeOK
  BY DEF IInv, LimitHeld
<1>2. /\ pipe' \in [Conn -> [Side -> PipeStep]]
      /\ \A d \in Conn : d # c => pipe'[d] = pipe[d]
      /\ conns' = conns /\ handler' = handler /\ reason' = reason
      /\ sent' = sent /\ fin' = fin /\ rst' = rst
      /\ Placed(c)' /\ (Counted(c)' <=> Counted(c))
  BY PipeMoves
<1>3. TypeOK'
  BY <1>1, <1>2, TypesOf DEF TypeOK, PipeStep
<1>4. Apart(c)
  BY <1>2 DEF Apart
<1> QED
  BY <1>2, <1>3, <1>4 DEF Kept, Local

\* These steps of a pipe thread change nothing else.
LEMMA LookingKeeps ==
    ASSUME IInv, NEW c \in Conn, NEW e \in Side,
           \/ PipeRead(c, e) \/ PipeReadFails(c, e)
           \/ PipeWriteBlocks(c, e) \/ PipeWriteFails(c, e) \/ PipeEof(c, e)
    PROVE  Kept(c) /\ (Counted(c)' <=> Counted(c)) /\ conns' = conns
<1>1. TypeOK /\ Local(c)
  BY DEF IInv, LimitHeld
<1>2. /\ pipe[c][e] \notin {"off", "done"}
      /\ UNCHANGED server /\ written' = written /\ shut' = shut /\ firstErr' = firstErr
  BY DEF PipeRead, PipeReadFails, PipeWriteBlocks, PipeWriteFails, PipeEof
<1>3. \A x \in Side : Explained(c, x)
  BY <1>1 DEF Local
<1>4. WriteSide(e) \in Side /\ WriteSide(WriteSide(e)) = e /\ WriteSide(e) # e
      /\ \A x \in Side : x = e \/ x = WriteSide(e)
  BY Sides
<1>5. ASSUME NEW l \in Steps,
             At(c, e, l), pipe[c][e] # "writeErr",
             l \in {"write", "held"} => written[c][e] < sent[c][e],
             l = "readErr" => rst[c][e],
             l = "writeErr" => rst[c][WriteSide(e)] \/ firstErr[c] # "none",
             l # "close",
             l = "done" => \/ fin[c][e] /\ written[c][e] = sent[c][e]
                           \/ firstErr[c] # "none"
                           \/ pipe[c][WriteSide(e)] = "writeErr"
      PROVE  Kept(c) /\ (Counted(c)' <=> Counted(c)) /\ conns' = conns
  <2>1. /\ pipe'[c][e] = l /\ pipe'[c][WriteSide(e)] = pipe[c][WriteSide(e)]
        /\ sent' = sent /\ fin' = fin /\ rst' = rst
    BY <1>2, <1>5, PipeMoves
  <2>2. Explained(c, e)'
    BY <1>2, <1>3, <1>5, <2>1 DEF Explained
  <2>3. Explained(c, WriteSide(e))'
    BY <1>2, <1>3, <1>4, <1>5, <2>1 DEF Explained
  <2>4. \A x \in Side : Explained(c, x)'
    BY <1>4, <2>2, <2>3
  <2>5. firstErr'[c] # "none" => rst[c][firstErr'[c]]
    BY <1>1, <1>2 DEF Local
  <2>6. /\ written' \in [Conn -> [Side -> 0 .. MaxChunks]]
        /\ shut' \in [Conn -> [Side -> BOOLEAN]]
        /\ firstErr' \in [Conn -> Side \cup {"none"}]
        /\ \A d \in Conn : d # c => /\ written'[d] = written[d]
                                    /\ shut'[d] = shut[d] /\ firstErr'[d] = firstErr[d]
    BY <1>1, <1>2, TypesOf
  <2> QED
    BY <1>2, <1>5, <2>4, <2>5, <2>6, PipeKeeps
<1>6. CASE PipeRead(c, e)
  BY <1>5, <1>6 DEF PipeRead, Steps
<1>7. CASE PipeReadFails(c, e)
  BY <1>5, <1>7 DEF PipeReadFails, Steps
<1>8. CASE PipeWriteFails(c, e)
  <2>1. rst[c][WriteSide(e)] \/ firstErr[c] # "none"
    BY <1>3, <1>4, <1>8 DEF PipeWriteFails, CanWrite, Explained
  <2> QED
    BY <1>5, <1>8, <2>1 DEF PipeWriteFails, Steps
<1>9. CASE PipeEof(c, e)
  <2>1. written[c][e] = sent[c][e]
    BY <1>9 DEF PipeEof, AtEnd
  <2>2. \/ fin[c][e] \/ firstErr[c] # "none" \/ pipe[c][WriteSide(e)] = "writeErr"
    BY <1>3, <1>4, <1>9 DEF PipeEof, AtEnd, Explained
  <2> QED
    BY <1>5, <1>9, <2>1, <2>2 DEF PipeEof, Steps
<1>10. CASE PipeWriteBlocks(c, e)
  <2>1. written[c][e] < sent[c][e]
    BY <1>3, <1>10 DEF PipeWriteBlocks, Explained
  <2> QED
    BY <1>5, <1>10, <2>1 DEF PipeWriteBlocks, Steps
<1> QED
  BY <1>6, <1>7, <1>8, <1>9, <1>10

LEMMA WriteKeeps ==
    ASSUME IInv, NEW c \in Conn, NEW e \in Side,
           PipeWrite(c, e) \/ PipeWriteResumes(c, e)
    PROVE  Kept(c) /\ (Counted(c)' <=> Counted(c)) /\ conns' = conns
<1>1. TypeOK /\ Local(c)
  BY DEF IInv, LimitHeld
<1>2. /\ pipe[c][e] \in {"write", "held"} /\ At(c, e, "read") /\ UNCHANGED server
      /\ shut' = shut /\ firstErr' = firstErr
      /\ written' = [written EXCEPT ![c][e] = @ + 1]
  BY DEF PipeWrite, PipeWriteResumes, PassOn
<1>3. \A x \in Side : Explained(c, x)
  BY <1>1 DEF Local
<1>4. /\ written[c][e] \in 0 .. MaxChunks /\ sent[c][e] \in 0 .. MaxChunks
      /\ written[c][e] < sent[c][e]
  BY <1>1, <1>2, <1>3, TypesOf DEF Explained
<1>5. written[c][e] + 1 \in 0 .. MaxChunks /\ written[c][e] + 1 <= sent[c][e]
  BY <1>4, DoorkeeperAssumption
<1>6. /\ written' \in [Conn -> [Side -> 0 .. MaxChunks]]
      /\ written'[c][e] = written[c][e] + 1
      /\ \A x \in Side : x # e => written'[c][x] = written[c][x]
      /\ \A d \in Conn : d # c => written'[d] = written[d]
  BY <1>1, <1>2, <1>5, TypesOf
<1>7. /\ pipe'[c][e] = "read" /\ pipe'[c][WriteSide(e)] = pipe[c][WriteSide(e)]
      /\ sent' = sent /\ fin' = fin /\ rst' = rst
  BY <1>2, PipeMoves DEF Steps
<1>8. Explained(c, e)'
  BY <1>2, <1>3, <1>5, <1>6, <1>7 DEF Explained
<1>9. Explained(c, WriteSide(e))'
  BY <1>2, <1>3, <1>6, <1>7, Sides DEF Explained
<1>10. \A x \in Side : Explained(c, x)'
  BY <1>8, <1>9, Sides
<1>11. firstErr'[c] # "none" => rst[c][firstErr'[c]]
  BY <1>1, <1>2 DEF Local
<1>12. /\ shut' \in [Conn -> [Side -> BOOLEAN]]
       /\ firstErr' \in [Conn -> Side \cup {"none"}]
       /\ \A d \in Conn : d # c => shut'[d] = shut[d] /\ firstErr'[d] = firstErr[d]
  BY <1>1, <1>2, TypesOf
<1> QED
  BY <1>2, <1>6, <1>10, <1>11, <1>12, PipeKeeps DEF Steps

\* The side blamed is one that made a reset: a write that fails because of a
\* shutdown comes after another error was recorded.
LEMMA RecordKeeps ==
    ASSUME IInv, NEW c \in Conn, NEW e \in Side, RecordErr(c, e)
    PROVE  Kept(c) /\ (Counted(c)' <=> Counted(c)) /\ conns' = conns
<1>1. TypeOK /\ Local(c)
  BY DEF IInv, LimitHeld
<1>2. /\ pipe[c][e] \in {"readErr", "writeErr"} /\ At(c, e, "close")
      /\ UNCHANGED server /\ written' = written /\ shut' = shut
      /\ firstErr' = [firstErr EXCEPT ![c] =
                         IF firstErr[c] = "none" THEN Blamed(c, e) ELSE firstErr[c]]
  BY DEF RecordErr
<1>3. \A x \in Side : Explained(c, x)
  BY <1>1 DEF Local
<1>4. Blamed(c, e) \in Side /\ (firstErr[c] = "none" => rst[c][Blamed(c, e)])
  BY <1>2, <1>3, Sides DEF Explained, Blamed
<1>5. Blamed(c, e) # "none"
  BY <1>4 DEF Side
<1>6. firstErr[c] \in Side \cup {"none"}
  BY <1>1, TypesOf
<1>7. /\ firstErr' \in [Conn -> Side \cup {"none"}]
      /\ \A d \in Conn : d # c => firstErr'[d] = firstErr[d]
      /\ firstErr'[c] = IF firstErr[c] = "none" THEN Blamed(c, e) ELSE firstErr[c]
  BY <1>1, <1>2, <1>4, <1>6, TypesOf
<1>8. firstErr'[c] # "none" /\ rst[c][firstErr'[c]]
  BY <1>1, <1>4, <1>5, <1>7 DEF Local
<1>9. /\ pipe'[c][e] = "close" /\ pipe'[c][WriteSide(e)] = pipe[c][WriteSide(e)]
      /\ sent' = sent /\ fin' = fin /\ rst' = rst
  BY <1>2, PipeMoves DEF Steps
<1>10. Explained(c, e)'
  BY <1>2, <1>3, <1>8, <1>9 DEF Explained
<1>11. Explained(c, WriteSide(e))'
  BY <1>2, <1>3, <1>8, <1>9, Sides DEF Explained
<1>12. \A x \in Side : Explained(c, x)'
  BY <1>10, <1>11, Sides
<1>13. /\ written' \in [Conn -> [Side -> 0 .. MaxChunks]]
       /\ shut' \in [Conn -> [Side -> BOOLEAN]]
       /\ \A d \in Conn : d # c => written'[d] = written[d] /\ shut'[d] = shut[d]
  BY <1>1, <1>2, TypesOf
<1> QED
  BY <1>2, <1>7, <1>8, <1>12, <1>13, PipeKeeps DEF Steps

LEMMA HardCloseKeeps ==
    ASSUME IInv, NEW c \in Conn, NEW e \in Side, HardClose(c, e)
    PROVE  Kept(c) /\ (Counted(c)' <=> Counted(c)) /\ conns' = conns
<1>1. TypeOK /\ Local(c)
  BY DEF IInv, LimitHeld
<1>2. /\ pipe[c][e] = "close" /\ At(c, e, "done") /\ UNCHANGED server
      /\ written' = written /\ firstErr' = firstErr
      /\ shut' = [shut EXCEPT ![c] = [x \in Side |-> TRUE]]
  BY DEF HardClose
<1>3. \A x \in Side : Explained(c, x)
  BY <1>1 DEF Local
<1>4. firstErr[c] # "none" /\ rst[c][firstErr[c]]
  BY <1>1, <1>2, <1>3 DEF Local, Explained
<1>5. /\ shut' \in [Conn -> [Side -> BOOLEAN]]
      /\ \A d \in Conn : d # c => shut'[d] = shut[d]
      /\ written' \in [Conn -> [Side -> 0 .. MaxChunks]]
      /\ firstErr' \in [Conn -> Side \cup {"none"}]
  BY <1>1, <1>2, TypesOf
<1>6. /\ pipe'[c][e] = "done" /\ pipe'[c][WriteSide(e)] = pipe[c][WriteSide(e)]
      /\ sent' = sent /\ fin' = fin /\ rst' = rst
  BY <1>2, PipeMoves DEF Steps
<1>7. Explained(c, e)'
  BY <1>2, <1>3, <1>4, <1>6 DEF Explained
<1>8. Explained(c, WriteSide(e))'
  BY <1>2, <1>3, <1>4, <1>6, Sides DEF Explained
<1>9. \A x \in Side : Explained(c, x)'
  BY <1>7, <1>8, Sides
<1> QED
  BY <1>2, <1>4, <1>5, <1>9, PipeKeeps DEF Steps

-----------------------------------------------------------------------------
(* The two ends: an end acts only while its pipe thread can see it.        *)

LEMMA EndKeeps ==
    ASSUME IInv, NEW c \in Conn, NEW e \in Side, End(c, e)
    PROVE  Kept(c) /\ (Counted(c)' <=> Counted(c)) /\ conns' = conns
<1>1. TypeOK /\ Local(c)
  BY DEF IInv, LimitHeld
<1>2. /\ conns' = conns /\ handler' = handler /\ reason' = reason /\ pipe' = pipe
      /\ written' = written /\ shut' = shut /\ firstErr' = firstErr
  BY DEF End, EndSends, EndFinishes, EndResets, proxyVars
<1>3. \A x \in Side : Explained(c, x)
  BY <1>1 DEF Local
<1>4. Placed(c)'
  BY <1>1, <1>2 DEF Local, Placed, Fresh
<1>5. ASSUME TypeOK', Apart(c), firstErr[c] # "none" => rst'[c][firstErr[c]],
             \A x \in Side : Explained(c, x)'
      PROVE  Kept(c) /\ (Counted(c)' <=> Counted(c)) /\ conns' = conns
  BY <1>2, <1>4, <1>5 DEF Kept, Local, Counted
<1>6. CASE EndSends(c, e)
  <2>1. /\ sent' = [sent EXCEPT ![c][e] = @ + 1] /\ fin' = fin /\ rst' = rst
        /\ pipe[c][e] = "read" /\ sent[c][e] < MaxChunks
    BY <1>6 DEF EndSends, Awaited
  <2>2. sent[c][e] \in 0 .. MaxChunks /\ written[c][e] \in 0 .. MaxChunks
    BY <1>1, TypesOf
  <2>3. sent[c][e] + 1 \in 0 .. MaxChunks
        /\ (written[c][e] <= sent[c][e] => written[c][e] <= sent[c][e] + 1)
    BY <2>1, <2>2, DoorkeeperAssumption
  <2>4. /\ sent' \in [Conn -> [Side -> 0 .. MaxChunks]]
        /\ sent'[c][e] = sent[c][e] + 1
        /\ \A x \in Side : x # e => sent'[c][x] = sent[c][x]
        /\ \A d \in Conn : d # c => sent'[d] = sent[d]
    BY <1>1, <2>1, <2>3, TypesOf
  <2>5. TypeOK'
    BY <1>1, <1>2, <2>1, <2>4, TypesOf DEF TypeOK, PipeStep
  <2>6. Apart(c)
    BY <1>2, <2>1, <2>4 DEF Apart
  <2>7. \A x \in Side : Explained(c, x)'
    BY <1>2, <1>3, <2>1, <2>3, <2>4 DEF Explained
  <2> QED
    BY <1>1, <1>5, <2>1, <2>5, <2>6, <2>7 DEF Local
<1>7. CASE EndFinishes(c, e)
  <2>1. fin' = [fin EXCEPT ![c][e] = TRUE] /\ sent' = sent /\ rst' = rst
    BY <1>7 DEF EndFinishes
  <2>2. /\ fin' \in [Conn -> [Side -> BOOLEAN]]
        /\ \A x \in Side : fin[c][x] => fin'[c][x]
        /\ \A d \in Conn : d # c => fin'[d] = fin[d]
    BY <1>1, <2>1, TypesOf
  <2>3. TypeOK'
    BY <1>1, <1>2, <2>1, <2>2, TypesOf DEF TypeOK, PipeStep
  <2>4. Apart(c)
    BY <1>2, <2>1, <2>2 DEF Apart
  <2>5. \A x \in Side : Explained(c, x)'
    BY <1>2, <1>3, <2>1, <2>2 DEF Explained
  <2> QED
    BY <1>1, <1>5, <2>1, <2>3, <2>4, <2>5 DEF Local
<1>8. CASE EndResets(c, e)
  <2>1. rst' = [rst EXCEPT ![c][e] = TRUE] /\ sent' = sent /\ fin' = fin
    BY <1>8 DEF EndResets
  <2>2. /\ rst' \in [Conn -> [Side -> BOOLEAN]]
        /\ \A x \in Side : rst[c][x] => rst'[c][x]
        /\ \A d \in Conn : d # c => rst'[d] = rst[d]
    BY <1>1, <2>1, TypesOf
  <2>3. TypeOK'
    BY <1>1, <1>2, <2>1, <2>2, TypesOf DEF TypeOK, PipeStep
  <2>4. Apart(c)
    BY <1>2, <2>1, <2>2 DEF Apart
  <2>5. \A x \in Side : Explained(c, x)'
    BY <1>2, <1>3, <2>1, <2>2, Sides DEF Explained
  <2>6. firstErr[c] \in Side \cup {"none"}
    BY <1>1, TypesOf
  <2>7. firstErr[c] # "none" => rst'[c][firstErr[c]]
    BY <1>1, <2>2, <2>6 DEF Local
  <2> QED
    BY <1>5, <2>3, <2>4, <2>5, <2>7
<1> QED
  BY <1>6, <1>7, <1>8 DEF End

-----------------------------------------------------------------------------
(* The whole.                                                              *)

\* What a step does to the counter.
Tallied(c) ==
    \/ (Counted(c)' <=> Counted(c)) /\ conns' = conns
    \/ ~Counted(c) /\ Counted(c)' /\ conns' = conns + 1 /\ conns < MaxConns
    \/ Counted(c) /\ ~Counted(c)' /\ conns' = conns - 1

\* A counted thread can give its slot back.
LEMMA SlotThere ==
    ASSUME IInv, NEW c \in Conn, Counted(c)
    PROVE  conns - 1 \in Nat
<1>1. conns = Cardinality(Served) /\ conns \in Nat
  BY DEF IInv, LimitHeld, TypeOK, Served
<1>2. c \in Served
  BY DEF Served
<1>3. Cardinality(Served) # 0
  BY <1>2, ServedFinite, FS_EmptySet
<1> QED
  BY <1>1, <1>3

LEMMA AcceptorKeeps ==
    ASSUME IInv, NEW c \in Conn,
           Accept(c) \/ Refuse(c) \/ Spawn(c) \/ SpawnFails(c) \/ LastPipeReturns(c)
    PROVE  Kept(c) /\ Tallied(c)
<1>1. TypeOK /\ Local(c) /\ conns \in Nat
  BY DEF IInv, LimitHeld, TypeOK
<1>2. CASE Accept(c)
  <2>1. handler[c] = "none" /\ UNCHANGED data
    BY <1>2 DEF Accept
  <2>2. CASE TryInc
    <3>1. Goto(c, "spawn") /\ conns' = conns + 1 /\ reason' = reason /\ conns < MaxConns
      BY <1>2, <2>2 DEF Accept, TryInc
    <3>2. Kept(c) /\ handler'[c] = "spawn"
      BY <1>1, <2>1, <3>1, MoveKeeps DEF HandlerStep, Early
    <3> QED
      BY <2>1, <3>1, <3>2 DEF Tallied, Counted
  <2>3. CASE ~TryInc
    <3>1. /\ Goto(c, "refused") /\ conns' = conns
          /\ reason' = [reason EXCEPT ![c] = "over_limit"]
      BY <1>2, <2>3 DEF Accept
    <3>2. Kept(c) /\ handler'[c] = "refused"
      BY <1>1, <2>1, <3>1, MoveKeeps DEF HandlerStep, Early
    <3> QED
      BY <2>1, <3>1, <3>2 DEF Tallied, Counted
  <2> QED
    BY <2>2, <2>3
<1>3. CASE Refuse(c)
  <2>1. handler[c] = "refused" /\ Forget(c) /\ conns' = conns
    BY <1>3 DEF Refuse
  <2> QED
    BY <1>1, <2>1, ForgetKeeps DEF Tallied, Counted
<1>4. CASE Spawn(c)
  <2>1. handler[c] = "spawn" /\ Goto(c, "setup") /\ conns' = conns /\ reason' = reason
        /\ UNCHANGED data
    BY <1>4 DEF Spawn
  <2>2. Kept(c) /\ handler'[c] = "setup"
    BY <1>1, <2>1, MoveKeeps DEF HandlerStep, Early
  <2> QED
    BY <2>1, <2>2 DEF Tallied, Counted
<1>5. CASE SpawnFails(c)
  <2>1. handler[c] = "spawn" /\ Forget(c) /\ conns' = conns - 1
    BY <1>5 DEF SpawnFails
  <2>2. Counted(c) /\ conns' \in Nat
    BY <2>1, SlotThere DEF Counted
  <2> QED
    BY <2>1, <2>2, ForgetKeeps DEF Tallied
<1>6. CASE LastPipeReturns(c)
  <2>1. handler[c] = "panicked" /\ Forget(c) /\ conns' = conns
    BY <1>6 DEF LastPipeReturns
  <2> QED
    BY <1>1, <2>1, ForgetKeeps DEF Tallied, Counted
<1> QED
  BY <1>2, <1>3, <1>4, <1>5, <1>6

LEMMA HandlerKeeps ==
    ASSUME IInv, NEW c \in Conn, Handle(c)
    PROVE  Kept(c) /\ Tallied(c)
<1>1. TypeOK /\ Local(c) /\ conns \in Nat
  BY DEF IInv, LimitHeld, TypeOK
<1>2. ASSUME handler[c] \in {"setup", "warn", "connect", "clone"}, conns' = conns,
             UNCHANGED data,
             \/ \E l \in {"warn", "connect", "clone", "pipe1"} :
                   Goto(c, l) /\ reason' = reason
             \/ \E why \in {"client_reset", "warn_write_timeout",
                            "upstream_unavailable"} : Closing(c, why)
      PROVE  Kept(c) /\ Tallied(c)
  <2>1. ASSUME NEW l \in {"warn", "connect", "clone", "pipe1"}, Goto(c, l),
               reason' = reason
        PROVE  Kept(c) /\ Tallied(c)
    <3>1. Kept(c) /\ handler'[c] = l
      BY <1>1, <1>2, <2>1, MoveKeeps DEF HandlerStep, Early
    <3> QED
      BY <1>2, <3>1 DEF Tallied, Counted
  <2>2. ASSUME NEW why \in {"client_reset", "warn_write_timeout",
                            "upstream_unavailable"}, Closing(c, why)
        PROVE  Kept(c) /\ Tallied(c)
    <3>0. Goto(c, "guard") /\ reason' = [reason EXCEPT ![c] = why]
      BY <2>2 DEF Closing
    <3>1. Kept(c) /\ handler'[c] = "guard"
      BY <1>1, <1>2, <3>0, MoveKeeps DEF HandlerStep, Early
    <3> QED
      BY <1>2, <3>1 DEF Tallied, Counted
  <2> QED
    BY <1>2, <2>1, <2>2
<1>3. CASE Setup(c)
  BY <1>2, <1>3 DEF Setup
<1>4. CASE Warn(c)
  BY <1>2, <1>4 DEF Warn
<1>5. CASE Connect(c)
  BY <1>2, <1>5 DEF Connect
<1>6. CASE Clone(c)
  BY <1>2, <1>6 DEF Clone
<1>7. CASE \E e \in Side : SpawnPipe(c, e)
  BY <1>7, SpawnPipeKeeps DEF Tallied
<1>8. CASE SpawnPipeFails(c)
  <2>1. conns' = conns - 1 /\ handler[c] \in {"pipe1", "pipe2"}
    BY <1>8 DEF SpawnPipeFails
  <2>2. Counted(c) /\ conns' \in Nat
    BY <2>1, SlotThere DEF Counted
  <2>3. CASE handler[c] = "pipe1" /\ Forget(c)
    BY <2>1, <2>2, <2>3, ForgetKeeps DEF Tallied
  <2>4. CASE handler[c] = "pipe2" /\ Goto(c, "panicked") /\ UNCHANGED <<reason, data>>
    BY <2>1, <2>2, <2>4, PanicKeeps DEF Tallied
  <2> QED
    BY <1>8, <2>3, <2>4 DEF SpawnPipeFails
<1>9. CASE Join(c)
  BY <1>9, JoinKeeps DEF Tallied
<1>10. CASE DropGuard(c)
  <2>1. handler[c] = "guard" /\ Forget(c) /\ conns' = conns - 1
    BY <1>10 DEF DropGuard
  <2>2. Counted(c) /\ conns' \in Nat
    BY <2>1, SlotThere DEF Counted
  <2> QED
    BY <2>1, <2>2, ForgetKeeps DEF Tallied
<1> QED
  BY <1>3, <1>4, <1>5, <1>6, <1>7, <1>8, <1>9, <1>10 DEF Handle

LEMMA InitHolds == Init => IInv
<1> SUFFICES ASSUME Init PROVE IInv
  OBVIOUS
<1>1. 0 \in Nat /\ 0 \in 0 .. MaxChunks /\ 0 <= MaxConns
  BY DoorkeeperAssumption
<1>2. TypeOK
  BY <1>1 DEF Init, TypeOK, HandlerStep, PipeStep
<1>3. \A c \in Conn : ~Counted(c)
  BY DEF Init, Counted
<1>4. {c \in Conn : Counted(c)} = {}
  BY <1>3
<1>5. LimitHeld
  BY <1>1, <1>2, <1>4, FS_EmptySet DEF LimitHeld, Init
<1>6. ASSUME NEW c \in Conn PROVE Local(c)
  <2>1. /\ handler[c] = "none" /\ firstErr[c] = "none" /\ reason[c] = "open"
        /\ \A e \in Side : /\ pipe[c][e] = "off" /\ ~shut[c][e]
                           /\ sent[c][e] = 0 /\ written[c][e] = 0
    BY DEF Init
  <2> QED
    BY <2>1 DEF Local, Placed, Fresh, Early, Explained
<1> QED
  BY <1>5, <1>6 DEF IInv

\* The invariant is kept by every step of the accept loop, of a connection's
\* thread, of its pipe threads and of the two ends.
THEOREM Invariance == Spec => []IInv
<1>1. IInv /\ [Next]_vars => IInv'
  <2> SUFFICES ASSUME IInv, [Next]_vars PROVE IInv'
    OBVIOUS
  <2>1. CASE Next
    <3>1. PICK c \in Conn :
             \/ Accept(c) \/ Refuse(c) \/ Spawn(c) \/ SpawnFails(c)
             \/ Handle(c) \/ LastPipeReturns(c)
             \/ \E e \in Side : Pipe(c, e) \/ PipeWriteResumes(c, e) \/ End(c, e)
      BY <2>1 DEF Next
    <3>2. Kept(c) /\ Tallied(c)
      <4>1. CASE \/ Accept(c) \/ Refuse(c) \/ Spawn(c) \/ SpawnFails(c)
                 \/ LastPipeReturns(c)
        BY <4>1, AcceptorKeeps
      <4>2. CASE Handle(c)
        BY <4>2, HandlerKeeps
      <4>3. ASSUME NEW e \in Side, Pipe(c, e) \/ PipeWriteResumes(c, e)
            PROVE  Kept(c) /\ Tallied(c)
        BY <4>3, LookingKeeps, WriteKeeps, RecordKeeps, HardCloseKeeps DEF Pipe, Tallied
      <4>4. ASSUME NEW e \in Side, End(c, e)
            PROVE  Kept(c) /\ Tallied(c)
        BY <4>4, EndKeeps DEF Tallied
      <4> QED
        BY <3>1, <4>1, <4>2, <4>3, <4>4
    <3>3. LimitHeld /\ Apart(c) /\ TypeOK'
      BY <3>2 DEF IInv, Kept
    <3>4. LimitHeld'
      BY <3>2, <3>3, LimitKept DEF Tallied
    <3>5. \A d \in Conn : d # c => Local(d)'
      BY <3>3, OthersKeep
    <3>6. Local(c)'
      BY <3>2 DEF Kept
    <3> QED
      BY <3>4, <3>5, <3>6 DEF IInv
  <2>2. CASE UNCHANGED vars
    <3>1. /\ UNCHANGED <<conns, handler, reason, pipe, sent, fin, rst,
                         written, shut, firstErr>>
      BY <2>2 DEF vars, data, ends
    <3>2. LimitHeld'
      BY <3>1 DEF IInv, LimitHeld, TypeOK, Counted
    <3>3. \A c \in Conn : Local(c)'
      BY <3>1 DEF IInv, Local, Placed, Fresh, Explained
    <3> QED
      BY <3>2, <3>3 DEF IInv
  <2> QED
    BY <2>1, <2>2
<1> QED
  BY <1>1, InitHolds, PTL DEF Spec

\* The counter of the accept loop is the number of connections that are served,
\* and never more than max_conns, whichever thread fails to start or panics.
THEOREM LimitHolds == Spec => []LimitHeld
<1>1. IInv => LimitHeld
  BY DEF IInv
<1> QED
  BY <1>1, Invariance, PTL

\* "normal" is logged only for a connection of which nothing was lost: a pipe
\* thread that returned without an error being recorded saw the end of the
\* stream, and had passed everything on.
THEOREM NormalHolds == Spec => []NormalIsComplete
<1>1. IInv => NormalIsComplete
  <2> SUFFICES ASSUME IInv, NEW c \in Conn, reason[c] = "normal", NEW e \in Side
               PROVE  fin[c][e] /\ written[c][e] = sent[c][e]
    BY DEF NormalIsComplete
  <2>1. /\ firstErr[c] = "none" /\ \A x \in Side : pipe[c][x] = "done"
        /\ Explained(c, e)
    BY DEF IInv, Local, Placed
  <2>2. pipe[c][WriteSide(e)] = "done"
    BY <2>1, Sides
  <2> QED
    BY <2>1, <2>2 DEF Explained
<1> QED
  BY <1>1, Invariance, PTL

\* The end that first_err names did reset its connection: the shutdown by which
\* one pipe thread stops the other is never reported as a reset by an end.
THEOREM BlameHolds == Spec => []BlameIsRight
<1>1. IInv => BlameIsRight
  BY DEF IInv, Local, BlameIsRight
<1> QED
  BY <1>1, Invariance, PTL

=============================================================================

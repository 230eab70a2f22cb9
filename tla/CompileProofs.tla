--------------------------- MODULE CompileProofs ---------------------------
(***************************************************************************)
(* Theorems about Compile, for sources, objects and diagnostics of any     *)
(* size.                                                                   *)
(***************************************************************************)
EXTENDS Compile, SequenceTheorems, TLAPS

-----------------------------------------------------------------------------
(* Types *)

Unconnected == {"start", "ask", "mine", "connect"}
Asking == {"transfer", "verify", "compilefile"}
ClientPc == Unconnected \cup Asking \cup {"source", "wait", "receive", "again", "local", "nodaemon", "done"}
ServerPc == {"idle", "daemon", "install", "check", "recv", "poll", "reply", "files"}
Hows == {0, 1, EXIT_COMPILER_CRASHED} \cup OutOfMemory
Contained == {"none", "empty", "part", "object"}

ClientState ==
    [pc : ClientPc, exit : Nat, got_env : BOOLEAN, sent : Nat, file : Files, tmp : Nat, more : BOOLEAN]
ServerState ==
    [pc : ServerPc, installed : BOOLEAN, client_fd : BOOLEAN, input_complete : BOOLEAN, fcmsg : BOOLEAN,
     sock_in : BOOLEAN, return_value : Nat, status : Nat, stat : Nat, err : Nat, answered : BOOLEAN,
     obj_file : {"compiled", "empty", "missing"}]
CompilerState ==
    [state : {"none", "running", "ended"}, killed : BOOLEAN, stdin : Nat, pending : Nat, read : Nat,
     how : Hows]

ToMsg == [kind : {"env", "end", "verify", "compile", "chunk"}]
Answer == [kind : {"result"}, status : Nat, oom : BOOLEAN, err : Nat, dwo : BOOLEAN]
FromMsg == [kind : {"status", "chunk", "end"}] \cup [kind : {"verified"}, ok : BOOLEAN] \cup Answer

Types ==
    /\ world \in Worlds
    /\ client \in ClientState
    /\ output \in [Files -> Contained]
    /\ link \in {"none", "up", "cut", "closed", "ended"}
    /\ to \in Seq(ToMsg)
    /\ from \in Seq(FromMsg)
    /\ server \in ServerState
    /\ compiler \in CompilerState

Codes == {None, EXIT_DISTCC_FAILED, EXIT_COMPILER_CRASHED, EXIT_OUT_OF_MEMORY, EXIT_IO_ERROR,
          EXIT_COMPILER_MISSING, EXIT_CLIENT_KILLED}

\* Exit codes are numbers.
LEMMA CodesAreNumbers == Codes \subseteq Nat /\ Hows \subseteq Nat
  BY DEF Codes, Hows, OutOfMemory, None, EXIT_DISTCC_FAILED, EXIT_COMPILER_CRASHED, EXIT_OUT_OF_MEMORY,
         EXIT_IO_ERROR, EXIT_COMPILER_MISSING, EXIT_CLIENT_KILLED

\* What taking the first element of a sequence leaves.
LEMMA TakeOne ==
    ASSUME NEW M, NEW s \in Seq(M), s # <<>>
    PROVE  /\ Head(s) \in M /\ Head(s) = s[1] /\ Len(s) \in Nat /\ Len(s) >= 1
           /\ Tail(s) \in Seq(M) /\ Len(Tail(s)) = Len(s) - 1
           /\ \A i \in 1 .. Len(s) - 1 : Tail(s)[i] = s[i + 1]
  OBVIOUS

\* What appending leaves, and adds.
LEMMA AddSome ==
    ASSUME NEW M, NEW s \in Seq(M), NEW t \in Seq(M)
    PROVE  /\ s \o t \in Seq(M) /\ Len(s \o t) = Len(s) + Len(t)
           /\ Len(s) \in Nat /\ Len(t) \in Nat
           /\ \A i \in 1 .. Len(s) + Len(t) : (s \o t)[i] = IF i <= Len(s) THEN s[i] ELSE t[i - Len(s)]
  BY ConcatProperties

\* The same for one element.
LEMMA AddOne ==
    ASSUME NEW M, NEW s \in Seq(M), NEW t \in Seq(M)
    PROVE  Len(t) = 1 => /\ Len(s \o t) = Len(s) + 1
                         /\ \A i \in 1 .. Len(s) : (s \o t)[i] = s[i]
                         /\ (s \o t)[Len(s) + 1] = t[1]
  <1>0. /\ Len(s) \in Nat /\ Len(s \o t) = Len(s) + Len(t)
        /\ \A i \in 1 .. Len(s) + Len(t) : (s \o t)[i] = IF i <= Len(s) THEN s[i] ELSE t[i - Len(s)]
    BY AddSome
  <1> HAVE Len(t) = 1
  <1>1. /\ Len(s) \in Nat /\ Len(s \o t) = Len(s) + 1
        /\ \A i \in 1 .. Len(s) + 1 : (s \o t)[i] = IF i <= Len(s) THEN s[i] ELSE t[i - Len(s)]
    BY <1>0
  <1>2. Len(s) + 1 \in 1 .. Len(s) + 1 /\ ~(Len(s) + 1 <= Len(s)) /\ (Len(s) + 1) - Len(s) = 1
    BY <1>1
  <1>3. (s \o t)[Len(s) + 1] = t[1]
    BY <1>1, <1>2
  <1> QED BY <1>1, <1>3

\* The messages that are sent.
LEMMA Messages ==
    /\ \A k \in {"env", "end", "verify", "compile", "chunk"} : Plain(k) \in ToMsg /\ <<Plain(k)>> \in Seq(ToMsg)
    /\ <<Plain("env"), Plain("end"), Plain("verify")>> \in Seq(ToMsg)
    /\ \A k \in {"status", "chunk", "end"} : Plain(k) \in FromMsg /\ <<Plain(k)>> \in Seq(FromMsg)
    /\ \A k : Plain(k).kind = k
  <1>1. \A k \in {"env", "end", "verify", "compile", "chunk"} : Plain(k) \in ToMsg
    BY DEF Plain, ToMsg
  <1>2. \A k \in {"status", "chunk", "end"} : Plain(k) \in FromMsg
    BY DEF Plain, FromMsg
  <1>3. \A k : Plain(k).kind = k
    BY DEF Plain
  <1> HIDE DEF Plain
  <1> QED BY <1>1, <1>2, <1>3

\* The chunks of a file, and its end.
LEMMA ChunksType ==
    /\ Chunks \in Seq(FromMsg) /\ Len(Chunks) = Object + 1
    /\ \A i \in 1 .. Object : Chunks[i].kind = "chunk"
    /\ Chunks[Object + 1].kind = "end"
  <1> DEFINE c == [i \in 1 .. Object |-> Plain("chunk")]
             e == <<Plain("end")>>
  <1>1. Plain("chunk") \in FromMsg /\ e \in Seq(FromMsg) /\ Len(e) = 1 /\ e[1] = Plain("end")
        /\ Plain("chunk").kind = "chunk" /\ Plain("end").kind = "end"
    BY Messages
  <1>2. c \in Seq(FromMsg) /\ Len(c) = Object /\ Object \in Nat
    BY <1>1, SizeAssumption
  <1>3. \A i \in 1 .. Object : c[i] = Plain("chunk")
    OBVIOUS
  <1>4. Chunks = c \o e
    BY DEF Chunks
  <1> HIDE DEF c, e
  <1>5. /\ Chunks \in Seq(FromMsg) /\ Len(Chunks) = Object + 1
        /\ \A i \in 1 .. Object : Chunks[i] = c[i]
        /\ Chunks[Object + 1] = e[1]
    <2>1. /\ Chunks \in Seq(FromMsg) /\ Len(Chunks) = Len(c) + Len(e)
          /\ \A i \in 1 .. Len(c) + Len(e) : Chunks[i] = IF i <= Len(c) THEN c[i] ELSE e[i - Len(c)]
      BY <1>1, <1>2, <1>4, AddSome
    <2>2. Object + 1 \in 1 .. Object + 1 /\ ~(Object + 1 <= Object) /\ Object + 1 - Object = 1
      BY <1>2
    <2>3. Chunks[Object + 1] = e[1]
      BY <1>1, <1>2, <2>1, <2>2
    <2> QED BY <1>1, <1>2, <2>1, <2>3
  <1> QED BY <1>1, <1>2, <1>3, <1>5

-----------------------------------------------------------------------------
\* What a step of the client does to the connection.
LEMMA ClientLink ==
    ASSUME Types, Client
    PROVE  /\ link' \in {"none", "up", "cut", "closed", "ended"}
           /\ to' \in Seq(ToMsg) /\ from' \in Seq(FromMsg)
  <1>1. ASSUME ClosedByClient
        PROVE  link' \in {"none", "up", "cut", "closed", "ended"} /\ from' \in Seq(FromMsg)
    BY <1>1 DEF ClosedByClient, Types
  <1>2. ASSUME NEW ms \in Seq(ToMsg), SentByClient(ms) PROVE to' \in Seq(ToMsg)
    BY <1>2, AddSome DEF SentByClient, Types
  <1>3. from # <<>> => Tail(from) \in Seq(FromMsg)
    BY DEF Types
  <1>4. CASE main \/ get_server \/ maybe_build_local \/ again \/ build_local
    BY <1>4 DEF main, get_server, maybe_build_local, again, build_local, Apart, Types
  <1>5. CASE connect
    <2>1. <<>> \in Seq(ToMsg) /\ <<>> \in Seq(FromMsg)
      OBVIOUS
    <2> QED BY <1>5, <2>1 DEF connect, Apart, Types
  <1>6. CASE TransferEnv
    BY <1>1, <1>2, <1>6, Messages DEF TransferEnv, Fallback, Types
  <1>7. CASE VerifyEnv
    BY <1>1, <1>3, <1>7 DEF VerifyEnv, Fallback, Types
  <1>8. CASE CompileFile
    BY <1>1, <1>2, <1>8, Messages DEF CompileFile, Fallback, Types
  <1>9. CASE write_fd_to_server
    BY <1>1, <1>2, <1>9, Messages DEF write_fd_to_server, Fallback, Types
  <1>10. CASE WaitForCpp
    BY <1>1, <1>2, <1>10, Messages DEF WaitForCpp, Fallback, Types
  <1>11. CASE WaitForResult
    BY <1>1, <1>3, <1>11 DEF WaitForResult, Fallback, Types
  <1>12. CASE receive_file
    BY <1>1, <1>3, <1>12 DEF receive_file, Fallback, Types
  <1> QED BY <1>4, <1>5, <1>6, <1>7, <1>8, <1>9, <1>10, <1>11, <1>12 DEF Client

\* What it does to the client and its files.
LEMMA ClientTypes ==
    ASSUME Types, Client
    PROVE  /\ client' \in ClientState /\ output' \in [Files -> Contained]
           /\ UNCHANGED <<world, compiler>> /\ server' \in ServerState
  <1>1. client \in ClientState /\ output \in [Files -> Contained] /\ server \in ServerState
    BY DEF Types
  <1>2. \A pc \in ClientPc : Go(pc) => client' \in ClientState
    BY <1>1 DEF Go, ClientState
  <1>3. \A code \in Nat : Exit(code) => client' \in ClientState
    BY <1>1 DEF Exit, ClientState, ClientPc
  <1>4. Fallback => client' \in ClientState
    BY <1>1 DEF Fallback, ClientState, ClientPc
  <1>5. {0, 1, EXIT_DISTCC_FAILED} \subseteq Nat
    BY CodesAreNumbers DEF Codes
  <1>6. \A ok : BuiltHere(ok) => output' \in [Files -> Contained]
    BY <1>1 DEF BuiltHere, Contained
  <1>7. CASE main \/ get_server \/ maybe_build_local \/ again \/ build_local
    <2>1. UNCHANGED <<world, compiler, server>>
      BY <1>7 DEF main, get_server, maybe_build_local, again, build_local, ClientUnchanged
    <2>2. CASE main
      BY <1>1, <1>2, <2>1, <2>2 DEF main, ClientPc, Unconnected
    <2>3. CASE get_server
      BY <1>1, <1>2, <2>1, <2>3 DEF get_server, ClientPc, Unconnected, ClientState
    <2>4. CASE maybe_build_local
      BY <1>1, <1>2, <1>3, <1>5, <1>6, <2>1, <2>4 DEF maybe_build_local, ClientPc, Unconnected
    <2>5. CASE again
      BY <1>1, <1>2, <2>1, <2>5 DEF again, ClientPc
    <2>6. CASE build_local
      BY <1>1, <1>2, <1>3, <1>5, <1>6, <2>1, <2>6 DEF build_local, ClientPc
    <2> QED BY <1>7, <2>2, <2>3, <2>4, <2>5, <2>6
  <1>8. CASE connect
    BY <1>1, <1>2, <1>8 DEF connect, ClientPc, Asking, ServerState, ServerPc
  <1>9. CASE TransferEnv \/ VerifyEnv \/ CompileFile \/ write_fd_to_server \/ WaitForCpp
    <2>1. UNCHANGED <<world, compiler, server, output>>
      BY <1>9 DEF TransferEnv, VerifyEnv, CompileFile, write_fd_to_server, WaitForCpp, ClientUnchanged
    <2>2. CASE TransferEnv \/ VerifyEnv \/ CompileFile
      BY <1>1, <1>2, <1>3, <1>4, <1>5, <2>1, <2>2 DEF TransferEnv, VerifyEnv, CompileFile, ClientPc, Asking
    <2>3. CASE write_fd_to_server
      BY <1>1, <1>4, <2>1, <2>3 DEF write_fd_to_server, ClientState
    <2>4. CASE WaitForCpp
      BY <1>1, <1>2, <1>3, <1>4, <1>5, <2>1, <2>4 DEF WaitForCpp, ClientPc
    <2> QED BY <1>9, <2>2, <2>3, <2>4
  <1>10. CASE WaitForResult
    <2>1. UNCHANGED <<world, compiler, server, output>>
      BY <1>10 DEF WaitForResult, ClientUnchanged
    <2>2. ASSUME from # <<>>, Kind(from) = "result"
          PROVE  Head(from) \in Answer /\ Head(from).status \in Nat /\ Head(from).dwo \in BOOLEAN
      BY <2>2, TakeOne DEF Types, Kind, FromMsg, Answer
    <2> QED BY <1>1, <1>3, <1>4, <1>10, <2>1, <2>2 DEF WaitForResult, ClientState, ClientPc, Files
  <1>11. CASE receive_file
    <2>1. UNCHANGED <<world, compiler, server>>
      BY <1>11 DEF receive_file, ClientUnchanged
    <2>2. Contents(client.tmp) \in Contained
      BY DEF Contents, Contained
    <2>3. [output EXCEPT ![client.file] = Contents(client.tmp)] \in [Files -> Contained]
      BY <1>1, <2>2
    <2>4. output' \in [Files -> Contained]
      BY <1>1, <1>11, <2>3 DEF receive_file
    <2>5. /\ [client EXCEPT !.tmp = client.tmp + 1] \in ClientState
          /\ [client EXCEPT !.file = "dwo", !.tmp = 0, !.more = FALSE] \in ClientState
      <3>1. client.tmp \in Nat /\ client.tmp + 1 \in Nat
        BY <1>1 DEF ClientState
      <3>2. [client EXCEPT !.tmp = client.tmp + 1] \in ClientState
        <4> DEFINE n == client.tmp + 1
        <4> HIDE DEF n
        <4>1. n \in Nat
          BY <3>1 DEF n
        <4>2. [client EXCEPT !.tmp = n] \in ClientState
          BY <1>1, <4>1 DEF ClientState
        <4> QED BY <4>2 DEF n
      <3> QED BY <1>1, <3>1, <3>2 DEF ClientState, Files
    <2>6. client' \in ClientState
      BY <1>3, <1>4, <1>5, <1>11, <2>5 DEF receive_file
    <2> QED BY <1>1, <2>1, <2>4, <2>6
  <1> QED BY <1>7, <1>8, <1>9, <1>10, <1>11 DEF Client

\* What a step of the server does to its own state and to the compiler.
LEMMA ServerTypes ==
    ASSUME Types, Server
    PROVE  server' \in ServerState /\ compiler' \in CompilerState /\ UNCHANGED <<world, client, output>>
  <1>0. server \in ServerState /\ compiler \in CompilerState
    BY DEF Types
  <1>1. UNCHANGED <<world, client, output>>
    BY DEF Server, daemon, install, handle_connection, ReceiveInput, Poll, PollTimeout, Reply,
           write_output_file, ServerUnchanged
  <1>2. \A pc \in ServerPc : ServerGo(pc) => server' \in ServerState
    BY <1>0 DEF ServerGo, ServerState
  <1>3. Kill => compiler' \in CompilerState
    BY <1>0 DEF Kill, CompilerState
  <1>4. \A code, said : Throw(code, said) => server' \in ServerState
    BY <1>2 DEF Throw, ServerPc
  <1>5. /\ {EXIT_DISTCC_FAILED, EXIT_COMPILER_CRASHED, EXIT_OUT_OF_MEMORY, EXIT_IO_ERROR,
             EXIT_COMPILER_MISSING, EXIT_CLIENT_KILLED, 0, 1} \subseteq Nat
        /\ Hows \subseteq Nat
    BY CodesAreNumbers DEF Codes
  <1>6. CASE daemon \/ install \/ write_output_file
    <2>1. CASE daemon
      BY <1>0, <1>1, <1>2, <2>1 DEF daemon, ServerPc
    <2>2. CASE install
      BY <1>0, <1>1, <1>2, <2>2 DEF install, ServerPc, ServerState
    <2>3. CASE write_output_file
      BY <1>0, <1>1, <1>2, <2>3 DEF write_output_file, ServerPc
    <2> QED BY <1>1, <1>6, <2>1, <2>2, <2>3
  <1>7. CASE handle_connection
    <2>0. ASSUME NEW ret \in Nat, NEW obj_file \in {"compiled", "empty", "missing"}, NoCompiler(ret, obj_file)
          PROVE  server' \in ServerState
      BY <1>0, <2>0 DEF NoCompiler, ServerState, ServerPc
    <2>1. server' \in ServerState
      <3>1. OutOfMemory \subseteq Nat
        BY <1>5 DEF Hows
      <3>2. (IF world.dwo THEN "missing" ELSE "empty") \in {"compiled", "empty", "missing"}
        OBVIOUS
      <3> QED BY <1>2, <1>4, <1>5, <1>7, <2>0, <3>1, <3>2 DEF handle_connection, work_it, ServerPc
    <2>2. compiler' \in CompilerState
      BY <1>0, <1>7 DEF handle_connection, work_it, NoCompiler, CompilerState
    <2> QED BY <1>1, <2>1, <2>2
  <1>8. CASE ReceiveInput
    <2>1. \A code \in Nat : LoseClient(code) => server' \in ServerState
      BY <1>0 DEF LoseClient, ServerState, ServerPc
    <2>2. /\ [server EXCEPT !.pc = "poll", !.input_complete = TRUE, !.sock_in = FALSE] \in ServerState
          /\ [server EXCEPT !.pc = "poll", !.fcmsg = TRUE] \in ServerState
      BY <1>0 DEF ServerState, ServerPc
    <2>3. server' \in ServerState
      BY <1>2, <1>5, <1>8, <2>1, <2>2 DEF ReceiveInput, ServerPc
    <2>4. compiler' \in CompilerState
      BY <1>0, <1>3, <1>8 DEF ReceiveInput, LoseClient
    <2> QED BY <1>1, <2>3, <2>4
  <1>9. CASE Poll
    <2>1. compiler.how \in Nat /\ server.return_value \in Nat /\ compiler.read \in Nat /\ compiler.pending \in Nat
      BY <1>0, <1>5 DEF ServerState, CompilerState
    <2>2. compiler.read + (IF DiagsReady THEN 1 ELSE 0) \in Nat
      BY <2>1
    <2>3. \A st, ret, stat \in Nat : WorkDone(st, ret, stat) => server' \in ServerState
      <3> DEFINE n == compiler.read + (IF DiagsReady THEN 1 ELSE 0)
      <3>1. \A st, ret, stat \in Nat :
              WorkDone(st, ret, stat) =>
                server' = [server EXCEPT !.pc = "reply", !.status = st, !.stat = stat, !.err = n, !.return_value = ret]
        BY DEF WorkDone
      <3>2. n \in Nat
        BY <2>2
      <3> HIDE DEF n
      <3>3. \A st, ret, stat \in Nat :
              [server EXCEPT !.pc = "reply", !.status = st, !.stat = stat, !.err = n, !.return_value = ret] \in ServerState
        <4> TAKE st, ret, stat \in Nat
        <4> QED BY <1>0, <3>2 DEF ServerState, ServerPc
      <3> TAKE st, ret, stat \in Nat
      <3> HAVE WorkDone(st, ret, stat)
      <3>4. server' = [server EXCEPT !.pc = "reply", !.status = st, !.stat = stat, !.err = n, !.return_value = ret]
        BY <3>1
      <3> QED BY <3>3, <3>4
    <2>4. Death => server' \in ServerState
      BY <1>5, <2>1, <2>3 DEF Death
    <2>5. \A ret \in Nat : [server EXCEPT !.pc = "recv", !.fcmsg = FALSE, !.sock_in = FALSE,
                                          !.return_value = ret] \in ServerState
      BY <1>0 DEF ServerState, ServerPc
    <2>6. \A b \in BOOLEAN : [server EXCEPT !.pc = "recv", !.fcmsg = b] \in ServerState
      BY <1>0 DEF ServerState, ServerPc
    <2>7. (server.fcmsg /\ server.sock_in /\ ~InputReady) \in BOOLEAN
      OBVIOUS
    <2>8. (IF server.input_complete THEN EXIT_COMPILER_CRASHED ELSE server.return_value) \in Nat
      BY <1>5, <2>1
    <2>9. server' \in ServerState
      <3>1. CASE InputReady /\ Ended
        BY <1>9, <2>5, <2>8, <3>1 DEF Poll
      <3>2. CASE ~(InputReady /\ Ended) /\ DeathReady
        BY <1>9, <2>4, <3>2 DEF Poll
      <3>3. CASE ~(InputReady /\ Ended) /\ ~DeathReady
        BY <1>9, <2>6, <2>7, <3>3 DEF Poll
      <3> QED BY <3>1, <3>2, <3>3
    <2>10. compiler' \in CompilerState
      <3>1. CASE InputReady /\ Ended
        BY <1>3, <1>9, <3>1 DEF Poll
      <3>2. CASE ~(InputReady /\ Ended)
        <4> DEFINE a == IF InputReady THEN 1 ELSE compiler.stdin
                   b == IF DiagsReady THEN compiler.pending - 1 ELSE compiler.pending
                   c == IF DiagsReady THEN compiler.read + 1 ELSE compiler.read
        <4>1. a \in Nat /\ b \in Nat /\ c \in Nat
          BY <1>0, <2>1 DEF CompilerState, DiagsReady
        <4>2. compiler' = [compiler EXCEPT !.stdin = a, !.pending = b, !.read = c]
          BY <1>9, <3>2 DEF Poll
        <4> HIDE DEF a, b, c
        <4> QED BY <1>0, <4>1, <4>2 DEF CompilerState
      <3> QED BY <3>1, <3>2
    <2> QED BY <1>1, <2>9, <2>10
  <1>10. CASE PollTimeout
    BY <1>0, <1>1, <1>3, <1>5, <1>10 DEF PollTimeout, ServerState, ServerPc
  <1>11. CASE Reply
    <2>1. [server EXCEPT !.pc = "files", !.answered = TRUE] \in ServerState /\ server.return_value \in Nat
      BY <1>0 DEF ServerState, ServerPc
    <2> QED BY <1>0, <1>1, <1>4, <1>5, <1>11, <2>1 DEF Reply
  <1> QED BY <1>6, <1>7, <1>8, <1>9, <1>10, <1>11 DEF Server

\* What it does to the connection.
LEMMA ServerLink ==
    ASSUME Types, Server
    PROVE  /\ link' \in {"none", "up", "cut", "closed", "ended"}
           /\ to' \in Seq(ToMsg) /\ from' \in Seq(FromMsg)
  <1>0. /\ link \in {"none", "up", "cut", "closed", "ended"} /\ to \in Seq(ToMsg) /\ from \in Seq(FromMsg)
        /\ <<>> \in Seq(ToMsg) /\ <<>> \in Seq(FromMsg)
    BY DEF Types
  <1>1. ASSUME ClosedByServer
        PROVE  link' \in {"none", "up", "cut", "closed", "ended"} /\ to' \in Seq(ToMsg)
    BY <1>0, <1>1 DEF ClosedByServer
  <1>2. ASSUME NEW STATE ms, ms \in Seq(FromMsg), SentByServer(ms) PROVE from' \in Seq(FromMsg)
    BY <1>0, <1>2, AddSome DEF SentByServer
  <1>3. to # <<>> => Tail(to) \in Seq(ToMsg)
    BY <1>0
  <1>4. ASSUME NEW STATE code, NEW ms \in Seq(FromMsg), Throw(code, ms)
        PROVE  /\ link' \in {"none", "up", "cut", "closed", "ended"}
               /\ to' \in Seq(ToMsg) /\ from' \in Seq(FromMsg)
    BY <1>0, <1>1, <1>4, AddSome DEF Throw
  <1>5. CASE daemon
    <2>1. ASSUME \E ok \in {server.installed, FALSE}, why \in {<<>>, <<Plain("status")>>} :
                    SentByServer((IF ok THEN <<>> ELSE why) \o <<[kind |-> "verified", ok |-> ok]>>)
          PROVE  from' \in Seq(FromMsg)
      <3>1. PICK ok \in {server.installed, FALSE}, why \in {<<>>, <<Plain("status")>>} :
                SentByServer((IF ok THEN <<>> ELSE why) \o <<[kind |-> "verified", ok |-> ok]>>)
        BY <2>1
      <3> DEFINE m == [kind |-> "verified", ok |-> ok]
                 w == IF ok THEN <<>> ELSE why
      <3>2. m \in FromMsg
        BY DEF Types, ServerState, FromMsg
      <3>3. w \in Seq(FromMsg)
        BY <1>0, Messages
      <3>4. SentByServer(w \o <<m>>)
        BY <3>1
      <3> HIDE DEF m, w
      <3>5. <<m>> \in Seq(FromMsg)
        BY <3>2
      <3>6. w \o <<m>> \in Seq(FromMsg)
        BY <3>3, <3>5, AddSome
      <3> QED BY <1>2, <3>4, <3>6
    <2> QED BY <1>0, <1>1, <1>3, <1>5, <2>1 DEF daemon, Take
  <1>6. CASE install
    BY <1>0, <1>1, <1>3, <1>6 DEF install, Take
  <1>7. CASE handle_connection
    BY <1>0, <1>2, <1>4, <1>7, Messages DEF handle_connection, work_it, NoCompiler
  <1>8. CASE ReceiveInput \/ Poll \/ PollTimeout
    BY <1>0, <1>3, <1>8 DEF ReceiveInput, Poll, PollTimeout, Take
  <1>9. CASE Reply
    <2> DEFINE oom == server.return_value \in OutOfMemory
               dwo == world.dwo /\ Compiled
               r == Result(server.status, oom, server.err, dwo)
    <2>1. r \in FromMsg
      <3>1. server.status \in Nat /\ server.err \in Nat /\ dwo \in BOOLEAN /\ oom \in BOOLEAN
        BY DEF Types, ServerState, Worlds
      <3> HIDE DEF oom, dwo
      <3> QED BY <3>1 DEF Result, FromMsg, Answer
    <2> HIDE DEF r
    <2>2. <<r>> \in Seq(FromMsg)
      BY <2>1
    <2>3. SentByServer(<<r>>) => from' \in Seq(FromMsg)
      BY <1>2, <2>2
    <2> QED BY <1>0, <1>4, <1>9, <2>3 DEF Reply, r
  <1>10. CASE write_output_file
    <2> DEFINE all == IF server.status # 0 THEN <<>> ELSE FilesOfResult
    <2>0. FilesOfResult \in Seq(FromMsg)
      <3>1. server.obj_file \in {"compiled", "empty", "missing"}
        BY DEF Types, ServerState
      <3> QED BY <3>1, Messages, ChunksType, AddSome DEF FilesOfResult
    <2>1. all \in Seq(FromMsg)
      BY <1>0, <2>0
    <2>2. PICK n \in 0 .. Len(all) : SentByServer(SubSeq(all, 1, n))
      BY <1>10 DEF write_output_file
    <2> HIDE DEF all
    <2>3. SubSeq(all, 1, n) \in Seq(FromMsg)
      BY <2>1, SubSeqProperties
    <2> QED BY <1>1, <1>2, <1>10, <2>2, <2>3 DEF write_output_file
  <1> QED BY <1>5, <1>6, <1>7, <1>8, <1>9, <1>10 DEF Server

\* The compiler, and a cut.
LEMMA OthersTypes ==
    ASSUME Types, Compiler \/ CompilerDies \/ Cut
    PROVE  Types'
  <1>1. ASSUME NEW how \in Hows, CompilerEnds(how) PROVE Types'
    BY <1>1 DEF CompilerEnds, Types, CompilerState
  <1>2. CASE CompilerReads \/ CompilerWrites
    <2>1. compiler \in CompilerState /\ compiler.pending + 1 \in Nat
      BY DEF Types, CompilerState
    <2>2. \A n \in Nat : /\ [compiler EXCEPT !.pending = n] \in CompilerState
                         /\ [compiler EXCEPT !.stdin = n] \in CompilerState
      BY <2>1 DEF CompilerState
    <2>3. compiler' \in CompilerState
      BY <1>2, <2>1, <2>2 DEF CompilerReads, CompilerWrites
    <2> QED BY <1>2, <2>3 DEF CompilerReads, CompilerWrites, Types
  <1>3. CASE Cut
    <2>1. <<>> \in Seq(ToMsg) /\ <<>> \in Seq(FromMsg)
      OBVIOUS
    <2> QED BY <1>3, <2>1 DEF Cut, Types
  <1> QED BY <1>1, <1>2, <1>3 DEF Compiler, CompilerDies, Hows

\* Every step keeps the types.
LEMMA TypesInductive == Types /\ [Next]_vars => Types'
  <1> SUFFICES ASSUME Types, [Next]_vars PROVE Types'
    OBVIOUS
  <1>1. CASE Client
    BY <1>1, ClientLink, ClientTypes DEF Types
  <1>2. CASE Server
    BY <1>2, ServerLink, ServerTypes DEF Types
  <1>3. CASE Compiler \/ CompilerDies \/ Cut
    BY <1>3, OthersTypes
  <1>4. CASE UNCHANGED vars
    BY <1>4 DEF vars, Types
  <1> QED BY <1>1, <1>2, <1>3, <1>4 DEF Next, Done
-----------------------------------------------------------------------------
(* The inductive invariant *)

\* Nothing was compiled yet.
Fresh == ~server.answered /\ ~server.input_complete /\ compiler.state = "none" /\ Compiled

\* How far client, server and compiler are when one of them is where it is.
Phases ==
    /\ client.pc \in Unconnected => server.pc = "idle" /\ link = "none" /\ to = <<>> /\ from = <<>> /\ Fresh
    /\ client.pc \in Asking => server.pc \in {"idle", "daemon", "install"} /\ Fresh
    /\ server.pc \in {"daemon", "install", "check"} => Fresh
    /\ server.pc \in {"recv", "poll"} => ~server.answered /\ compiler.state # "none"
    /\ server.pc = "reply" => ~server.answered /\ (Compiled => server.input_complete /\ Ended)
    /\ server.pc = "files" => server.answered
    /\ server.answered => server.pc \in {"files", "idle"} /\ (Compiled => server.input_complete /\ Ended)
    /\ client.exit # None => At("done")

\* The source follows the request to compile, and ends when the client says so.
InputOrder ==
    /\ client.pc \in Unconnected \cup Asking => \A i \in 1 .. Len(to) : to[i].kind # "compile"
    /\ At("source") =>
         /\ \A i, j \in 1 .. Len(to) : i < j /\ to[i].kind = "compile" => to[j].kind = "chunk"
         /\ server.pc \notin {"idle", "daemon", "install"} => \A i \in 1 .. Len(to) : to[i].kind = "chunk"
         /\ server.client_fd => ~server.input_complete

\* A status says of the source what is true, if there was a compiler.
Honest(status, oom) ==
    /\ status = 0 => world.right \/ ~Compiled
    /\ status # 0 /\ ~oom =>
         \/ ~world.right
         \/ status = EXIT_OUT_OF_MEMORY /\ Ended /\ compiler.how = EXIT_COMPILER_CRASHED

\* So do the compiler, the child, its result, and the client.
StatusTrue ==
    /\ Ended => (compiler.how = 0 => world.right) /\ (compiler.how = 1 => ~world.right)
    /\ server.pc = "reply" /\ server.return_value \in {0} \cup OutOfMemory =>
         Honest(server.status, server.return_value \in OutOfMemory)
    /\ \A i \in 1 .. Len(from) :
          from[i].kind = "result" => Honest(from[i].status, from[i].oom) /\ (from[i].dwo = world.dwo \/ ~Compiled)
    /\ At("receive") => world.right \/ ~Compiled
    /\ client.exit \in {None, EXIT_DISTCC_FAILED} \/ Honest(client.exit, FALSE)

\* What follows a result: the n-th message.
Expected(n) == IF n = Object + 1 \/ n = 2 * (Object + 1) THEN "end" ELSE "chunk"

\* How many of them the client has read.
Position == IF client.file = "obj" THEN client.tmp ELSE Object + 1 + client.tmp

\* The files follow the result, and the client knows how much of them it has; without a compiler
\* there is nothing of them.
FilesInOrder ==
    /\ ~server.answered => ~At("receive") /\ \A i \in 1 .. Len(from) : from[i].kind \notin {"result", "chunk"}
    /\ server.pc = "files" =>
         /\ \A i \in 1 .. Len(from) : from[i].kind = "result" => i = Len(from)
         /\ At("receive") => from = <<>> /\ client.tmp = 0 /\ client.file = "obj"
    /\ Compiled => \A i, j \in 1 .. Len(from) : i < j /\ from[i].kind = "result" => from[j].kind = Expected(j - i)
    /\ Compiled /\ At("receive") =>
         /\ client.tmp <= Object
         /\ \A i \in 1 .. Len(from) : from[i].kind = Expected(Position + i)
    /\ ~Compiled =>
         /\ \A i \in 1 .. Len(from) : from[i].kind # "chunk"
         /\ At("receive") => client.tmp = 0

\* What the client has on its disk.
OutputRight ==
    /\ \A f \in Files : output[f] # "part" /\ (output[f] = "empty" => ~Compiled)
    /\ Compiled /\ At("receive") /\ client.file = "obj" => client.more = world.dwo
    /\ Compiled /\ At("receive") /\ client.file = "dwo" => ~client.more /\ output["obj"] = "object"
    /\ Compiled /\ client.exit = 0 => output["obj"] = "object" /\ (world.dwo => output["dwo"] = "object")

CompileInv == Types /\ Phases /\ InputOrder /\ StatusTrue /\ FilesInOrder /\ OutputRight

-----------------------------------------------------------------------------
(* Phases *)

\* The client goes on, the server and the compiler stay.
LEMMA ClientPhases ==
    ASSUME Types, Phases, Client
    PROVE  Phases'
  <1>0. client \in ClientState /\ server \in ServerState
    BY DEF Types
  <1> USE DEF ClientState, ServerState
  <1>1. client.exit = None \/ At("done")
    BY DEF Phases
  <1>2. CASE main \/ get_server \/ maybe_build_local
    <2>1. UNCHANGED <<link, to, from, server, compiler>>
      BY <1>2 DEF main, get_server, maybe_build_local, Apart, ClientUnchanged
    <2>2. client.pc \in Unconnected /\ client'.pc \notin Asking
      BY <1>0, <1>2 DEF main, get_server, maybe_build_local, At, Go, Exit, Unconnected, Asking
    <2>3. client'.exit # None => client'.pc = "done"
      BY <1>0, <1>1, <1>2 DEF main, get_server, maybe_build_local, At, Go, Exit
    <2> QED BY <2>1, <2>2, <2>3 DEF Phases, At, Fresh, Ended, Compiled
  <1>3. CASE connect
    <2>1. UNCHANGED compiler /\ client.pc = "connect" /\ client'.pc \notin Unconnected
      BY <1>0, <1>3 DEF connect, At, Go, Unconnected
    <2>2. client'.exit # None => client'.pc = "done"
      BY <1>0, <1>1, <1>3 DEF connect, At, Go
    <2>3. \/ UNCHANGED server /\ client'.pc = "again"
          \/ server' = [server EXCEPT !.pc = "daemon"]
      BY <1>0, <1>3 DEF connect, Go
    <2> QED BY <1>0, <2>1, <2>2, <2>3 DEF Phases, At, Fresh, Ended, Compiled, Unconnected, Asking
  <1>4. CASE TransferEnv \/ VerifyEnv \/ CompileFile
    <2>1. UNCHANGED <<server, compiler>>
      BY <1>4 DEF TransferEnv, VerifyEnv, CompileFile, ClientUnchanged
    <2>2. client.pc \in Asking /\ client'.pc \notin Unconnected
      BY <1>0, <1>4 DEF TransferEnv, VerifyEnv, CompileFile, At, Go, Exit, Fallback, Asking, Unconnected
    <2>3. client'.exit # None => client'.pc = "done"
      BY <1>0, <1>1, <1>4 DEF TransferEnv, VerifyEnv, CompileFile, At, Go, Exit, Fallback
    <2> QED BY <2>1, <2>2, <2>3 DEF Phases, At, Fresh, Ended, Compiled
  <1>5. CASE write_fd_to_server \/ WaitForCpp \/ WaitForResult \/ receive_file \/ again \/ build_local
    <2>1. UNCHANGED <<server, compiler>>
      BY <1>5 DEF write_fd_to_server, WaitForCpp, WaitForResult, receive_file, again, build_local, ClientUnchanged
    <2>2. client'.pc \notin Unconnected \cup Asking /\ (client'.exit # None => client'.pc = "done")
      <3>1. CASE write_fd_to_server \/ WaitForCpp
        BY <1>0, <1>1, <3>1 DEF write_fd_to_server, WaitForCpp, At, Go, Exit, Fallback, Asking, Unconnected
      <3>2. CASE WaitForResult
        BY <1>0, <1>1, <3>2 DEF WaitForResult, At, Exit, Fallback, Asking, Unconnected
      <3>3. CASE receive_file
        BY <1>0, <1>1, <3>3 DEF receive_file, At, Exit, Fallback, Asking, Unconnected
      <3>4. CASE again \/ build_local
        BY <1>0, <1>1, <3>4 DEF again, build_local, At, Go, Exit, Asking, Unconnected
      <3> QED BY <1>5, <3>1, <3>2, <3>3, <3>4
    <2> QED BY <2>1, <2>2 DEF Phases, At, Fresh, Ended, Compiled
  <1> QED BY <1>2, <1>3, <1>4, <1>5 DEF Client

\* The server goes on.
LEMMA ServerPhases ==
    ASSUME Types, Phases, InputOrder, Server
    PROVE  Phases'
  <1>0. client \in ClientState /\ server \in ServerState /\ compiler \in CompilerState
    BY DEF Types
  <1>1. UNCHANGED client
    BY DEF Server, daemon, install, handle_connection, ReceiveInput, Poll, PollTimeout, Reply,
           write_output_file, ServerUnchanged
  <1>2. server.pc # "idle"
    BY DEF Server, daemon, install, handle_connection, ReceiveInput, Poll, PollTimeout, Reply,
           write_output_file, ServerAt
  <1>3. client.pc \notin Unconnected
    BY <1>2 DEF Phases
  <1> USE DEF ServerState, CompilerState
  <1>4. CASE daemon \/ install
    <2>1. UNCHANGED compiler /\ server.pc \in {"daemon", "install"}
      BY <1>4 DEF daemon, install, ServerAt
    <2>2. /\ server'.answered = server.answered /\ server'.input_complete = server.input_complete
          /\ server'.obj_file = server.obj_file
          /\ server'.pc \in {"idle", "daemon", "install", "check"}
      <3>1. CASE daemon
        BY <1>0, <3>1 DEF daemon, ServerGo, ServerAt
      <3>2. CASE install
        BY <1>0, <3>2 DEF install, ServerGo, ServerAt
      <3> QED BY <1>4, <3>1, <3>2
    <2>3. server'.pc = "check" => client.pc \notin Asking
      <3> SUFFICES ASSUME server'.pc = "check" PROVE client.pc \notin Asking
        OBVIOUS
      <3>1. to # <<>> /\ Kind(to) = "compile"
        BY <1>0, <1>4 DEF daemon, install, ServerGo, ServerAt
      <3>2. 1 \in 1 .. Len(to) /\ to[1].kind = "compile"
        BY <3>1, TakeOne DEF Types, Kind
      <3> QED BY <3>2 DEF InputOrder
    <2> QED BY <1>1, <1>3, <2>1, <2>2, <2>3 DEF Phases, At, Fresh, Ended, Compiled
  <1>5. client.pc \in Asking => daemon \/ install
    BY DEF Phases, Server, handle_connection, ReceiveInput, Poll, PollTimeout, Reply, write_output_file, ServerAt
  <1>6. CASE handle_connection
    <2>1. server.pc = "check" /\ server'.answered = server.answered
      BY <1>0, <1>6 DEF handle_connection, Throw, work_it, NoCompiler, ServerGo, ServerAt
    <2>2. \/ server'.pc = "idle" /\ UNCHANGED compiler
          \/ server'.pc = "recv" /\ compiler'.state = "running"
          \/ server'.pc = "reply" /\ server'.obj_file # "compiled"
      BY <1>0, <1>6 DEF handle_connection, Throw, work_it, NoCompiler, ServerGo
    <2>3. ~server.answered /\ client.pc \notin Asking
      BY <2>1 DEF Phases, Fresh
    <2> QED BY <1>1, <1>3, <2>1, <2>2, <2>3 DEF Phases, At, Fresh, Ended, Compiled
  <1>7. CASE ReceiveInput \/ PollTimeout
    <2>1. server.pc \in {"recv", "poll"} /\ server'.pc \in {"recv", "poll"} /\ server'.answered = server.answered
      <3>1. CASE ReceiveInput
        BY <1>0, <3>1, ZenonT(60) DEF ReceiveInput, LoseClient, ServerGo, ServerAt
      <3>2. CASE PollTimeout
        BY <1>0, <3>2 DEF PollTimeout, LoseClient, ServerGo, ServerAt
      <3> QED BY <1>7, <3>1, <3>2
    <2>2. compiler'.state = compiler.state
      BY <1>0, <1>7 DEF ReceiveInput, PollTimeout, LoseClient, Kill
    <2>3. ~server.answered /\ client.pc \notin Asking /\ compiler.state # "none"
      BY <2>1 DEF Phases
    <2> QED BY <1>1, <1>3, <2>1, <2>2, <2>3 DEF Phases, At, Fresh, Ended, Compiled
  <1>8. CASE Poll
    <2>1. server.pc = "poll" /\ ~server.answered /\ client.pc \notin Asking /\ compiler.state # "none"
      BY <1>8 DEF Poll, ServerAt, Phases
    <2>2. compiler'.state = compiler.state
      BY <1>0, <1>8 DEF Poll, Kill
    <2>3. /\ server'.answered = server.answered /\ server'.pc \in {"recv", "reply"}
          /\ server'.pc = "reply" => DeathReady /\ server'.input_complete = server.input_complete
      <3>1. CASE InputReady /\ Ended
        BY <1>0, <1>8, <3>1 DEF Poll
      <3>2. CASE ~(InputReady /\ Ended) /\ DeathReady
        BY <1>0, <1>8, <3>2 DEF Poll, Death, WorkDone
      <3>3. CASE ~(InputReady /\ Ended) /\ ~DeathReady
        BY <1>0, <1>8, <3>3 DEF Poll
      <3> QED BY <3>1, <3>2, <3>3
    <2> QED BY <1>1, <1>3, <2>1, <2>2, <2>3 DEF Phases, At, Fresh, Ended, Compiled, DeathReady, Watched
  <1>9. CASE Reply \/ write_output_file
    <2>1. /\ UNCHANGED compiler /\ server.pc \in {"reply", "files"}
          /\ server'.input_complete = server.input_complete /\ server'.obj_file = server.obj_file
      BY <1>0, <1>9 DEF Reply, write_output_file, Throw, ServerGo, ServerAt
    <2>2. \/ server'.pc = "idle" /\ server'.answered = server.answered
          \/ server'.pc = "files" /\ server'.answered = TRUE
      BY <1>0, <1>9 DEF Reply, write_output_file, Throw, ServerGo, ServerAt
    <2>3. (Compiled => server.input_complete /\ Ended) /\ client.pc \notin Asking
      BY <2>1 DEF Phases
    <2> QED BY <1>1, <1>3, <2>1, <2>2, <2>3 DEF Phases, At, Fresh, Ended, Compiled
  <1> QED BY <1>4, <1>6, <1>7, <1>8, <1>9 DEF Server

\* The compiler ends once, and a cut changes only the connection.
LEMMA OthersPhases ==
    ASSUME Types, Phases, Compiler \/ CompilerDies \/ Cut
    PROVE  Phases'
  <1>1. UNCHANGED <<client, server>>
    BY DEF Compiler, CompilerDies, CompilerReads, CompilerWrites, CompilerEnds, Cut
  <1>2. CASE Compiler \/ CompilerDies
    <2>1. compiler \in CompilerState
      BY DEF Types
    <2>2. compiler.state = "running" /\ compiler'.state \in {"running", "ended"}
      BY <1>2, <2>1 DEF Compiler, CompilerDies, CompilerReads, CompilerWrites, CompilerEnds, CompilerState
    <2>3. UNCHANGED <<link, to, from>>
      BY <1>2 DEF Compiler, CompilerDies, CompilerReads, CompilerWrites, CompilerEnds
    <2> QED BY <1>1, <2>2, <2>3 DEF Phases, At, Fresh, Ended, Compiled
  <1>3. CASE Cut
    BY <1>1, <1>3 DEF Cut, Phases, At, Fresh, Ended, Compiled
  <1> QED BY <1>2, <1>3

-----------------------------------------------------------------------------
(* The order of the input *)

\* What is sent last is behind everything else.
LEMMA InputOrderClient ==
    ASSUME Types, Phases, InputOrder, Client
    PROVE  InputOrder'
  <1>0. client \in ClientState /\ server \in ServerState /\ to \in Seq(ToMsg) /\ Len(to) \in Nat
    BY DEF Types
  <1>1. CASE main \/ get_server \/ maybe_build_local
    <2>1. UNCHANGED <<to, server>> /\ client.pc \in Unconnected /\ client'.pc # "source"
      BY <1>0, <1>1 DEF main, get_server, maybe_build_local, At, Go, Exit, Unconnected, Apart, ClientUnchanged, ClientState
    <2> QED BY <2>1 DEF InputOrder, At
  <1>2. CASE connect
    <2>1. client'.pc # "source" /\ client.pc \in Unconnected /\ (to' = <<>> \/ to' = to)
      BY <1>0, <1>2 DEF connect, At, Go, Unconnected, Apart, ClientState
    <2>2. to' = <<>>
      BY <2>1 DEF Phases
    <2> QED BY <2>1, <2>2 DEF InputOrder, At
  <1>3. CASE TransferEnv \/ VerifyEnv
    <2>1. UNCHANGED server /\ client.pc \in Asking /\ client'.pc # "source"
      BY <1>0, <1>3 DEF TransferEnv, VerifyEnv, At, Go, Fallback, Asking, ClientUnchanged, ClientState
    <2>2. to' = to \/ to' = to \o <<Plain("env"), Plain("end"), Plain("verify")>>
      BY <1>3 DEF TransferEnv, VerifyEnv, Fallback, SentByClient
    <2>3. \A i \in 1 .. Len(to') : to'[i].kind # "compile"
      <3> DEFINE ms == <<Plain("env"), Plain("end"), Plain("verify")>>
      <3>1. \A i \in 1 .. Len(ms) : ms[i].kind # "compile"
        BY DEF Plain
      <3>2. ms \in Seq(ToMsg)
        BY Messages
      <3>3. \A i \in 1 .. Len(to) : to[i].kind # "compile"
        BY <2>1 DEF InputOrder
      <3>4. to' = to \/ to' = to \o ms
        BY <2>2
      <3> HIDE DEF ms
      <3> QED BY <1>0, <3>1, <3>2, <3>3, <3>4, AddSome
    <2> QED BY <2>1, <2>3 DEF InputOrder, At
  <1>4. CASE CompileFile
    <2>1. UNCHANGED server /\ client.pc \in Asking /\ client'.pc \notin Unconnected \cup Asking
      BY <1>0, <1>4 DEF CompileFile, At, Go, Exit, Fallback, Asking, Unconnected, ClientUnchanged, ClientState
    <2>2. CASE client'.pc = "source"
      <3> DEFINE ms == <<Plain("compile")>>
      <3>1. ms \in Seq(ToMsg) /\ Len(ms) = 1
        BY Messages
      <3>2. to' = to \/ to' = to \o ms
        BY <1>0, <1>4, <2>2 DEF CompileFile, Go, Exit, Fallback, SentByClient, ClientState
      <3>3. \A i \in 1 .. Len(to) : to[i].kind # "compile"
        BY <2>1 DEF InputOrder
      <3> HIDE DEF ms
      <3>4. \A i, j \in 1 .. Len(to') : i < j => to'[i].kind # "compile"
        <4>1. CASE to' = to
          BY <3>3, <4>1
        <4>2. CASE to' = to \o ms
          <5>1. Len(to') = Len(to) + 1 /\ \A i \in 1 .. Len(to) : to'[i] = to[i]
            BY <1>0, <3>1, <4>2, AddOne
          <5>2. \A i, j \in 1 .. Len(to') : i < j => i \in 1 .. Len(to)
            BY <1>0, <5>1
          <5> QED BY <3>3, <5>1, <5>2
        <4> QED BY <3>2, <4>1, <4>2
      <3>5. server'.pc \in {"idle", "daemon", "install"} /\ ~server'.input_complete
        BY <2>1 DEF Phases, Fresh
      <3> QED BY <2>1, <2>2, <3>4, <3>5 DEF InputOrder, At
    <2>3. CASE client'.pc # "source"
      BY <2>1, <2>3 DEF InputOrder, At
    <2> QED BY <2>2, <2>3
  <1>5. CASE write_fd_to_server
    <2>1. UNCHANGED server /\ At("source") /\ client'.pc \notin Unconnected \cup Asking
      BY <1>0, <1>5 DEF write_fd_to_server, At, Fallback, Asking, Unconnected, ClientUnchanged, ClientState
    <2> DEFINE ms == <<Plain("chunk")>>
    <2>2. ms \in Seq(ToMsg) /\ Len(ms) = 1 /\ ms[1].kind = "chunk"
      BY Messages
    <2>3. to' = to \/ to' = to \o ms
      BY <1>5 DEF write_fd_to_server, Fallback, SentByClient
    <2> HIDE DEF ms
    <2>4. \A i, j \in 1 .. Len(to') : i < j /\ to'[i].kind = "compile" => to'[j].kind = "chunk"
      <3>1. CASE to' = to
        BY <2>1, <3>1 DEF InputOrder
      <3>2. CASE to' = to \o ms
        <4>1. Len(to') = Len(to) + 1 /\ (\A i \in 1 .. Len(to) : to'[i] = to[i]) /\ to'[Len(to) + 1] = ms[1]
          BY <1>0, <2>2, <3>2, AddOne
        <4> SUFFICES ASSUME NEW i \in 1 .. Len(to'), NEW j \in 1 .. Len(to'), i < j, to'[i].kind = "compile"
                     PROVE  to'[j].kind = "chunk"
          OBVIOUS
        <4>2. i \in 1 .. Len(to) /\ (j \in 1 .. Len(to) \/ j = Len(to) + 1)
          BY <1>0, <4>1
        <4> QED BY <2>1, <2>2, <4>1, <4>2 DEF InputOrder
      <3> QED BY <2>3, <3>1, <3>2
    <2>5. server.pc \notin {"idle", "daemon", "install"} => \A i \in 1 .. Len(to') : to'[i].kind = "chunk"
      <3>1. CASE to' = to
        BY <2>1, <3>1 DEF InputOrder
      <3>2. CASE to' = to \o ms
        <4>1. Len(to') = Len(to) + 1 /\ (\A i \in 1 .. Len(to) : to'[i] = to[i]) /\ to'[Len(to) + 1] = ms[1]
          BY <1>0, <2>2, <3>2, AddOne
        <4> SUFFICES ASSUME server.pc \notin {"idle", "daemon", "install"}, NEW i \in 1 .. Len(to')
                     PROVE  to'[i].kind = "chunk"
          OBVIOUS
        <4>2. i \in 1 .. Len(to) \/ i = Len(to) + 1
          BY <1>0, <4>1
        <4> QED BY <2>1, <2>2, <4>1, <4>2 DEF InputOrder
      <3> QED BY <2>3, <3>1, <3>2
    <2> QED BY <2>1, <2>4, <2>5 DEF InputOrder, At
  <1>6. CASE WaitForCpp \/ WaitForResult \/ receive_file \/ again \/ build_local
    <2>1. client'.pc \notin Unconnected \cup Asking \cup {"source"}
      <3>1. CASE WaitForCpp
        BY <1>0, <3>1 DEF WaitForCpp, At, Go, Exit, Fallback, Asking, Unconnected, ClientState
      <3>2. CASE WaitForResult
        BY <1>0, <3>2 DEF WaitForResult, At, Exit, Fallback, Asking, Unconnected, ClientState
      <3>3. CASE receive_file
        BY <1>0, <3>3 DEF receive_file, At, Exit, Fallback, Asking, Unconnected, ClientState
      <3>4. CASE again \/ build_local
        BY <1>0, <3>4 DEF again, build_local, At, Go, Exit, Asking, Unconnected, ClientState
      <3> QED BY <1>6, <3>1, <3>2, <3>3, <3>4
    <2> QED BY <2>1 DEF InputOrder, At
  <1> QED BY <1>1, <1>2, <1>3, <1>4, <1>5, <1>6 DEF Client

\* What the server takes is in front of everything else.
LEMMA InputOrderServer ==
    ASSUME Types, Phases, InputOrder, Server
    PROVE  InputOrder'
  <1>0. client \in ClientState /\ server \in ServerState /\ to \in Seq(ToMsg) /\ Len(to) \in Nat
    BY DEF Types
  <1>1. UNCHANGED client
    BY DEF Server, daemon, install, handle_connection, ReceiveInput, Poll, PollTimeout, Reply,
           write_output_file, ServerUnchanged
  <1>2. to' = to \/ to' = <<>> \/ (to # <<>> /\ to' = Tail(to))
    BY DEF Server, daemon, install, handle_connection, work_it, NoCompiler, Throw, ClosedByServer, ReceiveInput, Take, Poll,
           PollTimeout, Reply, write_output_file
  <1>3. /\ Len(to') \in Nat
        /\ \A i \in 1 .. Len(to') : \E k \in 1 .. Len(to) : to'[i] = to[k]
        /\ \A i, j \in 1 .. Len(to') : i < j =>
              \E k, l \in 1 .. Len(to) : k < l /\ to'[i] = to[k] /\ to'[j] = to[l]
    <2>1. CASE to' = to
      BY <1>0, <2>1
    <2>2. CASE to' = <<>>
      BY <2>2
    <2>3. CASE to # <<>> /\ to' = Tail(to)
      <3>1. Len(to') = Len(to) - 1 /\ Len(to) >= 1 /\ \A i \in 1 .. Len(to) - 1 : to'[i] = to[i + 1]
        BY <1>0, <2>3, TakeOne
      <3>2. Len(to') \in Nat /\ \A i \in 1 .. Len(to') : i + 1 \in 1 .. Len(to) /\ to'[i] = to[i + 1]
        BY <1>0, <3>1
      <3>3. \A i, j \in 1 .. Len(to') : i < j => i + 1 < j + 1
        BY <1>0, <3>1
      <3> QED BY <3>2, <3>3
    <2> QED BY <1>2, <2>1, <2>2, <2>3
  <1>4. client.pc \in Unconnected \cup Asking => \A i \in 1 .. Len(to') : to'[i].kind # "compile"
    BY <1>3 DEF InputOrder
  <1>5. CASE At("source")
    <2>1. \A i, j \in 1 .. Len(to') : i < j /\ to'[i].kind = "compile" => to'[j].kind = "chunk"
      <3> SUFFICES ASSUME NEW i \in 1 .. Len(to'), NEW j \in 1 .. Len(to'), i < j, to'[i].kind = "compile"
                   PROVE  to'[j].kind = "chunk"
        OBVIOUS
      <3>1. PICK k, l \in 1 .. Len(to) : k < l /\ to'[i] = to[k] /\ to'[j] = to[l]
        BY <1>3
      <3> QED BY <1>5, <3>1 DEF InputOrder
    <2>2. server'.pc \notin {"idle", "daemon", "install"} => \A i \in 1 .. Len(to') : to'[i].kind = "chunk"
      <3>1. CASE server.pc \notin {"idle", "daemon", "install"}
        BY <1>3, <1>5, <3>1 DEF InputOrder
      <3>2. CASE server.pc \in {"idle", "daemon", "install"} /\ server'.pc \notin {"idle", "daemon", "install"}
        <4>1. to # <<>> /\ Kind(to) = "compile" /\ to' = Tail(to)
          BY <1>0, <3>2 DEF Server, daemon, install, handle_connection, ReceiveInput, Poll, PollTimeout, Reply,
                            write_output_file, ServerAt, ServerGo, Take, ServerState
        <4>2. /\ to[1].kind = "compile" /\ 1 \in 1 .. Len(to)
              /\ Len(to') = Len(to) - 1 /\ \A i \in 1 .. Len(to) - 1 : to'[i] = to[i + 1]
          BY <1>0, <4>1, TakeOne DEF Kind
        <4>3. \A i \in 1 .. Len(to') : i + 1 \in 1 .. Len(to) /\ 1 < i + 1 /\ to'[i] = to[i + 1]
          BY <1>0, <4>2
        <4> QED BY <1>5, <4>2, <4>3 DEF InputOrder
      <3> QED BY <3>1, <3>2
    <2>3. server'.client_fd => ~server'.input_complete
      <3>1. server.client_fd => ~server.input_complete
        BY <1>5 DEF InputOrder
      <3>2. CASE daemon \/ install \/ handle_connection
        BY <1>0, <3>1, <3>2 DEF daemon, install, handle_connection, work_it, NoCompiler, Throw, ServerGo, ServerState
      <3>3. CASE ReceiveInput
        <4>1. to # <<>> => Kind(to) = "chunk"
          <5>1. server.pc = "recv"
            BY <3>3 DEF ReceiveInput, ServerAt
          <5> QED BY <1>0, <1>5, <5>1, TakeOne DEF InputOrder, Kind
        <4> QED BY <1>0, <3>1, <3>3, <4>1 DEF ReceiveInput, LoseClient, ServerGo, ServerState
      <3>4. CASE PollTimeout
        BY <1>0, <3>1, <3>4 DEF PollTimeout, ServerState
      <3>5. CASE Poll
        BY <1>0, <3>1, <3>5 DEF Poll, Death, WorkDone, ServerState
      <3>6. CASE Reply \/ write_output_file
        BY <1>0, <3>1, <3>6 DEF Reply, write_output_file, Throw, ServerGo, ServerState
      <3> QED BY <3>2, <3>3, <3>4, <3>5, <3>6 DEF Server
    <2> QED BY <1>1, <1>4, <2>1, <2>2, <2>3 DEF InputOrder, At
  <1>6. CASE ~At("source")
    BY <1>1, <1>4, <1>6 DEF InputOrder, At
  <1> QED BY <1>5, <1>6

\* Together.
LEMMA InputInductive == Types /\ Phases /\ InputOrder /\ [Next]_vars => Phases' /\ InputOrder'
  <1> SUFFICES ASSUME Types, Phases, InputOrder, [Next]_vars PROVE Phases' /\ InputOrder'
    OBVIOUS
  <1>1. CASE Client
    BY <1>1, ClientPhases, InputOrderClient
  <1>2. CASE Server
    BY <1>2, ServerPhases, InputOrderServer
  <1>3. CASE Compiler \/ CompilerDies \/ Cut
    <2>1. UNCHANGED <<client, server>> /\ (to' = to \/ to' = <<>>)
      BY <1>3 DEF Compiler, CompilerDies, CompilerReads, CompilerWrites, CompilerEnds, Cut
    <2>2. InputOrder'
      BY <2>1 DEF InputOrder, At
    <2> QED BY <1>3, <2>2, OthersPhases
  <1>4. CASE UNCHANGED vars
    BY <1>4 DEF vars, Phases, InputOrder, At, Fresh, Ended, Compiled
  <1> QED BY <1>1, <1>2, <1>3, <1>4 DEF Next, Done

\* In the beginning.
LEMMA CompileBegins == Init => Types /\ Phases /\ InputOrder
  <1> SUFFICES ASSUME Init PROVE Types /\ Phases /\ InputOrder
    OBVIOUS
  <1>1. None \in Nat /\ 0 \in Hows
    BY DEF None, Hows
  <1>2. client \in ClientState /\ server \in ServerState /\ compiler \in CompilerState
    BY <1>1 DEF Init, ClientState, ClientPc, Unconnected, Files, ServerState, ServerPc, CompilerState
  <1>3. <<>> \in Seq(ToMsg) /\ <<>> \in Seq(FromMsg)
    OBVIOUS
  <1>4. Types
    BY <1>2, <1>3 DEF Init, Types, Contained
  <1>5. Phases /\ InputOrder
    BY DEF Init, Phases, InputOrder, At, Fresh, Compiled, Unconnected, Asking
  <1> QED BY <1>4, <1>5

-----------------------------------------------------------------------------
\* A child that has started a compiler answers only when it has read the whole source, or has
\* given the client up: a client that still sends never meets an answer on a connection that is about to
\* be closed (work_it waits for the end of the compiler only after the end of the input).
THEOREM AnswersComeAfterInput == Spec => []AnswerAfterInput
  <1> DEFINE Inv == Types /\ Phases /\ InputOrder
  <1>1. Inv /\ [Next]_vars => Inv'
    BY TypesInductive, InputInductive
  <1>2. Inv => AnswerAfterInput
    BY DEF Phases, InputOrder, AnswerAfterInput
  <1> QED BY <1>1, <1>2, CompileBegins, PTL DEF Spec

-----------------------------------------------------------------------------
(* What is said of the source *)

\* A sequence of which the front, or all, was taken.
LEMMA Remains ==
    ASSUME NEW M, NEW s \in Seq(M), NEW t, t = s \/ t = <<>> \/ (s # <<>> /\ t = Tail(s))
    PROVE  Len(t) \in Nat /\ \A i \in 1 .. Len(t) : \E k \in 1 .. Len(s) : t[i] = s[k]
  <1>1. CASE t = s
    BY <1>1
  <1>2. CASE t = <<>>
    BY <1>2
  <1>3. CASE s # <<>> /\ t = Tail(s)
    <2>1. Len(s) \in Nat /\ Len(t) = Len(s) - 1 /\ Len(s) >= 1 /\ \A i \in 1 .. Len(s) - 1 : t[i] = s[i + 1]
      BY <1>3, TakeOne
    <2>2. Len(t) \in Nat /\ \A i \in 1 .. Len(t) : i + 1 \in 1 .. Len(s) /\ t[i] = s[i + 1]
      BY <2>1
    <2> QED BY <2>2
  <1> QED BY <1>1, <1>2, <1>3

\* A message that says what is true.
TrueMsg(m) == m.kind = "result" => Honest(m.status, m.oom) /\ (m.dwo = world.dwo \/ ~Compiled)

\* Once there was no compiler to write the object, none comes.
LEMMA NoneIsStarted ==
    ASSUME Types, Phases, [Next]_vars
    PROVE  /\ ~Compiled => ~Compiled'
           /\ Client \/ Compiler \/ CompilerDies \/ Cut => (Compiled <=> Compiled')
           /\ Server /\ ~handle_connection => (Compiled <=> Compiled')
  <1>0. server \in ServerState
    BY DEF Types
  <1> USE DEF ServerState, Compiled
  <1>1. ASSUME Client PROVE server'.obj_file = server.obj_file
    BY <1>0, <1>1 DEF Client, main, get_server, maybe_build_local, connect, TransferEnv, VerifyEnv, CompileFile,
           write_fd_to_server, WaitForCpp, WaitForResult, receive_file, again, build_local, ClientUnchanged
  <1>2. ASSUME Compiler \/ CompilerDies \/ Cut PROVE server'.obj_file = server.obj_file
    BY <1>2 DEF Compiler, CompilerDies, CompilerReads, CompilerWrites, CompilerEnds, Cut
  <1>3. ASSUME Server, ~handle_connection PROVE server'.obj_file = server.obj_file
    <2>1. CASE daemon \/ install \/ Reply \/ write_output_file
      BY <1>0, <2>1 DEF daemon, install, Reply, write_output_file, Throw, ServerGo
    <2>2. CASE ReceiveInput \/ PollTimeout
      BY <1>0, <2>2 DEF ReceiveInput, PollTimeout, LoseClient, ServerGo
    <2>3. CASE Poll
      BY <1>0, <2>3 DEF Poll, Death, WorkDone
    <2> QED BY <1>3, <2>1, <2>2, <2>3 DEF Server
  <1>4. handle_connection => Compiled
    BY DEF handle_connection, ServerAt, Phases, Fresh
  <1> QED BY <1>1, <1>2, <1>3, <1>4 DEF Next, Done, vars

\* What was true stays true when the compiler has ended.
LEMMA HonestStays ==
    ASSUME UNCHANGED world, Ended => Ended' /\ compiler'.how = compiler.how, ~Compiled => ~Compiled'
    PROVE  /\ \A st, oom : Honest(st, oom) => Honest(st, oom)'
           /\ \A m : TrueMsg(m) => TrueMsg(m)'
  <1>1. \A st, oom : Honest(st, oom) => Honest(st, oom)'
    BY DEF Honest
  <1> QED BY <1>1 DEF TrueMsg

\* A step of the client.
LEMMA ClientStatus ==
    ASSUME Types, Phases, StatusTrue, Client
    PROVE  StatusTrue'
  <1>0. client \in ClientState /\ server \in ServerState /\ from \in Seq(FromMsg) /\ world \in Worlds
    BY DEF Types
  <1>1. UNCHANGED <<world, compiler>>
    BY ClientTypes
  <1>c. Compiled <=> Compiled'
    BY NoneIsStarted DEF Next
  <1>2. server' = server \/ server'.pc = "daemon"
    BY <1>0 DEF Client, main, get_server, maybe_build_local, connect, TransferEnv, VerifyEnv, CompileFile,
           write_fd_to_server, WaitForCpp, WaitForResult, receive_file, again, build_local, ClientUnchanged,
           ServerState
  <1>3. from' = from \/ from' = <<>> \/ (from # <<>> /\ from' = Tail(from))
    BY DEF Client, main, get_server, maybe_build_local, connect, TransferEnv, VerifyEnv, CompileFile,
           write_fd_to_server, WaitForCpp, WaitForResult, receive_file, again, build_local, Apart,
           Fallback, ClosedByClient
  <1>4. (\A st, oom : Honest(st, oom) => Honest(st, oom)') /\ \A m : TrueMsg(m) => TrueMsg(m)'
    BY <1>1, <1>c, HonestStays DEF Ended
  <1>5. \A i \in 1 .. Len(from') : TrueMsg(from'[i])
    <2>1. \A k \in 1 .. Len(from) : TrueMsg(from[k])
      BY DEF StatusTrue, TrueMsg
    <2>2. \A i \in 1 .. Len(from') : \E k \in 1 .. Len(from) : from'[i] = from[k]
      BY <1>0, <1>3, Remains
    <2> HIDE DEF TrueMsg
    <2> QED BY <2>1, <2>2
  <1>6. ASSUME from # <<>>, Kind(from) = "result"
        PROVE  /\ Honest(Head(from).status, Head(from).oom) /\ Head(from).oom \in BOOLEAN
    <2>1. Head(from) = from[1] /\ 1 \in 1 .. Len(from) /\ Head(from) \in FromMsg
      BY <1>0, <1>6, TakeOne
    <2> QED BY <1>6, <2>1 DEF StatusTrue, Kind, FromMsg, Answer
  <1>7. /\ client'.pc = "receive" => world.right \/ ~Compiled
        /\ client'.exit \in {None, EXIT_DISTCC_FAILED} \/ Honest(client'.exit, FALSE)
    <2>0. client.exit \in {None, EXIT_DISTCC_FAILED} \/ Honest(client.exit, FALSE)
      BY DEF StatusTrue
    <2>1. CASE main \/ get_server \/ connect \/ TransferEnv \/ VerifyEnv \/ again \/ write_fd_to_server
      BY <1>0, <2>0, <2>1 DEF main, get_server, connect, TransferEnv, VerifyEnv, again, write_fd_to_server, Go, Fallback,
                         At, ClientState
    <2>2. CASE CompileFile
      BY <1>0, <2>0, <2>2 DEF CompileFile, Go, Exit, Fallback, ClientState
    <2>3. CASE maybe_build_local \/ build_local
      <3>1. Honest(IF world.right THEN 0 ELSE 1, FALSE)
        BY DEF Honest
      <3> QED BY <1>0, <2>0, <2>3, <3>1 DEF maybe_build_local, build_local, Go, Exit, ClientState
    <2>4. CASE WaitForCpp
      <3>1. ~world.expands /\ ~world.directives_only => Honest(1, FALSE)
        BY <1>0 DEF Worlds, Honest
      <3> QED BY <1>0, <2>0, <2>4, <3>1 DEF WaitForCpp, Go, Exit, Fallback, ClientState
    <2>5. CASE WaitForResult
      <3>1. CASE Fallback
        BY <1>0, <2>0, <3>1 DEF Fallback, ClientState
      <3>2. CASE from # <<>> /\ Kind(from) = "result" /\ ~Fallback
        <4> DEFINE r == Head(from)
        <4>1. Honest(r.status, r.oom) /\ r.oom \in BOOLEAN
          BY <1>6, <3>2
        <4>2. \/ ~(r.status # 0 /\ r.oom) /\ r.status # 0 /\ Exit(r.status)
              \/ /\ r.status = 0
                 /\ client' = [client EXCEPT !.pc = "receive", !.file = "obj", !.tmp = 0, !.more = r.dwo]
          BY <2>5, <3>2 DEF WaitForResult
        <4> HIDE DEF r
        <4>3. CASE ~(r.status # 0 /\ r.oom) /\ r.status # 0 /\ Exit(r.status)
          <5>1. client'.pc = "done" /\ client'.exit = r.status
            BY <1>0, <4>3 DEF Exit, ClientState
          <5>2. Honest(r.status, FALSE)
            BY <4>1, <4>3 DEF Honest
          <5> QED BY <5>1, <5>2
        <4>4. CASE /\ r.status = 0
                   /\ client' = [client EXCEPT !.pc = "receive", !.file = "obj", !.tmp = 0, !.more = r.dwo]
          <5>1. client'.exit = client.exit
            BY <1>0, <4>4 DEF ClientState
          <5>2. world.right \/ ~Compiled
            BY <4>1, <4>4 DEF Honest
          <5> QED BY <2>0, <5>1, <5>2
        <4> QED BY <4>2, <4>3, <4>4
      <3> QED BY <2>5, <3>1, <3>2 DEF WaitForResult
    <2>6. CASE receive_file
      <3>1. world.right \/ ~Compiled
        BY <2>6 DEF receive_file, StatusTrue
      <3>2. Honest(0, FALSE)
        BY <3>1 DEF Honest
      <3> QED BY <1>0, <2>0, <2>6, <3>1, <3>2 DEF receive_file, Exit, Fallback, ClientState
    <2> QED BY <2>1, <2>2, <2>3, <2>4, <2>5, <2>6 DEF Client
  <1>8. /\ At("receive")' => world'.right \/ ~Compiled'
        /\ client'.exit \in {None, EXIT_DISTCC_FAILED} \/ Honest(client.exit, FALSE)'
    <2>1. Honest(client'.exit, FALSE) => Honest(client.exit, FALSE)'
      BY <1>1, <1>c DEF Honest, Ended
    <2> QED BY <1>1, <1>c, <1>7, <2>1 DEF At
  <1>9. \A i \in 1 .. Len(from') :
           from'[i].kind = "result" =>
              Honest(from[i].status, from[i].oom)' /\ (from'[i].dwo = world'.dwo \/ ~Compiled')
    BY <1>1, <1>c, <1>5 DEF TrueMsg, Honest, Ended
  <1>10. /\ Ended' => (compiler'.how = 0 => world'.right) /\ (compiler'.how = 1 => ~world'.right)
         /\ server'.pc = "reply" /\ server'.return_value \in {0} \cup OutOfMemory =>
               Honest(server.status, server.return_value \in OutOfMemory)'
    BY <1>1, <1>c, <1>2 DEF StatusTrue, Ended, Honest
  <1> QED BY <1>8, <1>9, <1>10 DEF StatusTrue

\* Before the result the server says little.
LEMMA SmallTalk ==
    ASSUME Types, daemon \/ install \/ handle_connection \/ ReceiveInput \/ Poll \/ PollTimeout
    PROVE  \E ms \in Seq(FromMsg) :
              /\ from' = from \/ from' = from \o ms
              /\ \A i \in 1 .. Len(ms) : ms[i].kind \notin {"result", "chunk"}
  <1>0. <<>> \in Seq(FromMsg) /\ \A i \in 1 .. Len(<<>>) : <<>>[i].kind \notin {"result", "chunk"}
    OBVIOUS
  <1>1. CASE from' = from
    BY <1>0, <1>1
  <1>2. CASE daemon /\ from' # from
    <2>1. PICK ok \in {server.installed, FALSE}, why \in {<<>>, <<Plain("status")>>} :
              SentByServer((IF ok THEN <<>> ELSE why) \o <<[kind |-> "verified", ok |-> ok]>>)
      BY <1>2 DEF daemon
    <2> DEFINE m == [kind |-> "verified", ok |-> ok]
               w == IF ok THEN <<>> ELSE why
    <2>2. m \in FromMsg /\ m.kind \notin {"result", "chunk"}
      BY DEF Types, ServerState, FromMsg
    <2>3. w \in Seq(FromMsg) /\ \A i \in 1 .. Len(w) : w[i].kind \notin {"result", "chunk"}
      <3>1. CASE w = <<>>
        BY <1>0, <3>1
      <3>2. CASE w = <<Plain("status")>>
        <4>1. /\ <<Plain("status")>> \in Seq(FromMsg)
              /\ \A i \in 1 .. Len(<<Plain("status")>>) : <<Plain("status")>>[i].kind \notin {"result", "chunk"}
          BY Messages
        <4> HIDE DEF w
        <4> QED BY <3>2, <4>1
      <3> QED BY <3>1, <3>2
    <2>4. from' = from \o (w \o <<m>>)
      BY <1>2, <2>1 DEF SentByServer
    <2> HIDE DEF m, w
    <2>5. <<m>> \in Seq(FromMsg) /\ Len(<<m>>) = 1 /\ <<m>>[1] = m
      BY <2>2
    <2>6. w \o <<m>> \in Seq(FromMsg) /\ Len(w) \in Nat
      BY <2>3, <2>5, AddSome
    <2>7. /\ Len(w \o <<m>>) = Len(w) + 1 /\ (w \o <<m>>)[Len(w) + 1] = m
          /\ \A i \in 1 .. Len(w) : (w \o <<m>>)[i] = w[i]
      BY <2>3, <2>5, AddOne
    <2>8. \A i \in 1 .. Len(w) + 1 : i \in 1 .. Len(w) \/ i = Len(w) + 1
      BY <2>6
    <2>9. \A i \in 1 .. Len(w \o <<m>>) : (w \o <<m>>)[i].kind \notin {"result", "chunk"}
      BY <2>2, <2>3, <2>7, <2>8
    <2> QED BY <2>4, <2>6, <2>9
  <1>3. CASE handle_connection /\ from' # from
    <2>1. from' = from \o <<Plain("status")>> \/ from' = from \o <<>>
      BY <1>3 DEF handle_connection, Throw, work_it, NoCompiler, SentByServer
    <2>2. /\ <<Plain("status")>> \in Seq(FromMsg)
          /\ \A i \in 1 .. Len(<<Plain("status")>>) : <<Plain("status")>>[i].kind \notin {"result", "chunk"}
      BY Messages
    <2> QED BY <1>0, <2>1, <2>2
  <1>4. CASE install \/ ReceiveInput \/ Poll \/ PollTimeout
    BY <1>1, <1>4 DEF install, ReceiveInput, Poll, PollTimeout
  <1> QED BY <1>1, <1>2, <1>3, <1>4

\* The n-th message after a result.
LEMMA FilesSent ==
    ASSUME Types, write_output_file, Compiled
    PROVE  \E ms \in Seq(FromMsg) :
              /\ from' = from \/ from' = from \o ms
              /\ \A i \in 1 .. Len(ms) : ms[i].kind = Expected(i)
  <1> DEFINE all == IF server.status # 0 THEN <<>> ELSE IF world.dwo THEN Chunks \o Chunks ELSE Chunks
  <1>0. Object \in Nat /\ Object >= 1
    BY SizeAssumption
  <1>1. PICK n \in 0 .. Len(all) : SentByServer(SubSeq(all, 1, n))
    <2>1. FilesOfResult = IF world.dwo THEN Chunks \o Chunks ELSE Chunks
      BY DEF FilesOfResult, Compiled
    <2> QED BY <2>1 DEF write_output_file
  <1>2. \A i \in 1 .. Object + 1 : Chunks[i].kind = Expected(i)
    <2> TAKE i \in 1 .. Object + 1
    <2>1. CASE i = Object + 1
      BY <2>1, ChunksType DEF Expected
    <2>2. CASE i # Object + 1
      <3>1. i \in 1 .. Object /\ i # 2 * (Object + 1)
        BY <1>0, <2>2
      <3> QED BY <2>2, <3>1, ChunksType DEF Expected
    <2> QED BY <2>1, <2>2
  <1>3. /\ Chunks \o Chunks \in Seq(FromMsg) /\ Len(Chunks \o Chunks) = 2 * (Object + 1)
        /\ \A i \in 1 .. Len(Chunks \o Chunks) : (Chunks \o Chunks)[i].kind = Expected(i)
    <2>1. /\ Chunks \in Seq(FromMsg) /\ Len(Chunks) = Object + 1
      BY ChunksType
    <2>2. /\ Chunks \o Chunks \in Seq(FromMsg) /\ Len(Chunks \o Chunks) = Len(Chunks) + Len(Chunks)
          /\ \A i \in 1 .. Len(Chunks) + Len(Chunks) :
               (Chunks \o Chunks)[i] = IF i <= Len(Chunks) THEN Chunks[i] ELSE Chunks[i - Len(Chunks)]
      BY <2>1, AddSome
    <2>3. ASSUME NEW i \in 1 .. 2 * (Object + 1) PROVE (Chunks \o Chunks)[i].kind = Expected(i)
      <3>1. CASE i <= Object + 1
        <4>1. i \in 1 .. Object + 1 /\ i \in 1 .. Len(Chunks) + Len(Chunks)
          BY <1>0, <2>1, <3>1
        <4> QED BY <1>2, <2>1, <2>2, <3>1, <4>1
      <3>2. CASE ~(i <= Object + 1)
        <4>1. /\ i - (Object + 1) \in 1 .. Object + 1 /\ i \in 1 .. Len(Chunks) + Len(Chunks)
              /\ i - (Object + 1) = Object + 1 <=> i = 2 * (Object + 1)
              /\ i - (Object + 1) # 2 * (Object + 1) /\ i # Object + 1
          BY <1>0, <2>1, <3>2
        <4>2. (Chunks \o Chunks)[i] = Chunks[i - (Object + 1)]
          BY <2>1, <2>2, <3>2, <4>1
        <4>3. Chunks[i - (Object + 1)].kind = Expected(i - (Object + 1))
          BY <1>2, <4>1
        <4>4. Expected(i - (Object + 1)) = Expected(i)
          BY <4>1 DEF Expected
        <4> QED BY <4>2, <4>3, <4>4
      <3> QED BY <3>1, <3>2
    <2>4. Len(Chunks) + Len(Chunks) = 2 * (Object + 1)
      BY <1>0, <2>1
    <2> QED BY <2>2, <2>3, <2>4
  <1>4. all \in Seq(FromMsg) /\ Len(all) \in Nat /\ \A i \in 1 .. Len(all) : all[i].kind = Expected(i)
    <2>1. CASE all = <<>>
      <3>1. <<>> \in Seq(FromMsg) /\ Len(<<>>) = 0
        OBVIOUS
      <3> HIDE DEF all
      <3> QED BY <2>1, <3>1
    <2>2. CASE all = Chunks
      <3> HIDE DEF all
      <3> QED BY <1>0, <1>2, <2>2, ChunksType
    <2>3. CASE all = Chunks \o Chunks
      <3> HIDE DEF all
      <3> QED BY <1>0, <1>3, <2>3
    <2> QED BY <2>1, <2>2, <2>3
  <1> HIDE DEF all
  <1>5. /\ SubSeq(all, 1, n) \in Seq(FromMsg)
        /\ Len(SubSeq(all, 1, n)) = n
        /\ \A i \in 1 .. n : SubSeq(all, 1, n)[i] = all[i]
    BY <1>1, <1>4
  <1>6. \A i \in 1 .. Len(SubSeq(all, 1, n)) : SubSeq(all, 1, n)[i].kind = Expected(i)
    BY <1>1, <1>4, <1>5
  <1> QED BY <1>1, <1>5, <1>6 DEF SentByServer

\* Without a compiler there is no file to send.
LEMMA NothingSent ==
    ASSUME Types, write_output_file, ~Compiled
    PROVE  \E ms \in Seq(FromMsg) :
              /\ from' = from \/ from' = from \o ms
              /\ \A i \in 1 .. Len(ms) : ms[i].kind \notin {"result", "chunk"}
  <1> DEFINE all == IF server.status # 0 THEN <<>> ELSE FilesOfResult
  <1>1. PICK n \in 0 .. Len(all) : SentByServer(SubSeq(all, 1, n))
    BY DEF write_output_file
  <1>2. all \in Seq(FromMsg) /\ Len(all) \in Nat /\ \A i \in 1 .. Len(all) : all[i].kind \notin {"result", "chunk"}
    <2>1. server.obj_file \in {"empty", "missing"}
      BY DEF Types, ServerState, Compiled
    <2>2. ASSUME NEW m, m \in {Plain("end"), Plain("status")}
          PROVE  /\ <<m>> \in Seq(FromMsg) /\ Len(<<m>>) = 1
                 /\ \A i \in 1 .. Len(<<m>>) : <<m>>[i].kind \notin {"result", "chunk"}
      BY <2>2, Messages
    <2>3. <<>> \in Seq(FromMsg) /\ Len(<<>>) = 0
      OBVIOUS
    <2>4. all = <<>> \/ all = <<Plain("end")>> \/ all = <<Plain("status")>>
      BY <2>1 DEF FilesOfResult
    <2> HIDE DEF all
    <2>5. CASE all = <<>>
      BY <2>3, <2>5
    <2>6. CASE all = <<Plain("end")>>
      BY <2>2, <2>6
    <2>7. CASE all = <<Plain("status")>>
      BY <2>2, <2>7
    <2> QED BY <2>4, <2>5, <2>6, <2>7
  <1> HIDE DEF all
  <1>3. /\ SubSeq(all, 1, n) \in Seq(FromMsg)
        /\ Len(SubSeq(all, 1, n)) = n
        /\ \A i \in 1 .. n : SubSeq(all, 1, n)[i] = all[i]
    BY <1>1, <1>2
  <1>4. \A i \in 1 .. Len(SubSeq(all, 1, n)) : SubSeq(all, 1, n)[i].kind \notin {"result", "chunk"}
    BY <1>1, <1>2, <1>3
  <1> QED BY <1>1, <1>3, <1>4 DEF SentByServer

\* A step of the server.
LEMMA ServerStatus ==
    ASSUME Types, Phases, StatusTrue, Server
    PROVE  StatusTrue'
  <1>0. /\ client \in ClientState /\ server \in ServerState /\ compiler \in CompilerState
        /\ from \in Seq(FromMsg) /\ Len(from) \in Nat
    BY DEF Types
  <1>1. UNCHANGED <<world, client>>
    BY ServerTypes
  <1>2. compiler'.how = compiler.how /\ (Ended <=> Ended')
    <2>1. CASE handle_connection
      <3>1. compiler.state = "none"
        BY <2>1 DEF handle_connection, ServerAt, Phases, Fresh
      <3> QED BY <1>0, <2>1, <3>1 DEF handle_connection, work_it, NoCompiler, CompilerState, Ended
    <2>2. CASE ~handle_connection
      BY <1>0, <2>2 DEF Server, daemon, install, ReceiveInput, LoseClient, Kill, Poll, PollTimeout, Reply,
                        write_output_file, CompilerState, Ended
    <2> QED BY <2>1, <2>2
  <1>c. ~Compiled => ~Compiled'
    BY NoneIsStarted DEF Next
  <1>3. (\A st, oom : Honest(st, oom) => Honest(st, oom)') /\ \A m : TrueMsg(m) => TrueMsg(m)'
    BY <1>1, <1>2, <1>c, HonestStays
  <1>4. \A k \in 1 .. Len(from) : TrueMsg(from[k])
    BY DEF StatusTrue, TrueMsg
  <1>5. ASSUME NEW ms \in Seq(FromMsg), from' = from \/ from' = from \o ms, \A i \in 1 .. Len(ms) : TrueMsg(ms[i])
        PROVE  \A i \in 1 .. Len(from') : TrueMsg(from'[i])
    <2>1. CASE from' = from
      BY <1>4, <2>1
    <2>2. CASE from' = from \o ms
      <3>1. /\ Len(from') = Len(from) + Len(ms) /\ Len(ms) \in Nat
            /\ \A i \in 1 .. Len(from) + Len(ms) :
                  from'[i] = IF i <= Len(from) THEN from[i] ELSE ms[i - Len(from)]
        BY <1>0, <2>2, AddSome
      <3> TAKE i \in 1 .. Len(from')
      <3>2. i \in 1 .. Len(from) \/ (~(i <= Len(from)) /\ i - Len(from) \in 1 .. Len(ms))
        BY <1>0, <3>1
      <3>3. i \in 1 .. Len(from) + Len(ms)
        BY <3>1
      <3>4. CASE i \in 1 .. Len(from)
        BY <1>0, <1>4, <3>1, <3>3, <3>4
      <3>5. CASE ~(i <= Len(from)) /\ i - Len(from) \in 1 .. Len(ms)
        BY <1>5, <3>1, <3>3, <3>5
      <3> QED BY <3>2, <3>4, <3>5
    <2> QED BY <1>5, <2>1, <2>2
  <1>6. \A i \in 1 .. Len(from') : TrueMsg(from'[i])
    <2>1. CASE daemon \/ install \/ handle_connection \/ ReceiveInput \/ Poll \/ PollTimeout
      <3>1. PICK ms \in Seq(FromMsg) : /\ from' = from \/ from' = from \o ms
                                       /\ \A i \in 1 .. Len(ms) : ms[i].kind \notin {"result", "chunk"}
        BY <2>1, SmallTalk
      <3>2. \A i \in 1 .. Len(ms) : TrueMsg(ms[i])
        BY <3>1 DEF TrueMsg
      <3> QED BY <1>5, <3>1, <3>2
    <2>2. CASE write_output_file
      <3>1. PICK ms \in Seq(FromMsg) : /\ from' = from \/ from' = from \o ms
                                       /\ \A i \in 1 .. Len(ms) : ms[i].kind # "result"
        <4>1. CASE Compiled
          BY <2>2, <4>1, FilesSent DEF Expected
        <4>2. CASE ~Compiled
          BY <2>2, <4>2, NothingSent
        <4> QED BY <4>1, <4>2
      <3>2. \A i \in 1 .. Len(ms) : TrueMsg(ms[i])
        BY <3>1 DEF TrueMsg
      <3> QED BY <1>5, <3>1, <3>2
    <2>3. CASE Reply
      <3> DEFINE oom == server.return_value \in OutOfMemory
                 dwo == world.dwo /\ Compiled
                 r == Result(server.status, oom, server.err, dwo)
                 ms == IF server.return_value # 0 /\ ~oom THEN <<>> ELSE <<r>>
      <3>1. server.pc = "reply" /\ (from' = from \/ from' = from \o ms \/ from' = from \o <<>>)
        BY <2>3 DEF Reply, ServerAt, Throw, SentByServer
      <3>2. ms # <<>> => TrueMsg(r)
        <4>1. r.status = server.status /\ r.oom = oom /\ r.dwo = dwo
          BY DEF Result
        <4>0. dwo = world.dwo \/ ~Compiled
          BY DEF Types, Worlds
        <4>2. ms # <<>> => Honest(server.status, oom)
          BY <3>1 DEF StatusTrue
        <4> HIDE DEF oom, r, ms, dwo
        <4> QED BY <4>0, <4>1, <4>2 DEF TrueMsg
      <3>3. r \in FromMsg
        <4>1. server.status \in Nat /\ server.err \in Nat /\ dwo \in BOOLEAN /\ oom \in BOOLEAN
          BY DEF Types, ServerState, Worlds
        <4> HIDE DEF oom, dwo
        <4> QED BY <4>1 DEF Result, FromMsg, Answer
      <3> HIDE DEF r
      <3>4. <<r>> \in Seq(FromMsg) /\ <<>> \in Seq(FromMsg) /\ \A i \in 1 .. Len(<<r>>) : <<r>>[i] = r
        BY <3>3
      <3>5. \A i \in 1 .. Len(<<>>) : TrueMsg(<<>>[i])
        OBVIOUS
      <3>6. ms \in Seq(FromMsg) /\ \A i \in 1 .. Len(ms) : TrueMsg(ms[i])
        <4>1. CASE ms = <<>>
          <5> HIDE DEF ms
          <5> QED BY <3>4, <3>5, <4>1
        <4>2. CASE ms = <<r>>
          <5>1. ms # <<>>
            BY <4>2
          <5> HIDE DEF ms
          <5> QED BY <3>2, <3>4, <4>2, <5>1
        <4> QED BY <4>1, <4>2
      <3> HIDE DEF ms
      <3> QED BY <1>5, <3>1, <3>4, <3>5, <3>6
    <2> QED BY <2>1, <2>2, <2>3 DEF Server
  <1>7. server'.pc = "reply" /\ server'.return_value \in {0} \cup OutOfMemory =>
          \/ Honest(server'.status, server'.return_value \in OutOfMemory)
          \/ server'.status = 0 /\ ~Compiled'
    <2>a. ASSUME handle_connection, server'.pc = "reply" PROVE server'.status = 0 /\ ~Compiled'
      BY <1>0, <2>a DEF handle_connection, Throw, work_it, NoCompiler, ServerGo, ServerState, Compiled
    <2> SUFFICES ASSUME server'.pc = "reply", server'.return_value \in {0} \cup OutOfMemory, ~handle_connection
                 PROVE  Honest(server'.status, server'.return_value \in OutOfMemory)
      BY <2>a
    <2>1. Poll
      BY <1>0 DEF Server, daemon, install, handle_connection, work_it, NoCompiler, Throw, ReceiveInput, LoseClient, PollTimeout,
                  Reply, write_output_file, ServerGo, ServerAt, ServerState
    <2>2. Death /\ Ended
      BY <1>0, <2>1 DEF Poll, DeathReady, ServerState
    <2>3. (compiler.how = 0 => world.right) /\ (compiler.how = 1 => ~world.right) /\ compiler.how \in Hows
      BY <1>0, <2>2 DEF StatusTrue, CompilerState
    <2>4. CASE compiler.how \in OutOfMemory
      <3>1. server'.status = EXIT_OUT_OF_MEMORY /\ server'.return_value = compiler.how
        BY <1>0, <2>2, <2>4 DEF Death, WorkDone, ServerState
      <3> QED BY <2>4, <3>1 DEF Honest, EXIT_OUT_OF_MEMORY
    <2>5. CASE compiler.how \notin OutOfMemory /\ compiler.how = EXIT_COMPILER_CRASHED
      <3>1. server'.status = EXIT_OUT_OF_MEMORY
        BY <1>0, <2>2, <2>5 DEF Death, WorkDone, ServerState
      <3> QED BY <2>2, <2>5, <3>1 DEF Honest, EXIT_OUT_OF_MEMORY
    <2>6. CASE compiler.how \notin OutOfMemory /\ compiler.how # EXIT_COMPILER_CRASHED
      <3>1. server'.status = compiler.how /\ compiler.how \in {0, 1}
        BY <1>0, <2>2, <2>3, <2>6 DEF Death, WorkDone, ServerState, Hows
      <3> QED BY <2>3, <3>1 DEF Honest
    <2> QED BY <2>4, <2>5, <2>6
  <1>8. /\ Ended' => (compiler'.how = 0 => world'.right) /\ (compiler'.how = 1 => ~world'.right)
        /\ At("receive")' => world'.right \/ ~Compiled'
    BY <1>1, <1>2, <1>c DEF StatusTrue, At
  <1>9. \A st, oom : Honest(st, oom) => Honest(st, oom)'
    BY <1>3
  <1>10. /\ client'.exit \in {None, EXIT_DISTCC_FAILED} \/ Honest(client.exit, FALSE)'
         /\ server'.pc = "reply" /\ server'.return_value \in {0} \cup OutOfMemory =>
               Honest(server.status, server.return_value \in OutOfMemory)'
         /\ \A i \in 1 .. Len(from') :
               from'[i].kind = "result" =>
                  Honest(from[i].status, from[i].oom)' /\ (from'[i].dwo = world'.dwo \/ ~Compiled')
    BY <1>1, <1>2, <1>c, <1>6, <1>7 DEF StatusTrue, Honest, TrueMsg
  <1> QED BY <1>8, <1>10 DEF StatusTrue

\* A step of the compiler, or a cut.
LEMMA OthersStatus ==
    ASSUME Types, Phases, StatusTrue, Compiler \/ CompilerDies \/ Cut
    PROVE  StatusTrue'
  <1>1. UNCHANGED <<world, client, server>> /\ (from' = from \/ from' = <<>>)
    BY DEF Compiler, CompilerDies, CompilerReads, CompilerWrites, CompilerEnds, Cut
  <1>2. compiler \in CompilerState
    BY DEF Types
  <1>3. Ended => UNCHANGED compiler
    BY DEF Ended, Compiler, CompilerDies, CompilerReads, CompilerWrites, CompilerEnds, Cut
  <1>4. Ended' => (compiler'.how = 0 => world.right) /\ (compiler'.how = 1 => ~world.right)
    <2>1. CASE Ended
      BY <1>3, <2>1 DEF StatusTrue
    <2>2. ASSUME NEW how, CompilerEnds(how)
          PROVE  (compiler'.how = 0 => world.right) /\ (compiler'.how = 1 => ~world.right)
      BY <1>2, <2>2 DEF CompilerEnds, CompilerState
    <2>3. CASE ~Ended /\ Ended'
      <3>1. \E how : CompilerEnds(how)
        BY <1>2, <2>3 DEF Ended, Compiler, CompilerDies, CompilerReads, CompilerWrites, Cut, CompilerState
      <3> QED BY <2>2, <3>1
    <2> QED BY <2>1, <2>3
  <1>5. Compiled <=> Compiled'
    BY <1>1 DEF Compiled
  <1>6. /\ client'.exit \in {None, EXIT_DISTCC_FAILED} \/ Honest(client.exit, FALSE)'
        /\ server'.pc = "reply" /\ server'.return_value \in {0} \cup OutOfMemory =>
              Honest(server.status, server.return_value \in OutOfMemory)'
        /\ \A i \in 1 .. Len(from') :
              from'[i].kind = "result" =>
                 Honest(from[i].status, from[i].oom)' /\ (from'[i].dwo = world'.dwo \/ ~Compiled')
    BY <1>1, <1>3, <1>5 DEF StatusTrue, Honest, Ended
  <1> QED BY <1>1, <1>4, <1>5, <1>6 DEF StatusTrue, At

-----------------------------------------------------------------------------
(* The files *)

\* The next message tells how much of the file there is.
LEMMA NextMessage ==
    ASSUME Types, FilesInOrder, At("receive"), from # <<>>, Compiled
    PROVE  /\ client.tmp \in Nat /\ client.tmp <= Object
           /\ Kind(from) = "chunk" => client.tmp + 1 <= Object
           /\ Kind(from) = "end" => client.tmp = Object
  <1>0. Object \in Nat /\ Object >= 1
    BY SizeAssumption
  <1>1. client.tmp \in Nat /\ client.tmp <= Object /\ client.file \in Files
    BY DEF Types, ClientState, FilesInOrder
  <1>2. Kind(from) = from[1].kind /\ 1 \in 1 .. Len(from)
    BY TakeOne DEF Types, Kind
  <1>3. Kind(from) = Expected(Position + 1)
    BY <1>2 DEF FilesInOrder
  <1>4. CASE client.file = "obj"
    <2>1. Position = client.tmp
      BY <1>4 DEF Position
    <2>2. client.tmp + 1 # 2 * (Object + 1)
      BY <1>0, <1>1
    <2>3. client.tmp + 1 = Object + 1 \/ client.tmp + 1 <= Object
      BY <1>0, <1>1
    <2> QED BY <1>0, <1>1, <1>3, <2>1, <2>2, <2>3 DEF Expected
  <1>5. CASE client.file = "dwo"
    <2>1. Position = Object + 1 + client.tmp
      BY <1>5 DEF Position
    <2>2. /\ Object + 1 + client.tmp + 1 # Object + 1
          /\ Object + 1 + client.tmp + 1 = 2 * (Object + 1) <=> client.tmp = Object
          /\ client.tmp = Object \/ client.tmp + 1 <= Object
      BY <1>0, <1>1
    <2>3. "chunk" # "end"
      OBVIOUS
    <2> QED BY <1>1, <1>3, <2>1, <2>2, <2>3 DEF Expected
  <1> QED BY <1>1, <1>4, <1>5 DEF Files

\* What is left in front of the client.
LEMMA FilesRemain ==
    ASSUME Types, FilesInOrder, from' = from \/ from' = <<>> \/ (from # <<>> /\ from' = Tail(from))
    PROVE  /\ ~server.answered => \A i \in 1 .. Len(from') : from'[i].kind \notin {"result", "chunk"}
           /\ server.pc = "files" => \A i \in 1 .. Len(from') : from'[i].kind = "result" => i = Len(from')
           /\ ~Compiled => \A i \in 1 .. Len(from') : from'[i].kind # "chunk"
           /\ Compiled => \A i, j \in 1 .. Len(from') : i < j /\ from'[i].kind = "result" => from'[j].kind = Expected(j - i)
  <1>0. from \in Seq(FromMsg) /\ Len(from) \in Nat
    BY DEF Types
  <1>1. CASE from' = from
    BY <1>1 DEF FilesInOrder
  <1>2. CASE from' = <<>>
    BY <1>2
  <1>3. CASE from # <<>> /\ from' = Tail(from)
    <2>1. Len(from') = Len(from) - 1 /\ Len(from) >= 1 /\ \A i \in 1 .. Len(from) - 1 : from'[i] = from[i + 1]
      BY <1>0, <1>3, TakeOne
    <2>2. \A i \in 1 .. Len(from') : i + 1 \in 1 .. Len(from) /\ from'[i] = from[i + 1]
      BY <1>0, <2>1
    <2>3. /\ ~server.answered => \A i \in 1 .. Len(from') : from'[i].kind \notin {"result", "chunk"}
          /\ ~Compiled => \A i \in 1 .. Len(from') : from'[i].kind # "chunk"
      BY <2>2 DEF FilesInOrder
    <2>4. ASSUME server.pc = "files", NEW i \in 1 .. Len(from'), from'[i].kind = "result" PROVE i = Len(from')
      <3>1. i + 1 = Len(from)
        BY <2>2, <2>4 DEF FilesInOrder
      <3> QED BY <1>0, <2>1, <3>1
    <2>5. ASSUME Compiled, NEW i \in 1 .. Len(from'), NEW j \in 1 .. Len(from'), i < j, from'[i].kind = "result"
          PROVE  from'[j].kind = Expected(j - i)
      <3>1. i + 1 < j + 1 /\ (j + 1) - (i + 1) = j - i
        BY <1>0, <2>1, <2>5
      <3>2. from[j + 1].kind = Expected((j + 1) - (i + 1))
        BY <2>2, <2>5, <3>1 DEF FilesInOrder
      <3> QED BY <2>2, <3>1, <3>2
    <2> QED BY <2>3, <2>4, <2>5
  <1> QED BY <1>1, <1>2, <1>3

\* A step of the client.
LEMMA ClientFiles ==
    ASSUME Types, Phases, StatusTrue, FilesInOrder, OutputRight, Client
    PROVE  FilesInOrder'
  <1>0. /\ client \in ClientState /\ server \in ServerState /\ from \in Seq(FromMsg) /\ Len(from) \in Nat
        /\ Object \in Nat
    BY SizeAssumption DEF Types
  <1>1. from' = from \/ from' = <<>> \/ (from # <<>> /\ from' = Tail(from))
    BY DEF Client, main, get_server, maybe_build_local, connect, TransferEnv, VerifyEnv, CompileFile,
           write_fd_to_server, WaitForCpp, WaitForResult, receive_file, again, build_local, Apart,
           Fallback, ClosedByClient
  <1>2. \/ server' = server
        \/ server'.pc = "daemon" /\ server'.answered = server.answered /\ client.pc = "connect"
    BY <1>0 DEF Client, main, get_server, maybe_build_local, connect, TransferEnv, VerifyEnv, CompileFile,
           write_fd_to_server, WaitForCpp, WaitForResult, receive_file, again, build_local, ClientUnchanged,
           ServerState, At
  <1>c. Compiled <=> Compiled'
    BY NoneIsStarted DEF Next
  <1>3. /\ ~server.answered => \A i \in 1 .. Len(from') : from'[i].kind \notin {"result", "chunk"}
        /\ server.pc = "files" => \A i \in 1 .. Len(from') : from'[i].kind = "result" => i = Len(from')
        /\ ~Compiled => \A i \in 1 .. Len(from') : from'[i].kind # "chunk"
        /\ Compiled => \A i, j \in 1 .. Len(from') : i < j /\ from'[i].kind = "result" => from'[j].kind = Expected(j - i)
    BY <1>1, FilesRemain
  <1>4. CASE client'.pc # "receive"
    BY <1>2, <1>3, <1>4, <1>c DEF FilesInOrder, At, Expected
  <1>5. CASE client'.pc = "receive"
    <2>0. WaitForResult \/ receive_file
      BY <1>0, <1>5 DEF Client, main, get_server, maybe_build_local, connect, TransferEnv, VerifyEnv, CompileFile,
           write_fd_to_server, WaitForCpp, again, build_local, At, Go, Exit, Fallback, ClientState
    <2>1. server' = server /\ server.answered
      <3>1. CASE WaitForResult
        <4>1. from # <<>> /\ Kind(from) = "result" /\ server' = server
          BY <1>0, <1>5, <3>1 DEF WaitForResult, Exit, Fallback, ClientState, ClientUnchanged
        <4>2. from[1].kind = "result" /\ 1 \in 1 .. Len(from)
          BY <1>0, <4>1, TakeOne DEF Kind
        <4> QED BY <4>1, <4>2 DEF FilesInOrder
      <3>2. CASE receive_file
        BY <3>2 DEF receive_file, FilesInOrder, ClientUnchanged
      <3> QED BY <2>0, <3>1, <3>2
    <2>2. from # <<>> /\ from' = Tail(from)
      BY <1>0, <1>5, <2>0 DEF WaitForResult, receive_file, Exit, Fallback, ClientState
    <2>3. Len(from') = Len(from) - 1 /\ Len(from) >= 1 /\ \A i \in 1 .. Len(from) - 1 : from'[i] = from[i + 1]
      BY <1>0, <2>2, TakeOne
    <2>4. \A i \in 1 .. Len(from') : i \in Nat /\ i + 1 \in 1 .. Len(from) /\ from'[i] = from[i + 1]
      BY <1>0, <2>3
    <2>e. ASSUME ~Compiled PROVE (server.pc = "files" => from' = <<>> /\ client'.file = "obj") /\ client'.tmp = 0
      <3>1. CASE WaitForResult
        <4>1. from # <<>> /\ Kind(from) = "result" /\ client'.tmp = 0 /\ client'.file = "obj"
          BY <1>0, <1>5, <3>1 DEF WaitForResult, Exit, Fallback, ClientState
        <4>2. from[1].kind = "result" /\ 1 \in 1 .. Len(from)
          BY <1>0, <4>1, TakeOne DEF Kind
        <4>3. server.pc = "files" => Len(from) = 1
          BY <4>2 DEF FilesInOrder
        <4>4. server.pc = "files" => from' = <<>>
          BY <1>0, <2>2, <4>3
        <4> QED BY <4>1, <4>4
      <3>2. CASE receive_file
        <4>1. At("receive") /\ server.pc # "files" /\ Kind(from) # "chunk"
          BY <1>0, <2>2, <2>e, <3>2, TakeOne DEF receive_file, FilesInOrder, Kind
        <4>2. client' = [client EXCEPT !.file = "dwo", !.tmp = 0, !.more = FALSE]
          BY <1>0, <1>5, <3>2, <4>1 DEF receive_file, Exit, Fallback, ClientState
        <4> QED BY <1>0, <4>1, <4>2 DEF ClientState
      <3> QED BY <2>0, <3>1, <3>2
    <2>5. ASSUME Compiled
          PROVE
          /\ server.pc = "files" => from' = <<>> /\ client'.tmp = 0 /\ client'.file = "obj"
          /\ client'.tmp \in Nat /\ client'.tmp <= Object
          /\ \A i \in 1 .. Len(from') : from'[i].kind = Expected(Position' + i)
      <3>1. CASE WaitForResult
        <4>1. from # <<>> /\ Kind(from) = "result" /\ client'.tmp = 0 /\ client'.file = "obj"
          BY <1>0, <1>5, <3>1 DEF WaitForResult, Exit, Fallback, ClientState
        <4>2. from[1].kind = "result" /\ 1 \in 1 .. Len(from)
          BY <1>0, <4>1, TakeOne DEF Kind
        <4>3. server.pc = "files" => Len(from) = 1
          BY <4>2 DEF FilesInOrder
        <4>4. server.pc = "files" => from' = <<>>
          BY <1>0, <2>2, <4>3
        <4>5. \A i \in 1 .. Len(from') : from'[i].kind = Expected(i)
          <5> TAKE i \in 1 .. Len(from')
          <5>1. 1 < i + 1 /\ (i + 1) - 1 = i
            BY <1>0, <2>3
          <5>2. from[i + 1].kind = Expected((i + 1) - 1)
            BY <2>4, <2>5, <4>2, <5>1 DEF FilesInOrder
          <5> QED BY <2>4, <5>1, <5>2
        <4>6. Position' = 0
          BY <4>1 DEF Position
        <4>7. \A i \in 1 .. Len(from') : 0 + i = i
          BY <2>4
        <4> QED BY <1>0, <4>1, <4>4, <4>5, <4>6, <4>7
      <3>2. CASE receive_file
        <4>0. At("receive") /\ server.pc # "files"
          BY <2>2, <3>2 DEF receive_file, FilesInOrder
        <4>1. /\ client.tmp \in Nat /\ client.tmp <= Object
              /\ Kind(from) = "chunk" => client.tmp + 1 <= Object
              /\ Kind(from) = "end" => client.tmp = Object
          BY <2>2, <2>5, <4>0, NextMessage
        <4>2. \A i \in 1 .. Len(from') : from'[i].kind = Expected(Position + (i + 1))
          BY <2>4, <2>5, <4>0 DEF FilesInOrder
        <4>3. \/ /\ Kind(from) = "chunk" /\ client' = [client EXCEPT !.tmp = @ + 1]
              \/ /\ Kind(from) = "end" /\ client.more
                 /\ client' = [client EXCEPT !.file = "dwo", !.tmp = 0, !.more = FALSE]
          BY <1>0, <1>5, <3>2 DEF receive_file, Exit, Fallback, ClientState
        <4>4. CASE Kind(from) = "chunk" /\ client' = [client EXCEPT !.tmp = @ + 1]
          <5>1. client'.tmp = client.tmp + 1 /\ client'.file = client.file /\ client.file \in Files
            BY <1>0, <4>4 DEF ClientState
          <5>2. Position \in Nat /\ Position' = Position + 1
            BY <1>0, <4>1, <5>1 DEF Position
          <5>3. \A i \in 1 .. Len(from') : Position' + i = Position + (i + 1)
            BY <2>4, <5>2
          <5> QED BY <4>0, <4>1, <4>2, <4>4, <5>1, <5>3
        <4>5. CASE /\ Kind(from) = "end" /\ client.more
                   /\ client' = [client EXCEPT !.file = "dwo", !.tmp = 0, !.more = FALSE]
          <5>1. client'.tmp = 0 /\ client'.file = "dwo" /\ client.file = "obj"
            BY <1>0, <2>5, <4>0, <4>5 DEF ClientState, OutputRight, Files
          <5>2. Position = Object /\ Position' = Object + 1
            BY <1>0, <4>1, <4>5, <5>1 DEF Position
          <5>3. \A i \in 1 .. Len(from') : Position' + i = Position + (i + 1)
            BY <1>0, <2>4, <5>2
          <5> QED BY <1>0, <4>0, <4>2, <5>1, <5>3
        <4> QED BY <4>3, <4>4, <4>5
      <3> QED BY <2>0, <3>1, <3>2
    <2>6. CASE Compiled
      BY <1>c, <1>3, <1>5, <2>1, <2>5, <2>6 DEF FilesInOrder, At, Expected
    <2>7. CASE ~Compiled
      BY <1>c, <1>3, <1>5, <2>1, <2>e, <2>7 DEF FilesInOrder, At
    <2> QED BY <2>6, <2>7
  <1> QED BY <1>4, <1>5

\* A step of the server.
LEMMA ServerFiles ==
    ASSUME Types, Phases, FilesInOrder, Server
    PROVE  FilesInOrder'
  <1>0. /\ client \in ClientState /\ server \in ServerState /\ from \in Seq(FromMsg) /\ Len(from) \in Nat
        /\ Object \in Nat
    BY SizeAssumption DEF Types
  <1>1. UNCHANGED client
    BY ServerTypes
  <1>2. CASE daemon \/ install \/ handle_connection \/ ReceiveInput \/ Poll \/ PollTimeout
    <2>1. ~server.answered /\ ~server'.answered /\ server'.pc # "files"
      <3>1. ~server.answered
        BY <1>2 DEF Phases, daemon, install, handle_connection, ReceiveInput, Poll, PollTimeout, ServerAt
      <3>2. CASE daemon \/ install \/ handle_connection
        BY <1>0, <3>1, <3>2 DEF daemon, install, handle_connection, work_it, NoCompiler, Throw, ServerGo, ServerAt, ServerState
      <3>3. CASE ReceiveInput \/ PollTimeout
        BY <1>0, <3>1, <3>3 DEF ReceiveInput, PollTimeout, LoseClient, ServerGo, ServerState
      <3>4. CASE Poll
        BY <1>0, <3>1, <3>4 DEF Poll, Death, WorkDone, ServerState
      <3> QED BY <1>2, <3>1, <3>2, <3>3, <3>4
    <2>2. PICK ms \in Seq(FromMsg) : /\ from' = from \/ from' = from \o ms
                                     /\ \A i \in 1 .. Len(ms) : ms[i].kind \notin {"result", "chunk"}
      BY <1>2, SmallTalk
    <2>3. ~At("receive") /\ \A i \in 1 .. Len(from) : from[i].kind \notin {"result", "chunk"}
      BY <2>1 DEF FilesInOrder
    <2>4. \A i \in 1 .. Len(from') : from'[i].kind \notin {"result", "chunk"}
      <3>1. CASE from' = from
        BY <2>3, <3>1
      <3>2. CASE from' = from \o ms
        <4>1. /\ Len(from') = Len(from) + Len(ms) /\ Len(ms) \in Nat
              /\ \A i \in 1 .. Len(from) + Len(ms) :
                    from'[i] = IF i <= Len(from) THEN from[i] ELSE ms[i - Len(from)]
          BY <1>0, <3>2, AddSome
        <4>2. \A i \in 1 .. Len(from') :
                \/ i \in 1 .. Len(from) /\ from'[i] = from[i]
                \/ i - Len(from) \in 1 .. Len(ms) /\ from'[i] = ms[i - Len(from)]
          BY <1>0, <4>1
        <4> QED BY <2>2, <2>3, <4>2
      <3> QED BY <2>2, <3>1, <3>2
    <2> QED BY <1>1, <2>1, <2>3, <2>4 DEF FilesInOrder, At
  <1>3. CASE Reply
    <2>1. ~server.answered /\ ~At("receive") /\ \A i \in 1 .. Len(from) : from[i].kind \notin {"result", "chunk"}
      BY <1>3 DEF Reply, ServerAt, Phases, FilesInOrder
    <2>2. CASE server'.pc = "files"
      <3> DEFINE r == Result(server.status, server.return_value \in OutOfMemory, server.err, world.dwo /\ Compiled)
      <3>1. server'.answered /\ (from' = from \/ from' = from \o <<r>>)
        BY <1>0, <1>3, <2>2 DEF Reply, Throw, ServerGo, SentByServer, ServerState
      <3>2. r \in FromMsg
        <4> DEFINE oom == server.return_value \in OutOfMemory
                   dwo == world.dwo /\ Compiled
        <4>1. server.status \in Nat /\ server.err \in Nat /\ dwo \in BOOLEAN /\ oom \in BOOLEAN
          BY DEF Types, ServerState, Worlds
        <4>2. r = Result(server.status, oom, server.err, dwo)
          OBVIOUS
        <4> HIDE DEF oom, r, dwo
        <4> QED BY <4>1, <4>2 DEF Result, FromMsg, Answer
      <3>r. r.kind = "result"
        BY DEF Result
      <3> HIDE DEF r
      <3>3. <<r>> \in Seq(FromMsg) /\ Len(<<r>>) = 1 /\ <<r>>[1] = r
        BY <3>2
      <3>4. \A i \in 1 .. Len(from') : from'[i].kind # "chunk" /\ (from'[i].kind = "result" => i = Len(from'))
        <4>1. CASE from' = from
          BY <2>1, <4>1
        <4>2. CASE from' = from \o <<r>>
          <5>1. Len(from') = Len(from) + 1 /\ (\A i \in 1 .. Len(from) : from'[i] = from[i]) /\ from'[Len(from) + 1] = r
            BY <1>0, <3>3, <4>2, AddOne
          <5>2. \A i \in 1 .. Len(from') : i \in 1 .. Len(from) \/ i = Len(from')
            BY <1>0, <5>1
          <5> QED BY <2>1, <3>r, <5>1, <5>2
        <4> QED BY <3>1, <4>1, <4>2
      <3>5. Len(from') \in Nat
        BY <1>0, <3>1, <3>3, AddOne
      <3>6. \A i, j \in 1 .. Len(from') : ~(i < j /\ i = Len(from'))
        BY <3>5
      <3> QED BY <1>1, <2>1, <3>1, <3>4, <3>6 DEF FilesInOrder, At
    <2>3. CASE server'.pc # "files"
      <3>1. ~server'.answered /\ (from' = from \/ from' = from \o <<>>)
        BY <1>0, <1>3, <2>1, <2>3 DEF Reply, Throw, ServerGo, ServerState
      <3>2. from' = from
        BY <1>0, <3>1
      <3> QED BY <1>1, <2>1, <2>3, <3>1, <3>2 DEF FilesInOrder, At
    <2> QED BY <2>2, <2>3
  <1>5. CASE write_output_file /\ ~Compiled
    <2>1. /\ server.pc = "files" /\ server'.pc = "idle" /\ server'.answered = server.answered /\ server.answered
          /\ ~Compiled'
      BY <1>0, <1>5 DEF write_output_file, ServerAt, ServerGo, ServerState, Phases, Compiled
    <2>2. PICK ms \in Seq(FromMsg) : /\ from' = from \/ from' = from \o ms
                                     /\ \A i \in 1 .. Len(ms) : ms[i].kind \notin {"result", "chunk"}
      BY <1>5, NothingSent
    <2>3. \A i \in 1 .. Len(from) : from[i].kind # "chunk"
      BY <1>5 DEF FilesInOrder
    <2>4. \A i \in 1 .. Len(from') : from'[i].kind # "chunk"
      <3>1. CASE from' = from
        BY <2>3, <3>1
      <3>2. CASE from' = from \o ms
        <4>1. /\ Len(from') = Len(from) + Len(ms) /\ Len(ms) \in Nat
              /\ \A i \in 1 .. Len(from) + Len(ms) :
                    from'[i] = IF i <= Len(from) THEN from[i] ELSE ms[i - Len(from)]
          BY <1>0, <3>2, AddSome
        <4>2. \A i \in 1 .. Len(from') :
                \/ i \in 1 .. Len(from) /\ from'[i] = from[i]
                \/ i - Len(from) \in 1 .. Len(ms) /\ from'[i] = ms[i - Len(from)]
          BY <1>0, <4>1
        <4> QED BY <2>2, <2>3, <4>2
      <3> QED BY <2>2, <3>1, <3>2
    <2>5. At("receive") => client.tmp = 0
      BY <1>5 DEF FilesInOrder
    <2> QED BY <1>1, <2>1, <2>4, <2>5 DEF FilesInOrder, At
  <1>4. CASE write_output_file /\ Compiled
    <2>1. /\ server.pc = "files" /\ server'.pc = "idle" /\ server'.answered = server.answered /\ server.answered
          /\ Compiled'
      BY <1>0, <1>4 DEF write_output_file, ServerAt, ServerGo, ServerState, Phases, Compiled
    <2>2. PICK ms \in Seq(FromMsg) : /\ from' = from \/ from' = from \o ms
                                     /\ \A i \in 1 .. Len(ms) : ms[i].kind = Expected(i)
      BY <1>4, FilesSent
    <2>3. /\ \A i \in 1 .. Len(from) : from[i].kind = "result" => i = Len(from)
          /\ At("receive") => from = <<>> /\ client.tmp = 0 /\ client.file = "obj"
      BY <2>1 DEF FilesInOrder
    <2>4. CASE from' = from
      BY <1>1, <1>4, <2>1, <2>4 DEF FilesInOrder, At, Position, Expected
    <2>5. CASE from' = from \o ms
      <3>1. /\ Len(from') = Len(from) + Len(ms) /\ Len(ms) \in Nat
            /\ \A i \in 1 .. Len(from) + Len(ms) :
                  from'[i] = IF i <= Len(from) THEN from[i] ELSE ms[i - Len(from)]
        BY <1>0, <2>5, AddSome
      <3>2. \A i \in 1 .. Len(from') :
              \/ i \in 1 .. Len(from) /\ from'[i] = from[i]
              \/ i - Len(from) \in 1 .. Len(ms) /\ from'[i] = ms[i - Len(from)]
        BY <1>0, <3>1
      <3>3. ASSUME NEW i \in 1 .. Len(from'), NEW j \in 1 .. Len(from'), i < j, from'[i].kind = "result"
            PROVE  from'[j].kind = Expected(j - i)
        <4>1. i \in 1 .. Len(from) /\ from'[i] = from[i]
          <5> SUFFICES ASSUME i - Len(from) \in 1 .. Len(ms), from'[i] = ms[i - Len(from)] PROVE FALSE
            BY <3>2
          <5>1. from'[i].kind = Expected(i - Len(from))
            BY <2>2
          <5> QED BY <3>3, <5>1 DEF Expected
        <4>2. i = Len(from)
          BY <2>3, <3>3, <4>1
        <4>3. j - Len(from) \in 1 .. Len(ms) /\ from'[j] = ms[j - Len(from)]
          BY <1>0, <3>2, <3>3, <4>2
        <4> QED BY <2>2, <4>2, <4>3
      <3>4. ASSUME At("receive") PROVE \A i \in 1 .. Len(from') : from'[i].kind = Expected(Position + i)
        <4>1. Len(from) = 0 /\ Position = 0
          BY <2>3, <3>4 DEF Position
        <4> TAKE i \in 1 .. Len(from')
        <4>2. i - Len(from) = i /\ Position + i = i /\ i \notin 1 .. Len(from)
          BY <3>1, <4>1
        <4> QED BY <2>2, <3>2, <4>2
      <3>5. At("receive") => client.tmp <= Object
        BY <1>4 DEF FilesInOrder
      <3>6. \A i, j \in 1 .. Len(from') : i < j /\ from'[i].kind = "result" => from'[j].kind = Expected(j - i)
        BY <3>3
      <3>7. Position' = Position /\ At("receive")' = At("receive")
        BY <1>1 DEF Position, At
      <3> QED BY <1>1, <2>1, <3>4, <3>5, <3>6, <3>7 DEF FilesInOrder, Expected
    <2> QED BY <2>2, <2>4, <2>5
  <1> QED BY <1>2, <1>3, <1>4, <1>5 DEF Server

\* What the client writes is whole.
LEMMA ClientOutput ==
    ASSUME Types, Phases, StatusTrue, FilesInOrder, OutputRight, Client
    PROVE  OutputRight'
  <1>0. client \in ClientState /\ output \in [Files -> Contained] /\ UNCHANGED world
    BY ClientTypes DEF Types
  <1>1. \A f \in Files : output[f] # "part" /\ (output[f] = "empty" => ~Compiled)
    BY DEF OutputRight
  <1>c. Compiled <=> Compiled'
    BY NoneIsStarted DEF Next
  <1>2. client.exit = None
    BY DEF Phases, Client, main, get_server, maybe_build_local, connect, TransferEnv, VerifyEnv, CompileFile,
           write_fd_to_server, WaitForCpp, WaitForResult, receive_file, again, build_local, At
  <1>3. None # 0 /\ EXIT_DISTCC_FAILED # 0
    BY DEF None, EXIT_DISTCC_FAILED
  <1>4. CASE main \/ get_server \/ connect \/ TransferEnv \/ VerifyEnv \/ CompileFile \/ write_fd_to_server
              \/ WaitForCpp \/ again
    <2>1. UNCHANGED output
      BY <1>4 DEF main, get_server, connect, TransferEnv, VerifyEnv, CompileFile, write_fd_to_server, WaitForCpp, again
    <2>2. client'.pc # "receive" /\ client'.exit # 0
      <3> DEFINE Fine == client'.pc # "receive" /\ client'.exit # 0
      <3>1. \A pc : Go(pc) /\ pc # "receive" => Fine
        BY <1>0, <1>2, <1>3 DEF Go, ClientState
      <3>2. \A code : Exit(code) /\ code # 0 => Fine
        BY <1>0 DEF Exit, ClientState
      <3>3. Fallback => Fine
        BY <1>0, <1>2, <1>3 DEF Fallback, ClientState
      <3>4. CASE get_server \/ write_fd_to_server
        <4>1. \/ \E b \in BOOLEAN : client' = [client EXCEPT !.pc = "connect", !.got_env = b]
              \/ At("source") /\ client' = [client EXCEPT !.sent = @ + 1]
              \/ Go("mine") \/ Go("again") \/ Fallback
          BY <3>4 DEF get_server, write_fd_to_server
        <4>2. ASSUME NEW b, client' = [client EXCEPT !.pc = "connect", !.got_env = b] PROVE Fine
          BY <1>0, <1>2, <1>3, <4>2 DEF ClientState
        <4>3. ASSUME At("source"), client' = [client EXCEPT !.sent = @ + 1] PROVE Fine
          BY <1>0, <1>2, <1>3, <4>3 DEF ClientState, At
        <4>4. Go("mine") \/ Go("again") => Fine
          BY <1>0, <1>2, <1>3 DEF Go, ClientState
        <4> QED BY <3>3, <4>1, <4>2, <4>3, <4>4
      <3>5. CASE main \/ connect \/ again
        <4>1. \E pc : Go(pc) /\ pc # "receive"
          BY <3>5 DEF main, connect, again
        <4> QED BY <3>1, <4>1
      <3>6. CASE TransferEnv \/ VerifyEnv \/ CompileFile \/ WaitForCpp
        <4>1. \/ \E pc : Go(pc) /\ pc # "receive"
              \/ Fallback
              \/ \E code : Exit(code) /\ code # 0
          <5>1. 1 # 0
            OBVIOUS
          <5> QED BY <1>3, <3>6, <5>1 DEF TransferEnv, VerifyEnv, CompileFile, WaitForCpp
        <4> QED BY <3>1, <3>2, <3>3, <4>1
      <3> QED BY <1>4, <3>4, <3>5, <3>6
    <2> QED BY <1>c, <1>1, <2>1, <2>2 DEF OutputRight, At
  <1>5. CASE maybe_build_local \/ build_local
    <2>1. client'.pc # "receive"
      BY <1>0, <1>5 DEF maybe_build_local, build_local, At, Go, Exit, ClientState
    <2>2. CASE UNCHANGED output /\ client'.exit # 0
      BY <1>c, <1>1, <2>1, <2>2 DEF OutputRight, At
    <2>3. CASE world.right /\ BuiltHere(world.right)
      <3>1. output' = [f \in Files |-> IF f = "obj" \/ world.dwo THEN "object" ELSE output[f]]
        BY <2>3 DEF BuiltHere
      <3> QED BY <1>c, <1>0, <1>1, <2>1, <3>1 DEF OutputRight, At, Files
    <2>4. (UNCHANGED output /\ client'.exit # 0) \/ (world.right /\ BuiltHere(world.right))
      <3>1. ~world.right /\ BuiltHere(world.right) => UNCHANGED output
        BY DEF BuiltHere
      <3>2. \A pc : Go(pc) => client'.exit # 0
        BY <1>0, <1>2, <1>3 DEF Go, ClientState
      <3>3. Exit(EXIT_DISTCC_FAILED) => client'.exit # 0
        BY <1>0, <1>3 DEF Exit, ClientState
      <3>4. ~world.right /\ Exit(IF world.right THEN 0 ELSE 1) => client'.exit # 0
        BY <1>0 DEF Exit, ClientState
      <3> QED BY <1>5, <3>1, <3>2, <3>3, <3>4 DEF maybe_build_local, build_local
    <2> QED BY <2>2, <2>3, <2>4
  <1>6. CASE WaitForResult
    <2>1. UNCHANGED output
      BY <1>6 DEF WaitForResult
    <2>2. CASE client'.pc = "receive"
      <3>1. /\ from # <<>> /\ Kind(from) = "result" /\ client'.file = "obj" /\ client'.more = Head(from).dwo
            /\ client'.exit = client.exit
        BY <1>0, <1>6, <2>2 DEF WaitForResult, Exit, Fallback, ClientState
      <3>2. Head(from).dwo = world.dwo \/ ~Compiled
        BY <3>1, TakeOne DEF Types, StatusTrue, Kind
      <3> QED BY <1>c, <1>0, <1>1, <1>2, <1>3, <2>1, <3>1, <3>2 DEF OutputRight, At
    <2>3. CASE client'.pc # "receive"
      <3>1. client'.exit # 0
        BY <1>0, <1>2, <1>3, <1>6, <2>3 DEF WaitForResult, Exit, Fallback, ClientState
      <3> QED BY <1>c, <1>1, <2>1, <2>3, <3>1 DEF OutputRight, At
    <2> QED BY <2>2, <2>3
  <1>8. CASE receive_file /\ ~Compiled
    <2>1. At("receive") /\ client.tmp = 0 /\ client.file \in Files
      BY <1>0, <1>8 DEF receive_file, FilesInOrder, ClientState
    <2>2. Contents(0) = "empty"
      BY SizeAssumption DEF Contents
    <2>3. output' = output \/ output' = [output EXCEPT ![client.file] = "empty"]
      BY <1>8, <2>1, <2>2 DEF receive_file
    <2>4. \A f \in Files : output'[f] # "part"
      BY <1>0, <1>1, <2>1, <2>3
    <2> QED BY <1>c, <1>8, <2>4 DEF OutputRight
  <1>7. CASE receive_file /\ Compiled
    <2>0. At("receive") /\ client.file \in Files
      BY <1>0, <1>7 DEF receive_file, ClientState
    <2>1. CASE UNCHANGED output
      <3>1. \/ client' = [client EXCEPT !.tmp = @ + 1]
            \/ Fallback
            \/ from # <<>> /\ Kind(from) = "end" /\ output' = [output EXCEPT ![client.file] = Contents(client.tmp)]
        BY <1>7 DEF receive_file
      <3>2. CASE client' = [client EXCEPT !.tmp = @ + 1]
        <4>1. /\ client'.pc = client.pc /\ client'.file = client.file /\ client'.more = client.more
              /\ client'.exit = client.exit
          BY <1>0, <3>2 DEF ClientState
        <4> QED BY <1>c, <1>0, <2>1, <4>1 DEF OutputRight, At
      <3>3. CASE Fallback
        <4>1. client'.pc = "again" /\ client'.exit = client.exit
          BY <1>0, <3>3 DEF Fallback, ClientState
        <4> QED BY <1>c, <1>1, <1>2, <1>3, <2>1, <4>1 DEF OutputRight, At
      <3>4. CASE from # <<>> /\ Kind(from) = "end" /\ ~(client' = [client EXCEPT !.tmp = @ + 1]) /\ ~Fallback
        <4>1. output[client.file] = "object"
          <5>1. client.tmp = Object
            BY <1>7, <2>0, <3>4, NextMessage
          <5>2. output' = [output EXCEPT ![client.file] = "object"]
            BY <1>7, <3>4, <5>1 DEF receive_file, Contents
          <5> QED BY <1>0, <2>0, <2>1, <5>2
        <4>2. \/ client.more /\ client' = [client EXCEPT !.file = "dwo", !.tmp = 0, !.more = FALSE]
              \/ ~client.more /\ Exit(0)
          BY <1>7, <3>4 DEF receive_file
        <4>3. CASE client.more /\ client' = [client EXCEPT !.file = "dwo", !.tmp = 0, !.more = FALSE]
          <5>1. client'.file = "dwo" /\ client'.more = FALSE /\ client'.exit = client.exit /\ client.file = "obj"
            BY <1>0, <1>7, <2>0, <4>3 DEF ClientState, OutputRight, Files
          <5> QED BY <1>c, <1>1, <1>2, <1>3, <2>1, <4>1, <5>1 DEF OutputRight
        <4>4. CASE ~client.more /\ Exit(0)
          <5>1. client'.pc = "done"
            BY <1>0, <4>4 DEF Exit, ClientState
          <5>2. output["obj"] = "object" /\ (world.dwo => output["dwo"] = "object")
            BY <1>c, <1>7, <2>0, <4>1, <4>4 DEF OutputRight, Files
          <5> QED BY <1>c, <1>0, <1>1, <2>1, <5>1, <5>2 DEF OutputRight, At
        <4> QED BY <4>2, <4>3, <4>4
      <3> QED BY <3>1, <3>2, <3>3, <3>4
    <2>2. CASE ~UNCHANGED output
      <3>1. from # <<>> /\ Kind(from) = "end"
        BY <1>7, <2>2 DEF receive_file
      <3>2. client.tmp = Object
        BY <1>7, <2>0, <3>1, NextMessage
      <3>3. output' = [output EXCEPT ![client.file] = "object"]
        BY <1>7, <2>2, <3>2 DEF receive_file, Contents
      <3>4. /\ \A f \in Files : output'[f] \notin {"part", "empty"}
            /\ output'[client.file] = "object"
            /\ \A f \in Files : output[f] = "object" => output'[f] = "object"
        BY <1>0, <1>1, <1>7, <2>0, <3>3
      <3>5. \/ client.more /\ client' = [client EXCEPT !.file = "dwo", !.tmp = 0, !.more = FALSE]
            \/ ~client.more /\ Exit(0)
        BY <1>7, <2>2 DEF receive_file
      <3>6. CASE client.more /\ client' = [client EXCEPT !.file = "dwo", !.tmp = 0, !.more = FALSE]
        <4>1. client'.file = "dwo" /\ client'.more = FALSE /\ client'.exit = client.exit /\ client.file = "obj"
          BY <1>0, <1>7, <2>0, <3>6 DEF ClientState, OutputRight, Files
        <4> QED BY <1>c, <1>2, <1>3, <3>4, <4>1 DEF OutputRight
      <3>7. CASE ~client.more /\ Exit(0)
        <4>1. client'.pc = "done"
          BY <1>0, <3>7 DEF Exit, ClientState
        <4>2. output'["obj"] = "object" /\ (world.dwo => output'["dwo"] = "object")
          BY <1>c, <1>7, <2>0, <3>4, <3>7 DEF OutputRight, Files
        <4> QED BY <1>c, <1>0, <3>4, <4>1, <4>2 DEF OutputRight, At
      <3> QED BY <3>5, <3>6, <3>7
    <2> QED BY <2>1, <2>2
  <1> QED BY <1>4, <1>5, <1>6, <1>7, <1>8 DEF Client

-----------------------------------------------------------------------------
\* Every step keeps the whole invariant.
LEMMA CompileInductive == CompileInv /\ [Next]_vars => CompileInv'
  <1> SUFFICES ASSUME CompileInv, [Next]_vars PROVE CompileInv'
    OBVIOUS
  <1>1. Types' /\ Phases' /\ InputOrder'
    BY TypesInductive, InputInductive DEF CompileInv
  <1>2. CASE Client
    BY <1>1, <1>2, ClientStatus, ClientFiles, ClientOutput DEF CompileInv
  <1>3. CASE Server
    <2>1. UNCHANGED <<world, client, output>> /\ (~Compiled => ~Compiled')
      BY <1>3, ServerTypes, NoneIsStarted DEF CompileInv
    <2>2. OutputRight'
      BY <2>1 DEF CompileInv, OutputRight, At
    <2> QED BY <1>1, <1>3, <2>2, ServerStatus, ServerFiles DEF CompileInv
  <1>4. CASE Compiler \/ CompilerDies \/ Cut
    <2>1. /\ UNCHANGED <<world, client, output, server>> /\ (from' = from \/ from' = <<>>)
          /\ Compiled <=> Compiled'
      BY <1>4 DEF Compiler, CompilerDies, CompilerReads, CompilerWrites, CompilerEnds, Cut, Compiled
    <2>2. OutputRight'
      BY <2>1 DEF CompileInv, OutputRight, At
    <2>3. FilesInOrder'
      <3>1. CASE from' = from
        BY <2>1, <3>1 DEF CompileInv, FilesInOrder, At, Position, Expected
      <3>2. CASE from' = <<>>
        BY <2>1, <3>2 DEF CompileInv, FilesInOrder, At
      <3> QED BY <2>1, <3>1, <3>2
    <2> QED BY <1>1, <1>4, <2>2, <2>3, OthersStatus DEF CompileInv
  <1>5. CASE UNCHANGED vars
    <2>1. StatusTrue'
      BY <1>5 DEF vars, CompileInv, StatusTrue, Honest, Ended, At, Compiled
    <2>2. FilesInOrder'
      BY <1>5 DEF vars, CompileInv, FilesInOrder, At, Position, Expected, Compiled
    <2>3. OutputRight'
      BY <1>5 DEF vars, CompileInv, OutputRight, At, Compiled
    <2> QED BY <1>1, <2>1, <2>2, <2>3 DEF CompileInv
  <1> QED BY <1>2, <1>3, <1>4, <1>5 DEF Next, Done

\* It holds in the beginning.
LEMMA CompileInvBegins == Init => CompileInv
  <1> SUFFICES ASSUME Init PROVE CompileInv
    OBVIOUS
  <1>1. StatusTrue /\ FilesInOrder /\ OutputRight
    BY DEF Init, StatusTrue, FilesInOrder, OutputRight, At, Ended, None, Compiled, Files
  <1> QED BY <1>1, CompileBegins DEF CompileInv

\* Whatever the connection, the other host and the compiler do, a client that ends well
\* has compiled something that compiles, or had it from a host that could not start a
\* compiler, and one that fails has a reason of its own, or a compiler that crashed
\* (WaitForResult, work_it and the exit codes between them).
THEOREM ClientsExitHonestly == Spec => []ExitHonest
  <1>1. CompileInv => ExitHonest
    BY DEF CompileInv, StatusTrue, Honest, ExitHonest, None, EXIT_DISTCC_FAILED
  <1> QED BY <1>1, CompileInvBegins, CompileInductive, PTL DEF Spec

\* Output files are never parts at any time, and whole when the client ends well unless the
\* host that answered had started no compiler, in which case they are empty or whole: for
\* objects of any number of chunks and wherever the connection is cut (receive_file).
THEOREM OutputAlwaysWhole == Spec => []OutputWhole
  <1>1. CompileInv => OutputWhole
    BY DEF CompileInv, OutputRight, OutputWhole
  <1> QED BY <1>1, CompileInvBegins, CompileInductive, PTL DEF Spec
=============================================================================

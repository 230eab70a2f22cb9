------------------------------ MODULE Compile ------------------------------
(***************************************************************************)
(* One compilation: the client (client/main.cpp, client/remote.cpp), the   *)
(* daemon it is sent to with the process that serves it                    *)
(* (daemon/main.cpp, daemon/serve.cpp, daemon/workit.cpp), the compiler    *)
(* that process runs, and the connection between them.  The local daemon   *)
(* and the scheduler are the choices the client's requests to them leave   *)
(* open; Daemon and Scheduler model them.                                  *)
(***************************************************************************)
EXTENDS Integers, Sequences

CONSTANTS
    Source,     \* the chunks of the preprocessed source
    Object,     \* the chunks of an object file
    Diags       \* the most buffers of diagnostics (4095 bytes) a compiler writes

ASSUME SizeAssumption == Source \in Nat /\ Object \in Nat \ {0} /\ Diags \in Nat

VARIABLES
    world,      \* what is compiled: see Worlds
    client,     \* the client
    output,     \* its output files: none, empty, a part of an object, an object
    link,       \* the connection to the remote daemon
    to, from,   \* the messages on the way to the remote daemon, and back
    server,     \* the remote daemon and its child
    compiler,   \* the compiler the child runs
    report      \* the exit code that handle_compile_done sends to the scheduler

vars == <<world, client, output, link, to, from, server, compiler, report>>

None == 999
EXIT_DISTCC_FAILED == 100
EXIT_COMPILER_CRASHED == 104
EXIT_OUT_OF_MEMORY == 105
EXIT_IO_ERROR == 107
EXIT_COMPILER_MISSING == 110
EXIT_CLIENT_KILLED == 118
NotStarted == 117   \* what the daemon reports of a child it could not start
NotSaid == -1       \* what it reports of one that said nothing
OutOfMemory == {EXIT_OUT_OF_MEMORY, EXIT_IO_ERROR}

\* right: the source compiles; expands: cpp gets through it; directives_only: gcc -fdirectives-only
\* prepares it; dwo: there is debug information in a file of its own.
Worlds == {w \in [right : BOOLEAN, expands : BOOLEAN, directives_only : BOOLEAN, dwo : BOOLEAN] :
             w.expands \/ ~w.right \/ w.directives_only}
Files == {"obj", "dwo"}

Kind(m) == Head(m).kind
Plain(k) == [kind |-> k]
Result(status, oom, err, dwo) == [kind |-> "result", status |-> status, oom |-> oom, err |-> err, dwo |-> dwo]

-----------------------------------------------------------------------------
(***************************************************************************)
(* The connection.  A cut loses what is on the way; what is sent after it  *)
(* is lost, or the sender learns of it.  What was sent before an end was   *)
(* closed is still delivered.                                              *)
(***************************************************************************)
Cut ==
    /\ link = "up"
    /\ link' = "cut" /\ to' = <<>> /\ from' = <<>>
    /\ UNCHANGED <<world, client, output, server, compiler, report>>

SentByClient(ms) == IF link = "up" THEN to' = to \o ms ELSE UNCHANGED to
SentByServer(ms) == IF link = "up" THEN from' = from \o ms ELSE UNCHANGED from
ClientCanFail == link # "up"
ServerCanFail == link # "up"

ClosedByClient == /\ link' = IF link = "up" THEN "closed" ELSE IF link = "closed" THEN "closed" ELSE "none"
                  /\ from' = <<>>
ClosedByServer == /\ link' = IF link = "up" THEN "ended" ELSE IF link = "ended" THEN "ended" ELSE "none"
                  /\ to' = <<>>

ServerAtEof == to = <<>> /\ link \in {"cut", "closed", "none"}
ClientAtEof == from = <<>> /\ link \in {"cut", "ended", "none"}

-----------------------------------------------------------------------------
(***************************************************************************)
(* The client.                                                             *)
(***************************************************************************)
ClientUnchanged == UNCHANGED <<world, server, compiler, report>>
Apart == UNCHANGED <<link, to, from>>
At(pc) == client.pc = pc
Go(pc) == client' = [client EXCEPT !.pc = pc]
Exit(code) == client' = [client EXCEPT !.pc = "done", !.exit = code]

\* A client_error or a remote_error: the connection is given up, and the file in the making is
\* left or unlinked.
Fallback == /\ client' = [client EXCEPT !.pc = "again"]
            /\ ClosedByClient /\ UNCHANGED to

\* main: is there a local daemon, and has it a native environment?
main ==
    /\ At("start")
    /\ \E pc \in {"ask", "local", "nodaemon"} : Go(pc)
    /\ Apart /\ UNCHANGED output /\ ClientUnchanged

\* GetCS is answered by a host that has the environment or not, by this host, or not at all.
get_server ==
    /\ At("ask")
    /\ \/ \E got_env \in BOOLEAN : client' = [client EXCEPT !.pc = "connect", !.got_env = got_env]
       \/ Go("mine")
       \/ Go("again")
    /\ Apart /\ UNCHANGED output /\ ClientUnchanged

BuiltHere(ok) == IF ok THEN output' = [f \in Files |-> IF f = "obj" \/ world.dwo THEN "object" ELSE output[f]]
                 ELSE UNCHANGED output

\* maybe_build_local.  When the local daemon cannot be told, the client goes on as if another
\* host had to build.
maybe_build_local ==
    /\ At("mine")
    /\ \/ Go("again") /\ UNCHANGED output
       \/ BuiltHere(world.right) /\ Exit(IF world.right THEN 0 ELSE 1)
       \/ BuiltHere(world.right) /\ Go("connect")
    /\ Apart /\ ClientUnchanged

\* build_remote_int
connect ==
    /\ At("connect")
    /\ \/ /\ link' = "up" /\ to' = <<>> /\ from' = <<>>
          /\ Go(IF client.got_env THEN "compilefile" ELSE "transfer")
          /\ server' = [server EXCEPT !.pc = "daemon"]
       \/ Go("again") /\ Apart /\ UNCHANGED server
    /\ UNCHANGED <<world, output, compiler, report>>

TransferEnv ==
    /\ At("transfer")
    /\ \/ Go("verify") /\ SentByClient(<<Plain("env"), Plain("end"), Plain("verify")>>) /\ UNCHANGED <<link, from>>
       \/ ClientCanFail /\ Fallback
    /\ UNCHANGED output /\ ClientUnchanged

\* An answer of no also goes to the scheduler, as BlacklistHostEnv.
VerifyEnv ==
    /\ At("verify")
    /\ \/ /\ from # <<>> /\ Kind(from) = "verified" /\ Head(from).ok
          /\ Go("compilefile") /\ from' = Tail(from) /\ UNCHANGED <<link, to>>
       \/ from # <<>> /\ ~(Kind(from) = "verified" /\ Head(from).ok) /\ Fallback
       \/ from = <<>> /\ Fallback
    /\ UNCHANGED output /\ ClientUnchanged

\* With the lock of this host taken, cpp is started.
CompileFile ==
    /\ At("compilefile")
    /\ \/ Go("source") /\ SentByClient(<<Plain("compile")>>) /\ UNCHANGED <<link, from>>
       \/ ClientCanFail /\ Fallback
       \/ Exit(EXIT_DISTCC_FAILED) /\ ClosedByClient /\ UNCHANGED to
    /\ UNCHANGED output /\ ClientUnchanged

\* The lock of this host is given back for every chunk, and may not be had again; nor may the
\* chunk be sent.
write_fd_to_server ==
    /\ At("source") /\ client.sent < Source
    /\ \/ client' = [client EXCEPT !.sent = @ + 1] /\ SentByClient(<<Plain("chunk")>>) /\ UNCHANGED <<link, from>>
       \/ Fallback
    /\ UNCHANGED output /\ ClientUnchanged

\* cpp has ended, after all of its output or, if it failed, after a part of it.
WaitForCpp ==
    /\ At("source")
    /\ IF world.expands
       THEN /\ client.sent = Source
            /\ \/ Go("wait") /\ SentByClient(<<Plain("end")>>) /\ UNCHANGED <<link, from>>
               \/ ClientCanFail /\ Fallback
       ELSE IF world.directives_only THEN Fallback
       ELSE Exit(1) /\ ClosedByClient /\ UNCHANGED to
    /\ UNCHANGED output /\ ClientUnchanged

\* Fault: the client waits for ever.
WaitForResult_patient ==
    /\ At("wait")
    /\ from # <<>> /\ Fallback
    /\ UNCHANGED output /\ ClientUnchanged

\* Fault: that the server ran out of memory is not looked at.
WaitForResult_blind ==
    /\ At("wait")
    /\ IF from # <<>> /\ Kind(from) = "result" /\ Head(from).status # 0
       THEN Exit(Head(from).status) /\ ClosedByClient /\ UNCHANGED to
       ELSE Fallback
    /\ UNCHANGED output /\ ClientUnchanged

\* Out of memory, a file that is missing there and diagnostics that have to look the way they
\* do here are compiled again.
WaitForResult ==
    /\ At("wait")
    /\ \/ from = <<>> /\ Fallback
       \/ from # <<>> /\ Kind(from) # "result" /\ Fallback
       \/ /\ from # <<>> /\ Kind(from) = "result"
          /\ LET r == Head(from)
             IN  \/ r.status # 0 /\ r.oom /\ Fallback
                 \/ ~(r.status # 0 /\ r.oom) /\ r.err > 0 /\ Fallback
                 \/ ~(r.status # 0 /\ r.oom) /\ r.status # 0 /\ Exit(r.status) /\ ClosedByClient /\ UNCHANGED to
                 \/ /\ r.status = 0
                    /\ client' = [client EXCEPT !.pc = "receive", !.file = "obj", !.tmp = 0, !.more = r.dwo]
                    /\ from' = Tail(from) /\ UNCHANGED <<link, to>>
    /\ UNCHANGED output /\ ClientUnchanged

Contents(n) == IF n = Object THEN "object" ELSE IF n = 0 THEN "empty" ELSE "part"

\* Fault: the end of the connection is taken for the end of the file.
receive_file_eof ==
    /\ At("receive")
    /\ \/ /\ from # <<>> /\ Kind(from) = "chunk"
          /\ client' = [client EXCEPT !.tmp = @ + 1]
          /\ from' = Tail(from) /\ UNCHANGED <<link, to, output>>
       \/ /\ IF from = <<>> THEN TRUE ELSE Kind(from) # "chunk"
          /\ output' = [output EXCEPT ![client.file] = Contents(client.tmp)]
          /\ Exit(0) /\ ClosedByClient /\ UNCHANGED to
    /\ ClientUnchanged

\* Into a temporary file, which is renamed at the end.
receive_file ==
    /\ At("receive")
    /\ \/ /\ from # <<>> /\ Kind(from) = "chunk"
          /\ client' = [client EXCEPT !.tmp = @ + 1]
          /\ from' = Tail(from) /\ UNCHANGED <<link, to, output>>
       \/ /\ from # <<>> /\ Kind(from) = "end"
          /\ output' = [output EXCEPT ![client.file] = Contents(client.tmp)]
          /\ IF client.more
             THEN /\ client' = [client EXCEPT !.file = "dwo", !.tmp = 0, !.more = FALSE]
                  /\ from' = Tail(from) /\ UNCHANGED <<link, to>>
             ELSE Exit(0) /\ ClosedByClient /\ UNCHANGED to
       \/ Fallback /\ UNCHANGED output      \* nothing for 40 seconds, a status, or no space for the file
    /\ ClientUnchanged

\* The local build: the connection to the local daemon is made anew, and a slot asked for.
again ==
    /\ At("again")
    /\ \E pc \in {"local", "nodaemon"} : Go(pc)
    /\ Apart /\ UNCHANGED output /\ ClientUnchanged

\* It is compiled here, under the daemon's slot or under the lock of this host.
build_local ==
    /\ client.pc \in {"local", "nodaemon"}
    /\ \/ BuiltHere(world.right) /\ Exit(IF world.right THEN 0 ELSE 1)
       \/ At("local") /\ Go("nodaemon") /\ UNCHANGED output
       \/ At("nodaemon") /\ Exit(EXIT_DISTCC_FAILED) /\ UNCHANGED output
    /\ Apart /\ ClientUnchanged

Client ==
    \/ main \/ get_server \/ maybe_build_local \/ connect \/ TransferEnv \/ VerifyEnv \/ CompileFile
    \/ write_fd_to_server \/ WaitForCpp \/ WaitForResult \/ receive_file \/ again \/ build_local

-----------------------------------------------------------------------------
(***************************************************************************)
(* The remote daemon: it takes the environment and starts the child.       *)
(***************************************************************************)
ServerUnchanged == UNCHANGED <<world, client, output>>
ServerAt(pc) == server.pc = pc
ServerGo(pc) == server' = [server EXCEPT !.pc = pc]
Take == to' = Tail(to)

daemon ==
    /\ ServerAt("daemon")
    /\ \/ /\ to # <<>> /\ Kind(to) = "env"         \* handle_transfer_env
          /\ \/ ServerGo("install") /\ Take /\ UNCHANGED link
             \/ ServerGo("idle") /\ ClosedByServer
          /\ UNCHANGED from
       \/ /\ to # <<>> /\ Kind(to) = "verify"      \* handle_verify_env, which may say why not
          /\ \E ok \in {server.installed, FALSE}, why \in {<<>>, <<Plain("status")>>} :
                SentByServer((IF ok THEN <<>> ELSE why) \o <<[kind |-> "verified", ok |-> ok]>>)
          /\ Take /\ UNCHANGED <<server, link>>
       \/ /\ to # <<>> /\ Kind(to) = "compile"     \* handle_compile_file, handle_connection
          /\ ServerGo("check") /\ Take /\ UNCHANGED <<from, link>>
       \/ ServerAtEof /\ ServerGo("idle") /\ ClosedByServer /\ UNCHANGED from
    /\ UNCHANGED <<compiler, report>> /\ ServerUnchanged

\* The environment is unpacked, or cannot be.
install ==
    /\ ServerAt("install")
    /\ \/ /\ to # <<>> /\ Kind(to) = "end" /\ Take
          /\ \E ok \in BOOLEAN : server' = [server EXCEPT !.pc = "daemon", !.installed = ok]
          /\ UNCHANGED link
       \/ ServerAtEof /\ ServerGo("idle") /\ ClosedByServer
    /\ UNCHANGED <<from, compiler, report>> /\ ServerUnchanged

(***************************************************************************)
(* The child: handle_connection and work_it.                               *)
(***************************************************************************)
\* myexception: the exit code goes to the daemon, and the connection is closed.
Throw(code, said) ==
    /\ ServerGo("idle") /\ report' = code
    /\ from' = IF link = "up" THEN from \o said ELSE from
    /\ ClosedByServer

\* Out of memory, or of disk, before there is a compiler: the result keeps the status it was
\* made with, and what is left for write_output_file is not the work of a compiler.
NoCompiler(ret, obj_file) ==
    /\ server' = [server EXCEPT !.pc = "reply", !.return_value = ret, !.status = 0, !.stat = 0, !.err = 0,
                                !.obj_file = obj_file]
    /\ UNCHANGED <<compiler, link, to, from, report>>

\* work_it up to its loop.  The fork fails, when dcc_make_tmpnam has made the object file but
\* nobody the one of a job with debug information apart; or the compiler is started, and may
\* be said to miss its limits or its directory.
work_it ==
    \/ NoCompiler(EXIT_OUT_OF_MEMORY, IF world.dwo THEN "missing" ELSE "empty")
    \/ /\ ServerGo("recv")
       /\ compiler' = [compiler EXCEPT !.state = "running"]
       /\ \E said \in {<<>>, <<Plain("status")>>} : SentByServer(said)
       /\ UNCHANGED <<link, to, report>>

\* Why no compiler is started, as the client is told: there is none, or it does not start; the
\* environment has no name; it cannot be entered, which ends the child at once, or has no
\* directory to write to; it has none for the debug information.
Refusals == {EXIT_COMPILER_MISSING, EXIT_DISTCC_FAILED, NotSaid} \cup (IF world.dwo THEN {EXIT_IO_ERROR} ELSE {})

\* The child is started, it enters the environment, makes the file for the object and starts the
\* compiler, all of which may fail; the client is not told of pipes and files.
handle_connection ==
    /\ ServerAt("check")
    /\ \/ \E code \in Refusals : Throw(code, <<Plain("status")>>) /\ UNCHANGED compiler
       \/ \E code \in {NotStarted, EXIT_DISTCC_FAILED} : Throw(code, <<>>) /\ UNCHANGED compiler
       \/ \E ret \in OutOfMemory : NoCompiler(ret, "missing")
       \/ work_it
    /\ ServerUnchanged

Kill == compiler' = [compiler EXCEPT !.killed = TRUE]

\* The client is lost, or says what it should not.
LoseClient(code) ==
    /\ server' = [server EXCEPT !.pc = "poll", !.input_complete = TRUE, !.return_value = code,
                               !.client_fd = FALSE, !.fcmsg = FALSE]
    /\ Kill

\* The first half of the loop: a message, if one is there and the last was written
ReceiveInput ==
    /\ ServerAt("recv")
    /\ IF server.client_fd /\ ~server.fcmsg /\ to # <<>>
       THEN /\ Take
            /\ IF server.input_complete THEN LoseClient(EXIT_CLIENT_KILLED)
               ELSE IF Kind(to) = "end"
               THEN /\ server' = [server EXCEPT !.pc = "poll", !.input_complete = TRUE, !.sock_in = FALSE]
                    /\ UNCHANGED compiler
               ELSE IF Kind(to) = "chunk"
               THEN server' = [server EXCEPT !.pc = "poll", !.fcmsg = TRUE] /\ UNCHANGED compiler
               ELSE LoseClient(EXIT_IO_ERROR)
       ELSE IF server.client_fd /\ ~server.fcmsg /\ ServerAtEof
       THEN LoseClient(EXIT_IO_ERROR) /\ UNCHANGED to
       ELSE ServerGo("poll") /\ UNCHANGED <<compiler, to>>
    /\ UNCHANGED <<link, from, report>> /\ ServerUnchanged

Ended == compiler.state = "ended"
Chunk == server.fcmsg /\ server.sock_in

\* Fault: the end of the compiler is waited for from the start.
Watched_always == TRUE

\* death_pipe is polled when the whole input was read.
Watched == server.input_complete

DiagsReady == compiler.pending > 0
ClientReady == server.client_fd /\ (~server.fcmsg \/ ~server.sock_in) /\ (to # <<>> \/ ServerAtEof)
DeathReady == Watched /\ Ended
InputReady == Chunk /\ (compiler.stdin = 0 \/ Ended)

\* What work_it returns, with the status of the result and the exit code of the statistics.
WorkDone(status, ret, stat) ==
    server' = [server EXCEPT !.pc = "reply", !.status = status, !.stat = stat,
                             !.err = compiler.read + (IF DiagsReady THEN 1 ELSE 0), !.return_value = ret]

Death ==
    IF compiler.how \in OutOfMemory THEN WorkDone(EXIT_OUT_OF_MEMORY, compiler.how, 0)
    ELSE IF compiler.how = EXIT_COMPILER_CRASHED THEN WorkDone(EXIT_OUT_OF_MEMORY, server.return_value, 0)
    ELSE WorkDone(compiler.how, server.return_value, compiler.how)

\* The second half: what is ready when poll returns is dealt with, one buffer of each.
Poll ==
    /\ ServerAt("poll")
    /\ DiagsReady \/ ClientReady \/ DeathReady \/ InputReady
    /\ IF InputReady /\ Ended         \* the write fails, and the rest waits for the next round
       THEN /\ server' = [server EXCEPT !.pc = "recv", !.fcmsg = FALSE, !.sock_in = FALSE,
                             !.return_value = IF server.input_complete THEN EXIT_COMPILER_CRASHED ELSE @]
            /\ Kill
       ELSE /\ IF DeathReady THEN Death
               ELSE server' = [server EXCEPT !.pc = "recv", !.fcmsg = @ /\ server.sock_in /\ ~InputReady]
            /\ compiler' = [compiler EXCEPT !.stdin = IF InputReady THEN 1 ELSE @,
                               !.pending = IF DiagsReady THEN @ - 1 ELSE @,
                               !.read = IF DiagsReady THEN @ + 1 ELSE @]
    /\ UNCHANGED <<link, to, from, report>> /\ ServerUnchanged

\* Fault: only the connection is watched.
PollTimeout_never == ServerAt("poll") /\ FALSE /\ UNCHANGED vars

\* Nothing for a minute, while input is awaited
PollTimeout ==
    /\ ServerAt("poll") /\ ~server.input_complete
    /\ ~(DiagsReady \/ ClientReady \/ DeathReady \/ InputReady)
    /\ server' = [server EXCEPT !.pc = "recv", !.input_complete = TRUE, !.return_value = EXIT_IO_ERROR,
                               !.client_fd = FALSE, !.fcmsg = FALSE]
    /\ Kill
    /\ UNCHANGED <<link, to, from, report>> /\ ServerUnchanged

\* A compiler was there to write the object.
Compiled == server.obj_file = "compiled"

\* The result goes to the client, then the statistics to the daemon.
Reply ==
    /\ ServerAt("reply")
    /\ LET oom == server.return_value \in OutOfMemory
       IN  IF server.return_value # 0 /\ ~oom
           THEN Throw(server.return_value, <<>>)
           ELSE \/ /\ SentByServer(<<Result(server.status, oom, server.err, world.dwo /\ Compiled)>>)
                   /\ report' = server.stat
                   /\ server' = [server EXCEPT !.pc = "files", !.answered = TRUE]
                   /\ UNCHANGED <<link, to>>
                \/ ServerCanFail /\ Throw(EXIT_DISTCC_FAILED, <<>>)
    /\ UNCHANGED compiler /\ ServerUnchanged

Chunks == [i \in 1 .. Object |-> Plain("chunk")] \o <<Plain("end")>>

\* What follows a result that says the compiler was content.
FilesOfResult ==
    CASE server.obj_file = "empty"    -> <<Plain("end")>>
      [] server.obj_file = "missing"  -> <<Plain("status")>>
      [] server.obj_file = "compiled" -> IF world.dwo THEN Chunks \o Chunks ELSE Chunks

\* The files follow if the compiler was content; one that cannot be read or sent ends it.
write_output_file ==
    /\ ServerAt("files")
    /\ LET all == IF server.status # 0 THEN <<>> ELSE FilesOfResult
       IN  \E n \in 0 .. Len(all) : SentByServer(SubSeq(all, 1, n))
    /\ ServerGo("idle") /\ ClosedByServer
    /\ UNCHANGED <<compiler, report>> /\ ServerUnchanged

Server ==
    \/ daemon \/ install \/ handle_connection \/ ReceiveInput \/ Poll \/ PollTimeout \/ Reply
    \/ write_output_file

-----------------------------------------------------------------------------
(***************************************************************************)
(* The compiler.  It may end at any time, for the source, for itself or    *)
(* for its host, or never.                                                 *)
(***************************************************************************)
CompilerReads ==
    /\ compiler.state = "running" /\ compiler.stdin = 1
    /\ compiler' = [compiler EXCEPT !.stdin = 0]
    /\ UNCHANGED <<world, client, output, link, to, from, server, report>>

CompilerWrites ==
    /\ compiler.state = "running" /\ compiler.pending + compiler.read < Diags
    /\ compiler' = [compiler EXCEPT !.pending = @ + 1]
    /\ UNCHANGED <<world, client, output, link, to, from, server, report>>

WholeInputRead == compiler.stdin = 0 /\ ~server.sock_in

CompilerEnds(how) ==
    /\ compiler.state = "running"
    /\ how = 0 => world.right /\ WholeInputRead
    /\ how = 1 => ~world.right
    /\ compiler' = [compiler EXCEPT !.state = "ended", !.how = how]
    /\ UNCHANGED <<world, client, output, link, to, from, server, report>>

\* SIGTERM
CompilerDies == compiler.killed /\ CompilerEnds(EXIT_COMPILER_CRASHED)

-----------------------------------------------------------------------------
Init ==
    /\ world \in Worlds
    /\ client = [pc |-> "start", exit |-> None, got_env |-> TRUE, sent |-> 0, file |-> "obj", tmp |-> 0,
                 more |-> FALSE]
    /\ output = [f \in Files |-> "none"]
    /\ link = "none" /\ to = <<>> /\ from = <<>>
    /\ server = [pc |-> "idle", installed |-> FALSE, client_fd |-> TRUE, input_complete |-> FALSE,
                 fcmsg |-> FALSE, sock_in |-> TRUE, return_value |-> 0, status |-> 0, stat |-> 0, err |-> 0,
                 answered |-> FALSE, obj_file |-> "compiled"]
    /\ compiler = [state |-> "none", killed |-> FALSE, stdin |-> 0, pending |-> 0, read |-> 0, how |-> 0]
    /\ report = None

\* The client is done, and so is everybody else.
Done ==
    /\ At("done") /\ ServerAt("idle") /\ compiler.state # "running"
    /\ UNCHANGED vars

Compiler ==
    \/ CompilerReads \/ CompilerWrites
    \/ \E how \in {0, 1, EXIT_COMPILER_CRASHED} \cup OutOfMemory : CompilerEnds(how)

Next == Client \/ Server \/ Compiler \/ CompilerDies \/ Cut \/ Done

\* The processes run: what they wait for comes or the time they wait has passed.  A compiler
\* that was sent SIGTERM ends; one that was not may run for ever.
Spec == Init /\ [][Next]_vars /\ WF_vars(Client) /\ WF_vars(Server) /\ WF_vars(CompilerDies)

-----------------------------------------------------------------------------
\* Whatever happens to the connection, the output files are never parts of objects, and they
\* are there when the client ends well: receive_file renames them when they are complete, and
\* a local build replaces what is missing.  Only a host that had no compiler running, and said
\* that all was well, leaves an empty object, and that one exactly.
OutputWhole ==
    /\ \A f \in Files : output[f] # "part" /\ (output[f] = "empty" => ~Compiled)
    /\ client.exit = 0 /\ Compiled => output["obj"] = "object" /\ (world.dwo => output["dwo"] = "object")

\* No trouble of another host fails a build: the exit code is that of the source, but for the
\* lock of this host that cannot be had, and a compiler that crashes there.  No other host
\* makes a wrong source right, but the one that could not start a compiler.
ExitHonest ==
    /\ client.exit = 0 => world.right \/ ~Compiled
    /\ client.exit \notin {0, None} =>
         \/ ~world.right
         \/ client.exit = EXIT_DISTCC_FAILED
         \/ client.exit = EXIT_OUT_OF_MEMORY /\ compiler.how = EXIT_COMPILER_CRASHED

\* "it might close the client socket before the client had time to write all of the file data":
\* a compiler that ends early is answered for when all was read, unless the child has given the
\* client up.
AnswerAfterInput == At("source") /\ server.answered /\ Compiled => ~server.client_fd

\* "the server ran out of memory, recompiling locally" (remote.cpp:702), of which "we catch
\* that as special case" (serve.cpp:275) is the other half: a client that ends well has an
\* object.
OutOfMemoryRecompiled == client.exit = 0 => output["obj"] = "object"

\* The client ends, whatever the hosts and the connection do.
ClientEnds == <>At("done")

\* A job that was started is reported to the scheduler, though the compiler hangs, reads none of
\* its input, or has lost its client.
JobReported == ServerAt("check") ~> report # None

\* "we have already read any remaining stdout/stderr": when the compiler has ended and the
\* result is made, none of its diagnostics is left in the pipe.
AllOutputRead == server.pc \in {"reply", "files"} => compiler.pending = 0
=============================================================================

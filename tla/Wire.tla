-------------------------------- MODULE Wire --------------------------------
(***************************************************************************)
(* What the messages look like on the wire (services/comm.cpp): per        *)
(* message what send_to_channel writes and what fill_from_channel reads at *)
(* protocol version p, as the sequence of the members with their types.    *)
(* Every message starts with its type; Msg::fill_from_channel leaves that  *)
(* to get_msg.  Writer and reader are separate code and each checks the    *)
(* negotiated version for itself, so they are separate definitions here.   *)
(*                                                                         *)
(* U a number, S a string, L a list of strings, E environments, D a        *)
(* compressed block.                                                       *)
(***************************************************************************)
EXTENDS Integers, Sequences

PROTOCOL_VERSION == 45
MIN_PROTOCOL_VERSION == 21
Protocols == MIN_PROTOCOL_VERSION .. PROTOCOL_VERSION

U(x) == <<"uint32_t", x>>
S(x) == <<"string", x>>
L(x) == <<"list", x>>
E(x) == <<"Environments", x>>

\* if (IS_PROTOCOL_VERSION(v, c)) { ... }
From(v, p, fields) == IF p >= v THEN fields ELSE <<>>

(***************************************************************************)
(* Clients, daemons and scheduler: asking for a compile server.            *)
(***************************************************************************)
GetCS_send(p) ==
    <<E("versions"), S("filename"), U("lang"), U("count"), S("target"), U("arg_flags"),
      U("client_id")>>
    \o From(22, p, <<S("preferred_host")>>)
    \o From(31, p, <<U("is_31")>>)
    \o From(34, p, <<U("minimal_host_version")>>)
    \o From(39, p, <<U("client_count")>>)
    \o From(42, p, <<U("required_features")>>)
    \o From(43, p, <<U("niceness")>>)

\* Fault: a new member is read from a version too old.
GetCS_fill_early(p) ==
    <<E("versions"), S("filename"), U("lang"), U("count"), S("target"), U("arg_flags"),
      U("client_id")>>
    \o From(22, p, <<S("preferred_host")>>)
    \o From(31, p, <<U("is_31")>>)
    \o From(34, p, <<U("minimal_host_version")>>)
    \o From(39, p, <<U("client_count")>>)
    \o From(42, p, <<U("required_features"), U("niceness")>>)

GetCS_fill(p) ==
    <<E("versions"), S("filename"), U("lang"), U("count"), S("target"), U("arg_flags"),
      U("client_id")>>
    \o From(22, p, <<S("preferred_host")>>)
    \o From(31, p, <<U("is_31")>>)
    \o From(34, p, <<U("minimal_host_version")>>)
    \o From(39, p, <<U("client_count")>>)
    \o From(42, p, <<U("required_features")>>)
    \o From(43, p, <<U("niceness")>>)

UseCS_send(p) ==
    <<U("job_id"), U("port"), S("hostname"), S("host_platform"), U("got_env"), U("client_id")>>
    \o From(28, p, <<U("matched_job_id")>>)

UseCS_fill(p) ==
    <<U("job_id"), U("port"), S("hostname"), S("host_platform"), U("got_env"), U("client_id")>>
    \o From(28, p, <<U("matched_job_id")>>)

NoCS_send(p) == <<U("job_id"), U("client_id")>>
NoCS_fill(p) == <<U("job_id"), U("client_id")>>

(***************************************************************************)
(* Client and compile server: source, result, environments.  Up to         *)
(* protocol 40 the arguments are two lists; compressed blocks name their   *)
(* compression from 40 on.                                                 *)
(***************************************************************************)
CompileFile_send(p) ==
    <<U("language"), U("job_id")>>
    \o (IF p >= 41 THEN <<L("flags")>> ELSE <<L("remoteFlags"), L("restFlags")>>)
    \o <<S("environmentVersion"), S("targetPlatform")>>
    \o From(30, p, <<S("compilerName")>>)
    \o From(34, p, <<S("inputFile"), S("workingDirectory")>>)
    \o From(35, p, <<S("outputFile"), U("dwarfFissionEnabled")>>)

CompileFile_fill(p) ==
    <<U("language"), U("job_id")>>
    \o (IF p >= 41 THEN <<L("flags")>> ELSE <<L("remoteFlags"), L("restFlags")>>)
    \o <<S("environmentVersion"), S("targetPlatform")>>
    \o From(30, p, <<S("compilerName")>>)
    \o From(34, p, <<S("inputFile"), S("workingDirectory")>>)
    \o From(35, p, <<S("outputFile"), U("dwarfFissionEnabled")>>)

writecompressed(p) ==
    <<U("uncompressed_len"), U("compressed_len")>> \o From(40, p, <<U("proto")>>)
    \o <<<<"block", "data">>>>

readcompressed(p) ==
    <<U("uncompressed_len"), U("compressed_len")>> \o From(40, p, <<U("proto")>>)
    \o <<<<"block", "data">>>>

CompileResult_send(p) ==
    <<S("err"), S("out"), U("status"), U("was_out_of_memory")>> \o From(35, p, <<U("have_dwo_file")>>)

CompileResult_fill(p) ==
    <<S("err"), S("out"), U("status"), U("was_out_of_memory")>> \o From(35, p, <<U("have_dwo_file")>>)

GetNativeEnv_send(p) ==
    From(32, p, <<S("compiler"), L("extrafiles")>>) \o From(42, p, <<S("compression")>>)

GetNativeEnv_fill(p) ==
    From(32, p, <<S("compiler"), L("extrafiles")>>) \o From(42, p, <<S("compression")>>)

UseNativeEnv_send(p) == <<S("nativeVersion")>>
UseNativeEnv_fill(p) == <<S("nativeVersion")>>
EnvTransfer_send(p) == <<S("name"), S("target")>>
EnvTransfer_fill(p) == <<S("name"), S("target")>>
VerifyEnv_send(p) == <<S("environment"), S("target")>>
VerifyEnv_fill(p) == <<S("environment"), S("target")>>
VerifyEnvResult_send(p) == <<U("ok")>>
VerifyEnvResult_fill(p) == <<U("ok")>>
BlacklistHostEnv_send(p) == <<S("environment"), S("target"), S("hostname")>>
BlacklistHostEnv_fill(p) == <<S("environment"), S("target"), S("hostname")>>

(***************************************************************************)
(* Daemon and scheduler: the life of a job, login and statistics.          *)
(***************************************************************************)
JobBegin_send(p) == <<U("job_id"), U("stime")>> \o From(39, p, <<U("client_count")>>)
JobBegin_fill(p) == <<U("job_id"), U("stime")>> \o From(39, p, <<U("client_count")>>)

JobLocalBegin_send(p) ==
    <<U("stime"), S("outfile"), U("id")>>
    \o From(44, p, <<U("fulljob")>>) \o From(45, p, <<U("niceness")>>)

JobLocalBegin_fill(p) ==
    <<U("stime"), S("outfile"), U("id")>>
    \o From(44, p, <<U("fulljob")>>) \o From(45, p, <<U("niceness")>>)

JobLocalDone_send(p) == <<U("job_id")>>
JobLocalDone_fill(p) == <<U("job_id")>>

JobDone_send(p) ==
    <<U("job_id"), U("exitcode"), U("real_msec"), U("user_msec"), U("sys_msec"), U("pfaults"),
      U("in_compressed"), U("in_uncompressed"), U("out_compressed"), U("out_uncompressed"),
      U("flags")>>
    \o From(39, p, <<U("client_count")>>)

JobDone_fill(p) ==
    <<U("job_id"), U("exitcode"), U("real_msec"), U("user_msec"), U("sys_msec"), U("pfaults"),
      U("in_compressed"), U("in_uncompressed"), U("out_compressed"), U("out_uncompressed"),
      U("flags")>>
    \o From(39, p, <<U("client_count")>>)

Login_send(p) ==
    <<U("port"), U("max_kids"), E("envs"), S("nodename"), S("host_platform"), U("chroot_possible")>>
    \o From(26, p, <<U("noremote")>>) \o From(42, p, <<U("supported_features")>>)

Login_fill(p) ==
    <<U("port"), U("max_kids"), E("envs"), S("nodename"), S("host_platform"), U("chroot_possible")>>
    \o From(26, p, <<U("noremote")>>) \o From(42, p, <<U("supported_features")>>)

ConfCS_send(p) == <<U("max_scheduler_pong"), U("max_scheduler_ping"), S("bench_source")>>
ConfCS_fill(p) == <<U("max_scheduler_pong"), U("max_scheduler_ping"), S("bench_source")>>

Stats_send(p) == <<U("load"), U("loadAvg1"), U("loadAvg5"), U("loadAvg10"), U("freeMem")>>
Stats_fill(p) == <<U("load"), U("loadAvg1"), U("loadAvg5"), U("loadAvg10"), U("freeMem")>>

(***************************************************************************)
(* Scheduler and monitors.  A monitor older than 29 gets the whole GetCS.  *)
(***************************************************************************)
MonGetCS_send(p) ==
    (IF p >= 29 THEN <<S("filename"), U("lang")>> ELSE GetCS_send(p)) \o <<U("job_id"), U("clientid")>>

MonGetCS_fill(p) ==
    (IF p >= 29 THEN <<S("filename"), U("lang")>> ELSE GetCS_fill(p)) \o <<U("job_id"), U("clientid")>>

MonJobBegin_send(p) == <<U("job_id"), U("stime"), U("hostid")>>
MonJobBegin_fill(p) == <<U("job_id"), U("stime"), U("hostid")>>
MonLocalJobBegin_send(p) == <<U("hostid"), U("job_id"), U("stime"), S("file")>>
MonLocalJobBegin_fill(p) == <<U("hostid"), U("job_id"), U("stime"), S("file")>>
MonStats_send(p) == <<U("hostid"), S("statmsg")>>
MonStats_fill(p) == <<U("hostid"), S("statmsg")>>
StatusText_send(p) == <<S("text")>>
StatusText_fill(p) == <<S("text")>>

-----------------------------------------------------------------------------
(***************************************************************************)
(* Members that are not written as they are.                               *)
(***************************************************************************)
MaxOf(a, b) == IF a >= b THEN a ELSE b

\* A request for features needs a host that knows them (the constructor).
minimal_host_version(version, required_features) ==
    IF required_features # 0 THEN MaxOf(version, 42) ELSE version

\* Fault: the number replaces the flag of version 31 without regard to what it says.
MinimalVersionRead_flag(p, version) ==
    LET ign == p >= 31 /\ version >= 0
    IN  MaxOf(IF ign THEN 31 ELSE 0, IF p >= 34 THEN version ELSE 0)

\* Versions 31 to 33 had the minimal version as a flag of its own, older ones have none.
MinimalVersionRead(p, version) ==
    LET ign == p >= 31 /\ version >= 31
    IN  MaxOf(IF ign THEN 31 ELSE 0, IF p >= 34 THEN version ELSE 0)

\* Before 39 an unknown job id was told by this exit code.
UNKNOWN_JOB_EXIT == 200

ExitcodeWritten(p, exitcode, unknown) ==
    IF p < 39 /\ unknown THEN UNKNOWN_JOB_EXIT ELSE exitcode

UnknownJobIdRead(p, exitcode, unknown) ==
    unknown \/ (p < 39 /\ exitcode = UNKNOWN_JOB_EXIT)

-----------------------------------------------------------------------------
Writes(p) ==
    [GetCS |-> GetCS_send(p), UseCS |-> UseCS_send(p), NoCS |-> NoCS_send(p),
     CompileFile |-> CompileFile_send(p), FileChunk |-> writecompressed(p),
     CompileResult |-> CompileResult_send(p), GetNativeEnv |-> GetNativeEnv_send(p),
     UseNativeEnv |-> UseNativeEnv_send(p), EnvTransfer |-> EnvTransfer_send(p),
     VerifyEnv |-> VerifyEnv_send(p), VerifyEnvResult |-> VerifyEnvResult_send(p),
     BlacklistHostEnv |-> BlacklistHostEnv_send(p), JobBegin |-> JobBegin_send(p),
     JobLocalBegin |-> JobLocalBegin_send(p), JobLocalDone |-> JobLocalDone_send(p),
     JobDone |-> JobDone_send(p), MonJobDone |-> JobDone_send(p), Login |-> Login_send(p),
     ConfCS |-> ConfCS_send(p), Stats |-> Stats_send(p), MonGetCS |-> MonGetCS_send(p),
     MonJobBegin |-> MonJobBegin_send(p), MonLocalJobBegin |-> MonLocalJobBegin_send(p),
     MonStats |-> MonStats_send(p), StatusText |-> StatusText_send(p),
     Ping |-> <<>>, End |-> <<>>, MonLogin |-> <<>>, GetInternals |-> <<>>]

\* What get_msg makes of a type: the message whose fill_from_channel it calls.
Reads(p) ==
    [GetCS |-> GetCS_fill(p), UseCS |-> UseCS_fill(p), NoCS |-> NoCS_fill(p),
     CompileFile |-> CompileFile_fill(p), FileChunk |-> readcompressed(p),
     CompileResult |-> CompileResult_fill(p), GetNativeEnv |-> GetNativeEnv_fill(p),
     UseNativeEnv |-> UseNativeEnv_fill(p), EnvTransfer |-> EnvTransfer_fill(p),
     VerifyEnv |-> VerifyEnv_fill(p), VerifyEnvResult |-> VerifyEnvResult_fill(p),
     BlacklistHostEnv |-> BlacklistHostEnv_fill(p), JobBegin |-> JobBegin_fill(p),
     JobLocalBegin |-> JobLocalBegin_fill(p), JobLocalDone |-> JobLocalDone_fill(p),
     JobDone |-> JobDone_fill(p), MonJobDone |-> JobDone_fill(p), Login |-> Login_fill(p),
     ConfCS |-> ConfCS_fill(p), Stats |-> Stats_fill(p), MonGetCS |-> MonGetCS_fill(p),
     MonJobBegin |-> MonJobBegin_fill(p), MonLocalJobBegin |-> MonLocalJobBegin_fill(p),
     MonStats |-> MonStats_fill(p), StatusText |-> StatusText_fill(p),
     Ping |-> <<>>, End |-> <<>>, MonLogin |-> <<>>, GetInternals |-> <<>>]

MsgTypes == DOMAIN Writes(PROTOCOL_VERSION)
=============================================================================

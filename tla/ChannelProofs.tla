---------------------------- MODULE ChannelProofs ----------------------------
(***************************************************************************)
(* Proofs about module MsgChannel, for ends of any releases, any messages, *)
(* numbers of any size and streams that are cut anywhere.                  *)
(*                                                                         *)
(* The invariant says what is on its way in one direction: the bytes that  *)
(* the receiver has read and not consumed, those in the stream, and those  *)
(* in the sender's buffer, one after the other, are what is left of the    *)
(* sender's two versions and of the messages it has sent.  Marks tell      *)
(* where each message ends, counted from the first byte that the receiver  *)
(* has not consumed.                                                       *)
(***************************************************************************)
EXTENDS MsgChannel, TLAPS

-----------------------------------------------------------------------------
(* The two ends *)

\* There are two ends, each the other's other.
LEMMA TwoEnds ==
    ASSUME NEW e \in End
    PROVE  Other(e) \in End /\ Other(e) # e /\ Other(Other(e)) = e /\ End = {e, Other(e)}
  <1>1. PICK a \in End, b \in End : a # b /\ End = {a, b}
    BY EndAssumption
  <1>2. \E o \in End : o # e
    BY <1>1
  <1>3. Other(e) \in End /\ Other(e) # e
    BY <1>2 DEF Other
  <1>4. Other(Other(e)) \in End /\ Other(Other(e)) # Other(e)
    <2>1. \E o \in End : o # Other(e)
      BY <1>3
    <2> QED BY <2>1 DEF Other
  <1> QED BY <1>1, <1>3, <1>4

-----------------------------------------------------------------------------
(* The messages *)

\* The members that messages are made of.
Member ==
    {E("versions"), S("filename"), U("lang"), U("count"), S("target"), U("arg_flags"),
     U("client_id"), S("preferred_host"), U("is_31"), U("minimal_host_version"),
     U("client_count"), U("required_features"), U("niceness"), U("job_id"), U("port"),
     S("hostname"), S("host_platform"), U("got_env"), U("matched_job_id"), U("language"),
     L("flags"), L("remoteFlags"), L("restFlags"), S("environmentVersion"), S("targetPlatform"),
     S("compilerName"), S("inputFile"), S("workingDirectory"), S("outputFile"),
     U("dwarfFissionEnabled"), U("uncompressed_len"), U("compressed_len"), U("proto"), S("err"),
     S("out"), U("status"), U("was_out_of_memory"), U("have_dwo_file"), S("compiler"),
     L("extrafiles"), S("compression"), S("nativeVersion"), S("name"), S("environment"), U("ok"),
     U("stime"), S("outfile"), U("id"), U("fulljob"), U("exitcode"), U("real_msec"),
     U("user_msec"), U("sys_msec"), U("pfaults"), U("in_compressed"), U("in_uncompressed"),
     U("out_compressed"), U("out_uncompressed"), U("flags"), U("max_kids"), E("envs"),
     S("nodename"), U("chroot_possible"), U("noremote"), U("supported_features"),
     U("max_scheduler_pong"), U("max_scheduler_ping"), S("bench_source"), U("load"),
     U("loadAvg1"), U("loadAvg5"), U("loadAvg10"), U("freeMem"), U("clientid"), U("hostid"),
     S("file"), S("statmsg"), S("text"), <<"block", "data">>}

\* Optional members.
LEMMA FromMembers ==
    ASSUME NEW v, NEW p, NEW members \in Seq(Member)
    PROVE  From(v, p, members) \in Seq(Member)
  BY DEF From

\* Members, one after the other.
LEMMA JoinedMembers ==
    ASSUME NEW front \in Seq(Member), NEW rest \in Seq(Member)
    PROVE  front \o rest \in Seq(Member)
  OBVIOUS

\* A version writes and reads the same members of every message.
LEMMA WireSame ==
    ASSUME NEW p
    PROVE  Writes(p) = Reads(p)
  BY DEF Writes, Reads, GetCS_send, GetCS_fill, UseCS_send, UseCS_fill, NoCS_send, NoCS_fill,
         CompileFile_send, CompileFile_fill, writecompressed, readcompressed, CompileResult_send,
         CompileResult_fill, GetNativeEnv_send, GetNativeEnv_fill, UseNativeEnv_send, UseNativeEnv_fill,
         EnvTransfer_send, EnvTransfer_fill, VerifyEnv_send, VerifyEnv_fill, VerifyEnvResult_send,
         VerifyEnvResult_fill, BlacklistHostEnv_send, BlacklistHostEnv_fill, JobBegin_send, JobBegin_fill,
         JobLocalBegin_send, JobLocalBegin_fill, JobLocalDone_send, JobLocalDone_fill, JobDone_send,
         JobDone_fill, Login_send, Login_fill, ConfCS_send, ConfCS_fill, Stats_send, Stats_fill,
         MonGetCS_send, MonGetCS_fill, MonJobBegin_send, MonJobBegin_fill, MonLocalJobBegin_send,
         MonLocalJobBegin_fill, MonStats_send, MonStats_fill, StatusText_send, StatusText_fill

\* Every message is a sequence of members.
LEMMA WireFields ==
    ASSUME NEW p
    PROVE  \A t \in MsgTypes : Writes(p)[t] \in Seq(Member)
  <1>1. GetCS_send(p) \in Seq(Member)
    <2>1. <<E("versions"), S("filename"), U("lang"), U("count"), S("target"), U("arg_flags"),
          U("client_id")>> \in Seq(Member)
      BY DEF Member
    <2>2. <<S("preferred_host")>> \in Seq(Member)
      BY DEF Member
    <2>3. <<U("is_31")>> \in Seq(Member)
      BY DEF Member
    <2>4. <<U("minimal_host_version")>> \in Seq(Member)
      BY DEF Member
    <2>5. <<U("client_count")>> \in Seq(Member)
      BY DEF Member
    <2>6. <<U("required_features")>> \in Seq(Member)
      BY DEF Member
    <2>7. <<U("niceness")>> \in Seq(Member)
      BY DEF Member
    <2> QED
      BY <2>1, <2>2, <2>3, <2>4, <2>5, <2>6, <2>7, FromMembers, JoinedMembers DEF GetCS_send
  <1>2. UseCS_send(p) \in Seq(Member)
    <2>1. <<U("job_id"), U("port"), S("hostname"), S("host_platform"), U("got_env"),
          U("client_id")>> \in Seq(Member)
      BY DEF Member
    <2>2. <<U("matched_job_id")>> \in Seq(Member)
      BY DEF Member
    <2> QED
      BY <2>1, <2>2, FromMembers, JoinedMembers DEF UseCS_send
  <1>3. NoCS_send(p) \in Seq(Member)
    BY DEF NoCS_send, Member
  <1>4. CompileFile_send(p) \in Seq(Member)
    <2>1. <<U("language"), U("job_id")>> \in Seq(Member)
      BY DEF Member
    <2>2. <<L("flags")>> \in Seq(Member)
      BY DEF Member
    <2>3. <<L("remoteFlags"), L("restFlags")>> \in Seq(Member)
      BY DEF Member
    <2>4. <<S("environmentVersion"), S("targetPlatform")>> \in Seq(Member)
      BY DEF Member
    <2>5. <<S("compilerName")>> \in Seq(Member)
      BY DEF Member
    <2>6. <<S("inputFile"), S("workingDirectory")>> \in Seq(Member)
      BY DEF Member
    <2>7. <<S("outputFile"), U("dwarfFissionEnabled")>> \in Seq(Member)
      BY DEF Member
    <2> QED
      BY <2>1, <2>2, <2>3, <2>4, <2>5, <2>6, <2>7, FromMembers, JoinedMembers DEF CompileFile_send
  <1>5. writecompressed(p) \in Seq(Member)
    <2>1. <<U("uncompressed_len"), U("compressed_len")>> \in Seq(Member)
      BY DEF Member
    <2>2. <<U("proto")>> \in Seq(Member)
      BY DEF Member
    <2>3. <<<<"block", "data">>>> \in Seq(Member)
      BY DEF Member
    <2> QED
      BY <2>1, <2>2, <2>3, FromMembers, JoinedMembers DEF writecompressed
  <1>6. CompileResult_send(p) \in Seq(Member)
    <2>1. <<S("err"), S("out"), U("status"), U("was_out_of_memory")>> \in Seq(Member)
      BY DEF Member
    <2>2. <<U("have_dwo_file")>> \in Seq(Member)
      BY DEF Member
    <2> QED
      BY <2>1, <2>2, FromMembers, JoinedMembers DEF CompileResult_send
  <1>7. GetNativeEnv_send(p) \in Seq(Member)
    <2>1. <<S("compiler"), L("extrafiles")>> \in Seq(Member)
      BY DEF Member
    <2>2. <<S("compression")>> \in Seq(Member)
      BY DEF Member
    <2> QED
      BY <2>1, <2>2, FromMembers, JoinedMembers DEF GetNativeEnv_send
  <1>8. UseNativeEnv_send(p) \in Seq(Member)
    BY DEF UseNativeEnv_send, Member
  <1>9. EnvTransfer_send(p) \in Seq(Member)
    BY DEF EnvTransfer_send, Member
  <1>10. VerifyEnv_send(p) \in Seq(Member)
    BY DEF VerifyEnv_send, Member
  <1>11. VerifyEnvResult_send(p) \in Seq(Member)
    BY DEF VerifyEnvResult_send, Member
  <1>12. BlacklistHostEnv_send(p) \in Seq(Member)
    BY DEF BlacklistHostEnv_send, Member
  <1>13. JobBegin_send(p) \in Seq(Member)
    <2>1. <<U("job_id"), U("stime")>> \in Seq(Member)
      BY DEF Member
    <2>2. <<U("client_count")>> \in Seq(Member)
      BY DEF Member
    <2> QED
      BY <2>1, <2>2, FromMembers, JoinedMembers DEF JobBegin_send
  <1>14. JobLocalBegin_send(p) \in Seq(Member)
    <2>1. <<U("stime"), S("outfile"), U("id")>> \in Seq(Member)
      BY DEF Member
    <2>2. <<U("fulljob")>> \in Seq(Member)
      BY DEF Member
    <2>3. <<U("niceness")>> \in Seq(Member)
      BY DEF Member
    <2> QED
      BY <2>1, <2>2, <2>3, FromMembers, JoinedMembers DEF JobLocalBegin_send
  <1>15. JobLocalDone_send(p) \in Seq(Member)
    BY DEF JobLocalDone_send, Member
  <1>16. JobDone_send(p) \in Seq(Member)
    <2>1. <<U("job_id"), U("exitcode"), U("real_msec"), U("user_msec"), U("sys_msec"),
          U("pfaults"), U("in_compressed"), U("in_uncompressed"), U("out_compressed"), U("out_uncompressed"), U("flags")>> \in Seq(Member)
      BY DEF Member
    <2>2. <<U("client_count")>> \in Seq(Member)
      BY DEF Member
    <2> QED
      BY <2>1, <2>2, FromMembers, JoinedMembers DEF JobDone_send
  <1>17. Login_send(p) \in Seq(Member)
    <2>1. <<U("port"), U("max_kids"), E("envs"), S("nodename"), S("host_platform"),
          U("chroot_possible")>> \in Seq(Member)
      BY DEF Member
    <2>2. <<U("noremote")>> \in Seq(Member)
      BY DEF Member
    <2>3. <<U("supported_features")>> \in Seq(Member)
      BY DEF Member
    <2> QED
      BY <2>1, <2>2, <2>3, FromMembers, JoinedMembers DEF Login_send
  <1>18. ConfCS_send(p) \in Seq(Member)
    BY DEF ConfCS_send, Member
  <1>19. Stats_send(p) \in Seq(Member)
    BY DEF Stats_send, Member
  <1>20. MonGetCS_send(p) \in Seq(Member)
    <2>1. <<S("filename"), U("lang")>> \in Seq(Member)
      BY DEF Member
    <2>2. <<U("job_id"), U("clientid")>> \in Seq(Member)
      BY DEF Member
    <2> QED
      BY <2>1, <2>2, <1>1, FromMembers, JoinedMembers DEF MonGetCS_send
  <1>21. MonJobBegin_send(p) \in Seq(Member)
    BY DEF MonJobBegin_send, Member
  <1>22. MonLocalJobBegin_send(p) \in Seq(Member)
    BY DEF MonLocalJobBegin_send, Member
  <1>23. MonStats_send(p) \in Seq(Member)
    BY DEF MonStats_send, Member
  <1>24. StatusText_send(p) \in Seq(Member)
    BY DEF StatusText_send, Member
  <1>25. MsgTypes =
         {"GetCS", "UseCS", "NoCS", "CompileFile", "FileChunk", "CompileResult", "GetNativeEnv",
          "UseNativeEnv", "EnvTransfer", "VerifyEnv", "VerifyEnvResult", "BlacklistHostEnv",
          "JobBegin", "JobLocalBegin", "JobLocalDone", "JobDone", "MonJobDone", "Login", "ConfCS",
          "Stats", "MonGetCS", "MonJobBegin", "MonLocalJobBegin", "MonStats", "StatusText", "Ping",
          "End", "MonLogin", "GetInternals"}
    BY DEF MsgTypes, Writes
  <1>26. <<>> \in Seq(Member)
    OBVIOUS
  <1>27. /\ Writes(p)["GetCS"] = GetCS_send(p)
         /\ Writes(p)["UseCS"] = UseCS_send(p)
         /\ Writes(p)["NoCS"] = NoCS_send(p)
         /\ Writes(p)["CompileFile"] = CompileFile_send(p)
         /\ Writes(p)["FileChunk"] = writecompressed(p)
         /\ Writes(p)["CompileResult"] = CompileResult_send(p)
         /\ Writes(p)["GetNativeEnv"] = GetNativeEnv_send(p)
         /\ Writes(p)["UseNativeEnv"] = UseNativeEnv_send(p)
         /\ Writes(p)["EnvTransfer"] = EnvTransfer_send(p)
         /\ Writes(p)["VerifyEnv"] = VerifyEnv_send(p)
         /\ Writes(p)["VerifyEnvResult"] = VerifyEnvResult_send(p)
         /\ Writes(p)["BlacklistHostEnv"] = BlacklistHostEnv_send(p)
         /\ Writes(p)["JobBegin"] = JobBegin_send(p)
         /\ Writes(p)["JobLocalBegin"] = JobLocalBegin_send(p)
         /\ Writes(p)["JobLocalDone"] = JobLocalDone_send(p)
         /\ Writes(p)["JobDone"] = JobDone_send(p)
         /\ Writes(p)["MonJobDone"] = JobDone_send(p)
         /\ Writes(p)["Login"] = Login_send(p)
         /\ Writes(p)["ConfCS"] = ConfCS_send(p)
         /\ Writes(p)["Stats"] = Stats_send(p)
         /\ Writes(p)["MonGetCS"] = MonGetCS_send(p)
         /\ Writes(p)["MonJobBegin"] = MonJobBegin_send(p)
         /\ Writes(p)["MonLocalJobBegin"] = MonLocalJobBegin_send(p)
         /\ Writes(p)["MonStats"] = MonStats_send(p)
         /\ Writes(p)["StatusText"] = StatusText_send(p)
         /\ Writes(p)["Ping"] = <<>>
         /\ Writes(p)["End"] = <<>>
         /\ Writes(p)["MonLogin"] = <<>>
         /\ Writes(p)["GetInternals"] = <<>>
    BY DEF Writes
  <1> SUFFICES ASSUME NEW t \in MsgTypes PROVE Writes(p)[t] \in Seq(Member)
    OBVIOUS
  <1>28. CASE t \in {"GetCS", "UseCS", "NoCS", "CompileFile", "FileChunk", "CompileResult",
           "GetNativeEnv", "UseNativeEnv", "EnvTransfer", "VerifyEnv",
           "VerifyEnvResult", "BlacklistHostEnv", "JobBegin", "JobLocalBegin"}
    BY <1>1, <1>2, <1>3, <1>4, <1>5, <1>6, <1>7, <1>8, <1>9, <1>10, <1>11, <1>12, <1>13, <1>14,
       <1>15, <1>27, <1>28
  <1>29. CASE t \in {"JobLocalDone", "JobDone", "MonJobDone", "Login", "ConfCS", "Stats",
           "MonGetCS", "MonJobBegin", "MonLocalJobBegin", "MonStats", "StatusText",
           "Ping", "End", "MonLogin", "GetInternals"}
    BY <1>13, <1>14, <1>15, <1>16, <1>17, <1>18, <1>19, <1>20, <1>21, <1>22, <1>23, <1>24, <1>26,
       <1>27, <1>29
  <1> QED BY <1>25, <1>28, <1>29

Size(p, t) == 1 + Len(Writes(p)[t])

\* A message has a type, and so at least one byte.
LEMMA Sizes ==
    ASSUME NEW p, NEW t \in MsgTypes
    PROVE  Size(p, t) \in Nat \ {0}
  <1>1. Writes(p)[t] \in Seq(Member)
    BY WireFields
  <1>2. Len(Writes(p)[t]) \in Nat
    BY <1>1
  <1> QED BY <1>2 DEF Size

-----------------------------------------------------------------------------
(* What is on its way to an end, and where its parts end *)

Byte == ({"number"} \X Int \X Int) \cup ({"body"} \X MsgTypes \X Int) \cup {Junk}

\* The bytes of numbers and of messages.
LEMMA NumberBytes ==
    ASSUME NEW n \in Int, NEW i \in Int
    PROVE  <<"number", n, i>> \in Byte
  BY DEF Byte

\* The bytes of a body are bytes.
LEMMA BodyBytes ==
    ASSUME NEW t \in MsgTypes, NEW i \in Int
    PROVE  <<"body", t, i>> \in Byte
  BY DEF Byte

\* n bytes are on their way, in pipe; N messages have been sent, msgs.
At(pipe, n, x, b) == x \in 1 .. n => pipe[x] = b

\* pos[i] is where message i ends; the two versions end at pos[0].
Marks(pos, n, a, msgs, N) ==
    /\ pos \in [0 .. N -> Int]
    /\ n <= pos[N]
    /\ \A i, j \in 0 .. N : i <= j => pos[i] <= pos[j]
    /\ \A i \in 1 .. N : pos[i] = pos[i - 1] + Word + Size(a, msgs[i])

Greeting(pipe, n, pos, v, a) ==
    \A q \in 1 .. Word : /\ At(pipe, n, pos[0] - 2 * Word + q, <<"number", v, q>>)
                         /\ At(pipe, n, pos[0] - Word + q, <<"number", a, q>>)

Lengths(pipe, n, pos, a, msgs, N) ==
    \A i \in 1 .. N : \A q \in 1 .. Word :
        At(pipe, n, pos[i - 1] + q, <<"number", Size(a, msgs[i]), q>>)

Bodies(pipe, n, pos, a, msgs, N) ==
    \A i \in 1 .. N : \A q \in 1 .. Size(a, msgs[i]) :
        At(pipe, n, pos[i - 1] + Word + q, <<"body", msgs[i], q>>)

Layout(pipe, n, pos, v, a, msgs, N) ==
    /\ Marks(pos, n, a, msgs, N)
    /\ Greeting(pipe, n, pos, v, a)
    /\ Lengths(pipe, n, pos, a, msgs, N)
    /\ Bodies(pipe, n, pos, a, msgs, N)

Messages(msgs, N) == \A i \in 1 .. N : msgs[i] \in MsgTypes

Shift(pos, N, k) == [i \in 0 .. N |-> pos[i] - k]

\* rest is pipe without its first k bytes.
Without(pipe, k, rest, n) == \A i \in 1 .. n : rest[i] = pipe[k + i]

\* The marks, moved by k.
LEMMA Shifted ==
    ASSUME NEW N \in Nat, NEW k \in Int, NEW pos \in [0 .. N -> Int]
    PROVE  /\ Shift(pos, N, k) \in [0 .. N -> Int]
           /\ \A i \in 0 .. N : Shift(pos, N, k)[i] = pos[i] - k
  BY DEF Shift

\* What is left when k bytes are consumed: every mark comes closer by k.
LEMMA Consumed ==
    ASSUME NEW pipe, NEW rest, NEW n \in Nat, NEW k \in Nat, Without(pipe, k, rest, n),
           NEW N \in Nat, NEW msgs, Messages(msgs, N), NEW pos, NEW v, NEW a,
           Layout(pipe, n + k, pos, v, a, msgs, N)
    PROVE  Layout(rest, n, Shift(pos, N, k), v, a, msgs, N)
  <1> DEFINE new == Shift(pos, N, k)
  <1>0. Word \in Nat
    BY SizeAssumption
  <1>1. pos \in [0 .. N -> Int]
    BY DEF Layout, Marks
  <1>2. new \in [0 .. N -> Int] /\ \A i \in 0 .. N : new[i] = pos[i] - k
    BY <1>1, Shifted
  <1>3. \A x \in Int : \A b : At(pipe, n + k, x + k, b) => At(rest, n, x, b)
    BY DEF At, Without
  <1>4. \A i \in 1 .. N : Size(a, msgs[i]) \in Nat
    BY Sizes DEF Messages
  <1> HIDE DEF new
  <1>5. Marks(new, n, a, msgs, N)
    <2>1. n <= new[N]
      <3>1. n + k <= pos[N] /\ N \in 0 .. N
        BY DEF Layout, Marks
      <3> QED BY <1>1, <1>2, <3>1
    <2>2. \A i, j \in 0 .. N : i <= j => new[i] <= new[j]
      <3>1. \A i, j \in 0 .. N : i <= j => pos[i] <= pos[j]
        BY DEF Layout, Marks
      <3> QED BY <1>1, <1>2, <3>1
    <2>3. \A i \in 1 .. N : new[i] = new[i - 1] + Word + Size(a, msgs[i])
      <3> TAKE i \in 1 .. N
      <3>1. pos[i] = pos[i - 1] + Word + Size(a, msgs[i]) /\ Size(a, msgs[i]) \in Nat
        BY <1>4 DEF Layout, Marks
      <3>2. i - 1 \in 0 .. N /\ i \in 0 .. N
        OBVIOUS
      <3>3. /\ new[i - 1] \in Int /\ pos[i - 1] \in Int /\ new[i - 1] = pos[i - 1] - k
            /\ new[i] \in Int /\ pos[i] \in Int /\ new[i] = pos[i] - k
        BY <1>1, <1>2, <3>2
      <3> QED BY <1>0, <3>1, <3>3
    <2> QED BY <1>2, <2>1, <2>2, <2>3 DEF Marks
  <1>6. Greeting(rest, n, new, v, a)
    <2> SUFFICES ASSUME NEW q \in 1 .. Word
                 PROVE  /\ At(rest, n, new[0] - 2 * Word + q, <<"number", v, q>>)
                        /\ At(rest, n, new[0] - Word + q, <<"number", a, q>>)
      BY DEF Greeting
    <2>1. /\ At(pipe, n + k, pos[0] - 2 * Word + q, <<"number", v, q>>)
          /\ At(pipe, n + k, pos[0] - Word + q, <<"number", a, q>>)
      BY DEF Layout, Greeting
    <2>2. /\ new[0] - 2 * Word + q \in Int /\ new[0] - Word + q \in Int
          /\ new[0] - 2 * Word + q + k = pos[0] - 2 * Word + q
          /\ new[0] - Word + q + k = pos[0] - Word + q
      <3>1. 0 \in 0 .. N
        OBVIOUS
      <3>2. new[0] \in Int /\ pos[0] \in Int /\ new[0] = pos[0] - k
        BY <1>1, <1>2, <3>1
      <3> QED BY <1>0, <3>2
    <2> QED BY <1>3, <2>1, <2>2
  <1>7. Lengths(rest, n, new, a, msgs, N)
    <2> SUFFICES ASSUME NEW i \in 1 .. N, NEW q \in 1 .. Word
                 PROVE  At(rest, n, new[i - 1] + q, <<"number", Size(a, msgs[i]), q>>)
      BY DEF Lengths
    <2>1. At(pipe, n + k, pos[i - 1] + q, <<"number", Size(a, msgs[i]), q>>)
      BY DEF Layout, Lengths
    <2>2. new[i - 1] + q \in Int /\ new[i - 1] + q + k = pos[i - 1] + q
      <3>1. i - 1 \in 0 .. N
        OBVIOUS
      <3>2. new[i - 1] \in Int /\ pos[i - 1] \in Int /\ new[i - 1] = pos[i - 1] - k /\ q \in Int
        BY <1>0, <1>1, <1>2, <3>1
      <3> HIDE DEF new
      <3> QED BY <3>2
    <2> QED BY <1>3, <2>1, <2>2
  <1>8. Bodies(rest, n, new, a, msgs, N)
    <2> SUFFICES ASSUME NEW i \in 1 .. N, NEW q \in 1 .. Size(a, msgs[i])
                 PROVE  At(rest, n, new[i - 1] + Word + q, <<"body", msgs[i], q>>)
      BY DEF Bodies
    <2>1. At(pipe, n + k, pos[i - 1] + Word + q, <<"body", msgs[i], q>>)
      BY DEF Layout, Bodies
    <2>2. new[i - 1] + Word + q \in Int /\ new[i - 1] + Word + q + k = pos[i - 1] + Word + q
      <3>1. i - 1 \in 0 .. N /\ Size(a, msgs[i]) \in Nat
        BY <1>4
      <3>2. new[i - 1] \in Int /\ pos[i - 1] \in Int /\ new[i - 1] = pos[i - 1] - k /\ q \in Int
        BY <1>1, <1>2, <3>1
      <3> QED BY <1>0, <3>2
    <2> QED BY <1>3, <2>1, <2>2
  <1> QED BY <1>5, <1>6, <1>7, <1>8 DEF Layout, new

\* long is pipe with k bytes more.
With(pipe, n, long) == \A i \in 1 .. n : long[i] = pipe[i]

\* What is there stays when something is added.
LEMMA StaysAt ==
    ASSUME NEW pipe, NEW long, NEW n \in Nat, NEW k \in Nat, With(pipe, n, long),
           NEW x \in Int, x <= n, NEW b, At(pipe, n, x, b)
    PROVE  At(long, n + k, x, b)
  BY DEF At, With

\* The first version is sent.
LEMMA AddVersion ==
    ASSUME NEW pipe, NEW long, NEW n \in Nat, With(pipe, n, long),
           NEW pos, NEW v, NEW a, NEW msgs, Layout(pipe, n, pos, v, a, msgs, 0),
           n = pos[0] - 2 * Word,
           \A q \in 1 .. Word : long[n + q] = <<"number", v, q>>
    PROVE  Layout(long, n + Word, pos, v, a, msgs, 0)
  <1>1. Word \in Nat /\ pos[0] \in Int
    BY SizeAssumption DEF Layout, Marks
  <1>2. Marks(pos, n + Word, a, msgs, 0)
    BY <1>1 DEF Layout, Marks
  <1>3. Greeting(long, n + Word, pos, v, a)
    BY <1>1 DEF Greeting, At
  <1>4. Lengths(long, n + Word, pos, a, msgs, 0) /\ Bodies(long, n + Word, pos, a, msgs, 0)
    BY DEF Lengths, Bodies
  <1> QED BY <1>2, <1>3, <1>4 DEF Layout

\* The version that an end agrees to is sent.
LEMMA AddAgreed ==
    ASSUME NEW pipe, NEW long, NEW n \in Nat, With(pipe, n, long),
           NEW pos, NEW v, NEW a, NEW msgs, Layout(pipe, n, pos, v, a, msgs, 0),
           n = pos[0] - Word,
           \A q \in 1 .. Word : long[n + q] = <<"number", a, q>>
    PROVE  Layout(long, n + Word, pos, v, a, msgs, 0)
  <1>1. Word \in Nat /\ pos[0] \in Int
    BY SizeAssumption DEF Layout, Marks
  <1>2. Marks(pos, n + Word, a, msgs, 0)
    BY <1>1 DEF Layout, Marks
  <1>3. Greeting(long, n + Word, pos, v, a)
    <2> SUFFICES ASSUME NEW q \in 1 .. Word
                 PROVE  /\ At(long, n + Word, pos[0] - 2 * Word + q, <<"number", v, q>>)
                        /\ At(long, n + Word, pos[0] - Word + q, <<"number", a, q>>)
      BY DEF Greeting
    <2>1. At(pipe, n, pos[0] - 2 * Word + q, <<"number", v, q>>)
      BY DEF Layout, Greeting
    <2>2. pos[0] - 2 * Word + q \in Int /\ pos[0] - 2 * Word + q <= n
      BY <1>1
    <2>3. At(long, n + Word, pos[0] - 2 * Word + q, <<"number", v, q>>)
      BY <1>1, <2>1, <2>2, StaysAt
    <2>4. At(long, n + Word, pos[0] - Word + q, <<"number", a, q>>)
      BY <1>1 DEF At
    <2> QED BY <2>3, <2>4
  <1>4. Lengths(long, n + Word, pos, a, msgs, 0) /\ Bodies(long, n + Word, pos, a, msgs, 0)
    BY DEF Lengths, Bodies
  <1> QED BY <1>2, <1>3, <1>4 DEF Layout

\* The marks with one more.
More(pos, N, x) == [i \in 0 .. N + 1 |-> IF i <= N THEN pos[i] ELSE x]

\* A message is sent.
LEMMA AddMessage ==
    ASSUME NEW pipe, NEW long, NEW n \in Nat, With(pipe, n, long),
           NEW N \in Nat, NEW msgs, Messages(msgs, N), NEW pos, NEW v, NEW a,
           Layout(pipe, n, pos, v, a, msgs, N), n = pos[N],
           NEW longer, With(msgs, N, longer), longer[N + 1] \in MsgTypes,
           NEW size, size = Size(a, longer[N + 1]),
           \A q \in 1 .. Word : long[n + q] = <<"number", size, q>>,
           \A q \in 1 .. size : long[n + Word + q] = <<"body", longer[N + 1], q>>
    PROVE  Layout(long, n + (Word + size), More(pos, N, n + (Word + size)), v, a, longer, N + 1)
  <1> DEFINE k == Word + size
             new == More(pos, N, n + k)
  <1>0. Word \in Nat /\ size \in Nat /\ k \in Nat
    BY SizeAssumption, Sizes
  <1>1. pos \in [0 .. N -> Int]
    BY DEF Layout, Marks
  <1>2. /\ new \in [0 .. N + 1 -> Int]
        /\ \A i \in 0 .. N : new[i] = pos[i]
        /\ new[N + 1] = n + k
    <2> HIDE DEF k
    <2>1. n + k \in Int
      BY <1>0
    <2> QED BY <1>1, <2>1 DEF More
  <1>3. \A i \in 1 .. N : Size(a, msgs[i]) \in Nat /\ longer[i] = msgs[i]
    BY Sizes DEF Messages, With
  <1>4. /\ \A i, j \in 0 .. N : i <= j => pos[i] <= pos[j]
        /\ \A i \in 1 .. N : pos[i] = pos[i - 1] + Word + Size(a, msgs[i])
    BY DEF Layout, Marks
  <1>5. \A i \in 0 .. N : pos[i] \in Int /\ pos[i] <= n
    BY <1>1, <1>4
  <1> HIDE DEF k, new
  <1>6. k = Word + size
    BY DEF k
  <1>7. Marks(new, n + k, a, longer, N + 1)
    <2>1. n + k <= new[N + 1]
      BY <1>0, <1>2
    <2>2. \A i, j \in 0 .. N + 1 : i <= j => new[i] <= new[j]
      <3> TAKE i, j \in 0 .. N + 1
      <3> HAVE i <= j
      <3>1. CASE i \in 0 .. N /\ j \in 0 .. N
        BY <1>2, <1>4, <3>1
      <3>2. CASE i \in 0 .. N /\ j = N + 1
        <4>1. new[i] = pos[i] /\ pos[i] \in Int /\ pos[i] <= n /\ new[j] = n + k
          BY <1>2, <1>5, <3>2
        <4> QED BY <1>0, <4>1
      <3>3. CASE i = N + 1
        <4>1. j = N + 1
          BY <3>3
        <4> QED BY <1>0, <1>2, <3>3, <4>1
      <3> QED BY <3>1, <3>2, <3>3
    <2>3. \A i \in 1 .. N + 1 : new[i] = new[i - 1] + Word + Size(a, longer[i])
      <3> TAKE i \in 1 .. N + 1
      <3>1. CASE i \in 1 .. N
        <4>1. i \in 0 .. N /\ i - 1 \in 0 .. N /\ longer[i] = msgs[i]
          BY <1>3, <3>1
        <4> QED BY <1>2, <1>4, <3>1, <4>1
      <3>2. CASE i = N + 1
        <4>1. new[i] = n + k /\ new[i - 1] = n /\ Size(a, longer[i]) = size
          BY <1>2, <3>2
        <4> QED BY <1>0, <1>6, <4>1
      <3> QED BY <3>1, <3>2
    <2> QED BY <1>2, <2>1, <2>2, <2>3 DEF Marks
  <1>8. Greeting(long, n + k, new, v, a)
    <2> SUFFICES ASSUME NEW q \in 1 .. Word
                 PROVE  /\ At(long, n + k, new[0] - 2 * Word + q, <<"number", v, q>>)
                        /\ At(long, n + k, new[0] - Word + q, <<"number", a, q>>)
      BY DEF Greeting
    <2>1. /\ At(pipe, n, pos[0] - 2 * Word + q, <<"number", v, q>>)
          /\ At(pipe, n, pos[0] - Word + q, <<"number", a, q>>)
      BY DEF Layout, Greeting
    <2>2. new[0] = pos[0] /\ pos[0] \in Int /\ pos[0] <= n
      BY <1>2, <1>5
    <2>3. /\ pos[0] - 2 * Word + q \in Int /\ pos[0] - 2 * Word + q <= n
          /\ pos[0] - Word + q \in Int /\ pos[0] - Word + q <= n
      BY <1>0, <2>2
    <2> QED BY <1>0, <2>1, <2>2, <2>3, StaysAt
  <1>9. Lengths(long, n + k, new, a, longer, N + 1)
    <2> SUFFICES ASSUME NEW i \in 1 .. N + 1, NEW q \in 1 .. Word
                 PROVE  At(long, n + k, new[i - 1] + q, <<"number", Size(a, longer[i]), q>>)
      BY DEF Lengths
    <2>1. CASE i \in 1 .. N
      <3>0. i \in 0 .. N /\ i - 1 \in 0 .. N
        BY <2>1
      <3>1. /\ longer[i] = msgs[i] /\ new[i - 1] = pos[i - 1] /\ pos[i - 1] \in Int
            /\ pos[i] <= n /\ pos[i] \in Int
        BY <1>2, <1>3, <1>5, <2>1, <3>0
      <3>2. pos[i] = pos[i - 1] + Word + Size(a, msgs[i]) /\ Size(a, msgs[i]) \in Nat
        BY <1>3, <1>4, <2>1
      <3>3. pos[i - 1] + q \in Int /\ pos[i - 1] + q <= n
        BY <1>0, <3>1, <3>2
      <3>4. At(pipe, n, pos[i - 1] + q, <<"number", Size(a, msgs[i]), q>>)
        BY <2>1 DEF Layout, Lengths
      <3> QED BY <1>0, <3>1, <3>3, <3>4, StaysAt
    <2>2. CASE i = N + 1
      <3>1. new[i - 1] = n /\ Size(a, longer[i]) = size
        BY <1>2, <2>2
      <3> QED BY <3>1 DEF At
    <2> QED BY <2>1, <2>2
  <1>10. Bodies(long, n + k, new, a, longer, N + 1)
    <2> SUFFICES ASSUME NEW i \in 1 .. N + 1, NEW q \in 1 .. Size(a, longer[i])
                 PROVE  At(long, n + k, new[i - 1] + Word + q, <<"body", longer[i], q>>)
      BY DEF Bodies
    <2>1. CASE i \in 1 .. N
      <3>0. i \in 0 .. N /\ i - 1 \in 0 .. N
        BY <2>1
      <3>1. /\ longer[i] = msgs[i] /\ new[i - 1] = pos[i - 1] /\ pos[i - 1] \in Int
            /\ pos[i] <= n /\ pos[i] \in Int
        BY <1>2, <1>3, <1>5, <2>1, <3>0
      <3>2. pos[i] = pos[i - 1] + Word + Size(a, msgs[i]) /\ Size(a, msgs[i]) \in Nat
        BY <1>3, <1>4, <2>1
      <3>3. pos[i - 1] + Word + q \in Int /\ pos[i - 1] + Word + q <= n
        BY <1>0, <3>1, <3>2
      <3>4. At(pipe, n, pos[i - 1] + Word + q, <<"body", msgs[i], q>>)
        BY <2>1, <3>1 DEF Layout, Bodies
      <3> QED BY <1>0, <3>1, <3>3, <3>4, StaysAt
    <2>2. CASE i = N + 1
      <3>1. new[i - 1] = n /\ Size(a, longer[i]) = size
        BY <1>2, <2>2
      <3> QED BY <2>2, <3>1 DEF At
    <2> QED BY <2>1, <2>2
  <1> QED BY <1>7, <1>8, <1>9, <1>10 DEF Layout, k, new

-----------------------------------------------------------------------------
(* One direction: r receives, s sends *)

Stage0(c) == c.instate \in {"none", "NEED_PROTO"} /\ c.protocol = -1
Stage1(c) == c.instate = "NEED_PROTO" /\ c.protocol < -1
Talks(c) == c.instate \in {"NEED_LEN", "FILL_BUF", "HAS_MSG"}
Live(c) == Stage0(c) \/ Stage1(c) \/ Talks(c)
Agreed(r, s) == MinOf(r.version, s.version)

\* What a receiver knows of the versions.
Versioned(r, s) ==
    /\ Stage1(r) => /\ r.protocol = -1 - Agreed(r, s)
                    /\ s.version >= MIN_PROTOCOL_VERSION
    /\ Talks(r) => /\ r.protocol = Agreed(r, s)
                   /\ Agreed(r, s) >= MIN_PROTOCOL_VERSION
    /\ Stage1(r) \/ Talks(r) => r.maximum_remote_protocol = s.version

\* How far the receiver is: m messages have come out of get_msg.
Receiver(r, pos, a, msgs, N, m) ==
    /\ m <= N
    /\ Stage0(r) => pos[0] = 2 * Word /\ m = 0
    /\ Stage1(r) => pos[0] = Word /\ m = 0
    /\ r.instate = "NEED_LEN" => pos[m] = 0
    /\ r.instate \in {"FILL_BUF", "HAS_MSG"} =>
         m < N /\ pos[m] = -Word /\ r.inmsglen = Size(a, msgs[m + 1])

\* How far the sender is: it answers a version only to an end that is not too old, and the
\* answer is out of its buffer before the first message.
Sender(s, pos, n, w, N) ==
    /\ Stage0(s) /\ s.instate = "none" => n = pos[0] - 2 * Word
    /\ Stage0(s) /\ s.instate # "none" => n = pos[0] - Word
    /\ Stage0(s) \/ Stage1(s) => N = 0
    /\ Stage1(s) \/ Talks(s) => pos[0] <= n - s.msgtogo
    /\ Stage1(s) \/ Talks(s) \/ N # 0 => n = pos[N]
    /\ n > pos[0] - Word => w >= MIN_PROTOCOL_VERSION

Flow(r, s, pipe, n, msgs, N, m) ==
    Live(r) =>
      /\ Versioned(r, s)
      /\ \E pos : /\ Layout(pipe, n, pos, s.version, Agreed(r, s), msgs, N)
                  /\ Receiver(r, pos, Agreed(r, s), msgs, N, m)
                  /\ Sender(s, pos, n, r.version, N)

\* What can be said of an end whatever else it does: the receiver or the sender is as it was,
\* or has failed; a sender may also go on to talk, or read while it talks.
Steady(r, d) ==
    /\ d.version = r.version
    /\ \/ ~Live(d)
       \/ /\ d.instate = r.instate /\ d.protocol = r.protocol /\ d.inmsglen = r.inmsglen
          /\ d.maximum_remote_protocol = r.maximum_remote_protocol

Quiet(s, d) ==
    /\ d.version = s.version
    /\ \/ ~Live(d)
       \/ d.instate = s.instate /\ d.protocol = s.protocol /\ d.msgtogo <= s.msgtogo
       \/ (Stage1(s) \/ Talks(s)) /\ Talks(d) /\ d.msgtogo <= s.msgtogo

\* An end that stays as it is, or fails, changes nothing of what is on its way.
LEMMA FlowKept ==
    ASSUME NEW r, NEW s, NEW pipe, NEW n \in Nat, NEW msgs, NEW N \in Nat, NEW m \in Nat,
           Flow(r, s, pipe, n, msgs, N, m), s.msgtogo \in Nat,
           NEW r2, Steady(r, r2), NEW s2, Quiet(s, s2), s2.msgtogo \in Nat
    PROVE  Flow(r2, s2, pipe, n, msgs, N, m)
  <1> SUFFICES ASSUME Live(r2) PROVE Flow(r2, s2, pipe, n, msgs, N, m)
    BY DEF Flow
  <1>1. /\ r2.instate = r.instate /\ r2.protocol = r.protocol /\ r2.inmsglen = r.inmsglen
        /\ r2.maximum_remote_protocol = r.maximum_remote_protocol /\ r2.version = r.version
        /\ s2.version = s.version
    BY DEF Steady, Quiet
  <1>2. Live(r) /\ (Stage0(r2) = Stage0(r)) /\ (Stage1(r2) = Stage1(r)) /\ (Talks(r2) = Talks(r))
    BY <1>1 DEF Live, Stage0, Stage1, Talks
  <1>3. Agreed(r2, s2) = Agreed(r, s)
    BY <1>1 DEF Agreed
  <1>4. Versioned(r2, s2)
    BY <1>1, <1>2, <1>3 DEF Versioned, Flow
  <1>5. PICK pos : /\ Layout(pipe, n, pos, s.version, Agreed(r, s), msgs, N)
                   /\ Receiver(r, pos, Agreed(r, s), msgs, N, m)
                   /\ Sender(s, pos, n, r.version, N)
    BY <1>2 DEF Flow
  <1>6. Layout(pipe, n, pos, s2.version, Agreed(r2, s2), msgs, N)
    BY <1>1, <1>3, <1>5
  <1>7. Receiver(r2, pos, Agreed(r2, s2), msgs, N, m)
    BY <1>1, <1>2, <1>3, <1>5 DEF Receiver
  <1>8. Sender(s2, pos, n, r2.version, N)
    <2>1. pos[0] \in Int
      BY <1>5 DEF Layout, Marks
    <2>2. CASE ~Live(s2)
      <3>1. ~Stage0(s2) /\ ~Stage1(s2) /\ ~Talks(s2)
        BY <2>2 DEF Live
      <3> QED BY <1>1, <1>5, <3>1 DEF Sender
    <2>3. CASE s2.instate = s.instate /\ s2.protocol = s.protocol /\ s2.msgtogo <= s.msgtogo
      <3>1. (Stage0(s2) = Stage0(s)) /\ (Stage1(s2) = Stage1(s)) /\ (Talks(s2) = Talks(s))
        BY <2>3 DEF Stage0, Stage1, Talks
      <3> QED BY <1>1, <1>5, <2>1, <2>3, <3>1 DEF Sender
    <2>4. CASE (Stage1(s) \/ Talks(s)) /\ Talks(s2) /\ s2.msgtogo <= s.msgtogo
      <3>1. ~Stage0(s2) /\ ~Stage1(s2)
        BY <2>4 DEF Stage0, Stage1, Talks
      <3> QED BY <1>1, <1>5, <2>1, <2>4, <3>1 DEF Sender
    <2> QED BY <2>2, <2>3, <2>4 DEF Quiet
  <1> QED BY <1>2, <1>4, <1>6, <1>7, <1>8 DEF Flow

\* The marks of a receiver that has not failed.
Placed(pos, r, s, pipe, n, msgs, N, m) ==
    /\ Layout(pipe, n, pos, s.version, Agreed(r, s), msgs, N)
    /\ Receiver(r, pos, Agreed(r, s), msgs, N, m)
    /\ Sender(s, pos, n, r.version, N)

\* A receiver that has not failed has its marks.
LEMMA FlowPlaced ==
    ASSUME NEW r, NEW s, NEW pipe, NEW n, NEW msgs, NEW N, NEW m,
           Flow(r, s, pipe, n, msgs, N, m), Live(r)
    PROVE  Versioned(r, s) /\ \E pos : Placed(pos, r, s, pipe, n, msgs, N, m)
  BY DEF Flow, Placed

\* The receiver consumes k bytes and says how far it is now.
LEMMA FlowConsumes ==
    ASSUME NEW r, NEW s, NEW pipe, NEW n \in Nat, NEW k \in Nat, NEW msgs, NEW N \in Nat,
           NEW m, Messages(msgs, N), NEW pos, Placed(pos, r, s, pipe, n + k, msgs, N, m),
           s.msgtogo \in Nat,
           NEW rest, Without(pipe, k, rest, n), NEW r2, NEW m2, r2.version = r.version,
           Versioned(r2, s), Receiver(r2, Shift(pos, N, k), Agreed(r, s), msgs, N, m2)
    PROVE  Flow(r2, s, rest, n, msgs, N, m2)
  <1> DEFINE new == Shift(pos, N, k)
  <1>0. Word \in Nat
    BY SizeAssumption
  <1>1. Agreed(r2, s) = Agreed(r, s)
    BY DEF Agreed
  <1>2. Layout(rest, n, new, s.version, Agreed(r, s), msgs, N)
    BY Consumed DEF Placed
  <1>3. pos \in [0 .. N -> Int]
    BY DEF Placed, Layout, Marks
  <1>4. new \in [0 .. N -> Int] /\ \A i \in 0 .. N : new[i] = pos[i] - k
    BY <1>3 DEF Shift
  <1> HIDE DEF new
  <1>5. Sender(s, new, n, r2.version, N)
    <2>1. /\ new[0] = pos[0] - k /\ new[0] \in Int /\ pos[0] \in Int
          /\ new[N] = pos[N] - k /\ new[N] \in Int /\ pos[N] \in Int
      BY <1>3, <1>4
    <2>2. Sender(s, pos, n + k, r.version, N)
      BY DEF Placed
    <2> QED BY <1>0, <2>1, <2>2 DEF Sender
  <1> QED BY <1>1, <1>2, <1>5 DEF Flow, new

\* A number comes first.
Says(bytes, x) == \A q \in 1 .. Word : bytes[q] = <<"number", x, q>>

\* A receiver in the first round finds the version of the sender.
LEMMA FirstThere ==
    ASSUME NEW r, NEW s, NEW pipe, NEW n \in Nat, NEW msgs, NEW N \in Nat, NEW m,
           Flow(r, s, pipe, n, msgs, N, m), Stage0(r), n >= Word
    PROVE  m = 0 /\ Says(pipe, s.version)
  <1>0. Word \in Nat
    BY SizeAssumption
  <1>1. PICK pos : Placed(pos, r, s, pipe, n, msgs, N, m)
    BY FlowPlaced DEF Live
  <1>2. pos[0] = 2 * Word /\ m = 0
    BY <1>1 DEF Placed, Receiver
  <1>3. ASSUME NEW q \in 1 .. Word
        PROVE  pipe[q] = <<"number", s.version, q>>
    <2>1. At(pipe, n, pos[0] - 2 * Word + q, <<"number", s.version, q>>)
      BY <1>1 DEF Placed, Layout, Greeting
    <2>2. pos[0] - 2 * Word + q = q /\ q \in 1 .. n
      BY <1>0, <1>2
    <2> QED BY <2>1, <2>2 DEF At
  <1> QED BY <1>2, <1>3 DEF Says

\* It goes on to the second.
LEMMA FirstRead ==
    ASSUME NEW r, NEW s, NEW pipe, NEW n \in Nat, NEW msgs, NEW N \in Nat, Messages(msgs, N),
           Flow(r, s, pipe, n + Word, msgs, N, 0), Stage0(r), s.msgtogo \in Nat,
           NEW rest, Without(pipe, Word, rest, n), NEW r2,
           r2.version = r.version, Stage1(r2), r2.protocol = -1 - Agreed(r, s),
           r2.maximum_remote_protocol = s.version, s.version >= MIN_PROTOCOL_VERSION
    PROVE  Flow(r2, s, rest, n, msgs, N, 0)
  <1>0. Word \in Nat
    BY SizeAssumption
  <1>1. PICK pos : Placed(pos, r, s, pipe, n + Word, msgs, N, 0)
    BY FlowPlaced DEF Live
  <1> DEFINE new == Shift(pos, N, Word)
  <1>2. pos[0] = 2 * Word /\ pos \in [0 .. N -> Int]
    BY <1>1 DEF Placed, Receiver, Layout, Marks
  <1>3. new[0] = pos[0] - Word
    <2>1. 0 \in 0 .. N
      OBVIOUS
    <2> QED BY <2>1 DEF Shift
  <1>4. ~Stage0(r2) /\ ~Talks(r2) /\ r2.instate = "NEED_PROTO"
    BY DEF Stage0, Stage1, Talks
  <1> HIDE DEF new
  <1>5. Receiver(r2, new, Agreed(r, s), msgs, N, 0)
    BY <1>0, <1>2, <1>3, <1>4 DEF Receiver
  <1>6. Versioned(r2, s)
    BY <1>4 DEF Versioned, Agreed
  <1> QED BY <1>0, <1>1, <1>5, <1>6, FlowConsumes DEF new

\* A receiver in the second round finds the version that it agreed to, and is not too old.
LEMMA SecondThere ==
    ASSUME NEW r, NEW s, NEW pipe, NEW n \in Nat, NEW msgs, NEW N \in Nat, NEW m,
           Flow(r, s, pipe, n, msgs, N, m), Stage1(r), n >= Word
    PROVE  /\ m = 0 /\ r.version >= MIN_PROTOCOL_VERSION
           /\ Says(pipe, Agreed(r, s))
  <1>0. Word \in Nat \ {0}
    BY SizeAssumption
  <1>1. PICK pos : Placed(pos, r, s, pipe, n, msgs, N, m)
    BY FlowPlaced DEF Live
  <1>2. pos[0] = Word /\ m = 0
    BY <1>1 DEF Placed, Receiver
  <1>3. ASSUME NEW q \in 1 .. Word
        PROVE  pipe[q] = <<"number", Agreed(r, s), q>>
    <2>1. At(pipe, n, pos[0] - Word + q, <<"number", Agreed(r, s), q>>)
      BY <1>1 DEF Placed, Layout, Greeting
    <2>2. pos[0] - Word + q = q /\ q \in 1 .. n
      BY <1>0, <1>2
    <2> QED BY <2>1, <2>2 DEF At
  <1>4. r.version >= MIN_PROTOCOL_VERSION
    BY <1>0, <1>1, <1>2 DEF Placed, Sender
  <1> QED BY <1>2, <1>3, <1>4 DEF Says

\* It goes on to the messages.
LEMMA SecondRead ==
    ASSUME NEW r, NEW s, NEW pipe, NEW n \in Nat, NEW msgs, NEW N \in Nat, Messages(msgs, N),
           Flow(r, s, pipe, n + Word, msgs, N, 0), Stage1(r), s.msgtogo \in Nat,
           NEW rest, Without(pipe, Word, rest, n), NEW r2, r.version >= MIN_PROTOCOL_VERSION,
           r2.version = r.version, r2.instate = "NEED_LEN", r2.protocol = Agreed(r, s),
           r2.maximum_remote_protocol = r.maximum_remote_protocol
    PROVE  Flow(r2, s, rest, n, msgs, N, 0)
  <1>0. Word \in Nat
    BY SizeAssumption
  <1>1. PICK pos : Placed(pos, r, s, pipe, n + Word, msgs, N, 0)
    BY FlowPlaced DEF Live
  <1> DEFINE new == Shift(pos, N, Word)
  <1>2. pos[0] = Word /\ pos \in [0 .. N -> Int]
    BY <1>1 DEF Placed, Receiver, Layout, Marks
  <1>3. new[0] = pos[0] - Word
    <2>1. 0 \in 0 .. N
      OBVIOUS
    <2> QED BY <2>1 DEF Shift
  <1>4. ~Stage0(r2) /\ ~Stage1(r2)
    BY DEF Stage0, Stage1
  <1> HIDE DEF new
  <1>5. Receiver(r2, new, Agreed(r, s), msgs, N, 0)
    BY <1>0, <1>2, <1>3, <1>4 DEF Receiver
  <1>6. Versioned(r2, s)
    <2>1. r.maximum_remote_protocol = s.version /\ s.version >= MIN_PROTOCOL_VERSION
      BY FlowPlaced DEF Versioned, Live
    <2>2. Agreed(r2, s) = Agreed(r, s) /\ Agreed(r, s) >= MIN_PROTOCOL_VERSION
      BY <2>1 DEF Agreed, MinOf
    <2> QED BY <1>4, <2>1, <2>2 DEF Versioned
  <1> QED BY <1>0, <1>1, <1>5, <1>6, FlowConsumes DEF new

\* Between two messages, a receiver that has a number has the length of the next one.
LEMMA LengthThere ==
    ASSUME NEW r, NEW s, NEW pipe, NEW n \in Nat, NEW msgs, NEW N \in Nat, NEW m \in Nat,
           Flow(r, s, pipe, n, msgs, N, m), r.instate = "NEED_LEN", n >= Word
    PROVE  m < N /\ Says(pipe, Size(Agreed(r, s), msgs[m + 1]))
  <1>0. Word \in Nat \ {0}
    BY SizeAssumption
  <1>1. PICK pos : Placed(pos, r, s, pipe, n, msgs, N, m)
    BY FlowPlaced DEF Live, Talks
  <1>2. pos[m] = 0 /\ m <= N /\ n <= pos[N]
    BY <1>1 DEF Placed, Receiver, Layout, Marks
  <1>3. m < N
    BY <1>0, <1>2
  <1>4. ASSUME NEW q \in 1 .. Word
        PROVE  pipe[q] = <<"number", Size(Agreed(r, s), msgs[m + 1]), q>>
    <2>1. m + 1 \in 1 .. N /\ m + 1 - 1 = m
      BY <1>3
    <2>2. At(pipe, n, pos[m + 1 - 1] + q, <<"number", Size(Agreed(r, s), msgs[m + 1]), q>>)
      BY <1>1, <2>1 DEF Placed, Layout, Lengths
    <2>3. pos[m + 1 - 1] + q = q /\ q \in 1 .. n
      BY <1>0, <1>2, <2>1
    <2> QED BY <2>2, <2>3 DEF At
  <1> QED BY <1>3, <1>4 DEF Says

\* It waits for the message.
LEMMA LengthRead ==
    ASSUME NEW r, NEW s, NEW pipe, NEW n \in Nat, NEW msgs, NEW N \in Nat, Messages(msgs, N),
           NEW m \in Nat, m < N,
           Flow(r, s, pipe, n + Word, msgs, N, m), r.instate = "NEED_LEN", s.msgtogo \in Nat,
           NEW rest, Without(pipe, Word, rest, n), NEW r2,
           r2.version = r.version, r2.instate \in {"FILL_BUF", "HAS_MSG"},
           r2.protocol = r.protocol, r2.maximum_remote_protocol = r.maximum_remote_protocol,
           r2.inmsglen = Size(Agreed(r, s), msgs[m + 1])
    PROVE  Flow(r2, s, rest, n, msgs, N, m)
  <1>0. Word \in Nat
    BY SizeAssumption
  <1>1. PICK pos : Placed(pos, r, s, pipe, n + Word, msgs, N, m)
    BY FlowPlaced DEF Live, Talks
  <1> DEFINE new == Shift(pos, N, Word)
  <1>2. pos[m] = 0 /\ pos \in [0 .. N -> Int]
    BY <1>1 DEF Placed, Receiver, Layout, Marks
  <1>3. new[m] = pos[m] - Word
    <2>1. m \in 0 .. N
      OBVIOUS
    <2> QED BY <2>1 DEF Shift
  <1>4. ~Stage0(r2) /\ ~Stage1(r2) /\ Talks(r2) /\ Talks(r)
    BY DEF Stage0, Stage1, Talks
  <1> HIDE DEF new
  <1>5. Receiver(r2, new, Agreed(r, s), msgs, N, m)
    BY <1>0, <1>2, <1>3, <1>4 DEF Receiver
  <1>6. Versioned(r2, s)
    BY <1>4, FlowPlaced DEF Versioned, Live, Agreed
  <1> QED BY <1>0, <1>1, <1>5, <1>6, FlowConsumes DEF new

\* The message is complete.
LEMMA Completed ==
    ASSUME NEW r, NEW s, NEW pipe, NEW n \in Nat, NEW msgs, NEW N \in Nat, NEW m \in Nat,
           Flow(r, s, pipe, n, msgs, N, m), r.instate = "FILL_BUF",
           NEW r2, r2.version = r.version, r2.instate = "HAS_MSG",
           r2.protocol = r.protocol, r2.maximum_remote_protocol = r.maximum_remote_protocol,
           r2.inmsglen = r.inmsglen
    PROVE  Flow(r2, s, pipe, n, msgs, N, m)
  <1>1. PICK pos : Placed(pos, r, s, pipe, n, msgs, N, m)
    BY FlowPlaced DEF Live, Talks
  <1>2. ~Stage0(r2) /\ ~Stage1(r2) /\ Talks(r2) /\ Talks(r)
    BY DEF Stage0, Stage1, Talks
  <1>3. Agreed(r2, s) = Agreed(r, s)
    BY DEF Agreed
  <1>4. Receiver(r2, pos, Agreed(r, s), msgs, N, m)
    BY <1>1, <1>2 DEF Placed, Receiver
  <1>5. Versioned(r2, s)
    BY <1>2, <1>3, FlowPlaced DEF Versioned, Live
  <1> QED BY <1>1, <1>3, <1>4, <1>5 DEF Flow, Placed

\* The pipe, if it is not empty, begins with the type of a message.
Begins(pipe, n, t) == n >= 1 => pipe[1] = <<"body", t, 1>>

\* A receiver that waits for a message knows its length; when it has something, it has the type.
LEMMA MessageThere ==
    ASSUME NEW r, NEW s, NEW pipe, NEW n \in Nat, NEW msgs, NEW N \in Nat, NEW m \in Nat,
           Flow(r, s, pipe, n, msgs, N, m), r.instate = "HAS_MSG", Messages(msgs, N)
    PROVE  Begins(pipe, n, msgs[m + 1])
  <1>0. Word \in Nat
    BY SizeAssumption
  <1>1. PICK pos : Placed(pos, r, s, pipe, n, msgs, N, m)
    BY FlowPlaced DEF Live, Talks
  <1>2. m < N /\ pos[m] = -Word /\ r.inmsglen = Size(Agreed(r, s), msgs[m + 1])
    BY <1>1 DEF Placed, Receiver
  <1>3. m + 1 \in 1 .. N /\ m + 1 - 1 = m /\ 1 \in 1 .. Size(Agreed(r, s), msgs[m + 1])
    BY <1>2, Sizes DEF Messages
  <1>4. At(pipe, n, pos[m + 1 - 1] + Word + 1, <<"body", msgs[m + 1], 1>>)
    BY <1>1, <1>3 DEF Placed, Layout, Bodies
  <1>5. pos[m + 1 - 1] + Word + 1 = 1
    BY <1>0, <1>2, <1>3
  <1> QED BY <1>2, <1>4, <1>5 DEF At, Begins

\* It comes out of get_msg.
LEMMA MessageRead ==
    ASSUME NEW r, NEW s, NEW pipe, NEW n \in Nat, NEW k \in Nat, NEW msgs, NEW N \in Nat,
           Messages(msgs, N), NEW m \in Nat,
           Flow(r, s, pipe, n + k, msgs, N, m), r.instate = "HAS_MSG", k = r.inmsglen,
           s.msgtogo \in Nat,
           NEW rest, Without(pipe, k, rest, n), NEW r2,
           r2.version = r.version, r2.instate = "NEED_LEN",
           r2.protocol = r.protocol, r2.maximum_remote_protocol = r.maximum_remote_protocol
    PROVE  Flow(r2, s, rest, n, msgs, N, m + 1)
  <1>0. Word \in Nat
    BY SizeAssumption
  <1>1. PICK pos : Placed(pos, r, s, pipe, n + k, msgs, N, m)
    BY FlowPlaced DEF Live, Talks
  <1> DEFINE new == Shift(pos, N, k)
  <1>2. m < N /\ pos[m] = -Word /\ pos \in [0 .. N -> Int] /\ k = Size(Agreed(r, s), msgs[m + 1])
    BY <1>1 DEF Placed, Receiver, Layout, Marks
  <1>3. m + 1 \in 1 .. N /\ m + 1 - 1 = m
    BY <1>2
  <1>4. pos[m + 1] = pos[m + 1 - 1] + Word + Size(Agreed(r, s), msgs[m + 1])
    BY <1>1, <1>3 DEF Placed, Layout, Marks
  <1>5. new[m + 1] = pos[m + 1] - k
    <2>0. pos \in [0 .. N -> Int] /\ k \in Int
      BY <1>2
    <2>1. m + 1 \in 0 .. N
      BY <1>2, <1>3
    <2>2. \A i \in 0 .. N : new[i] = pos[i] - k
      BY <2>0, Shifted, Zenon
    <2> QED BY <2>1, <2>2
  <1>6. ~Stage0(r2) /\ ~Stage1(r2) /\ Talks(r2) /\ Talks(r)
    BY DEF Stage0, Stage1, Talks
  <1> HIDE DEF new
  <1>7. new[m + 1] = 0
    BY <1>0, <1>2, <1>3, <1>4, <1>5
  <1>8. Receiver(r2, new, Agreed(r, s), msgs, N, m + 1)
    BY <1>2, <1>6, <1>7 DEF Receiver
  <1>9. Versioned(r2, s)
    BY <1>6, FlowPlaced DEF Versioned, Live, Agreed
  <1> QED BY <1>0, <1>1, <1>8, <1>9, FlowConsumes DEF new

\* The sender is made and sends its version.
LEMMA FlowVersion ==
    ASSUME NEW r, NEW s, NEW pipe, NEW n \in Nat, NEW msgs, NEW N \in Nat, NEW m \in Nat,
           Flow(r, s, pipe, n, msgs, N, m), Stage0(s), s.instate = "none",
           NEW long, With(pipe, n, long),
           \A q \in 1 .. Word : long[n + q] = <<"number", s.version, q>>,
           NEW s2, s2.version = s.version, Stage0(s2), s2.instate = "NEED_PROTO"
    PROVE  Flow(r, s2, long, n + Word, msgs, N, m)
  <1> SUFFICES ASSUME Live(r) PROVE Flow(r, s2, long, n + Word, msgs, N, m)
    BY DEF Flow
  <1>0. Word \in Nat
    BY SizeAssumption
  <1>1. PICK pos : Placed(pos, r, s, pipe, n, msgs, N, m)
    BY FlowPlaced
  <1>2. N = 0 /\ n = pos[0] - 2 * Word /\ pos[0] \in Int
    BY <1>1 DEF Placed, Sender, Layout, Marks
  <1>3. Layout(long, n + Word, pos, s.version, Agreed(r, s), msgs, N)
    <2>1. Layout(pipe, n, pos, s.version, Agreed(r, s), msgs, 0)
      BY <1>1, <1>2 DEF Placed
    <2> QED BY <1>2, <2>1, AddVersion
  <1>4. Agreed(r, s2) = Agreed(r, s) /\ ~Stage1(s2) /\ ~Talks(s2)
    BY DEF Agreed, Stage0, Stage1, Talks
  <1>5. Sender(s2, pos, n + Word, r.version, N)
    BY <1>0, <1>2, <1>4 DEF Sender
  <1>6. Versioned(r, s2)
    BY <1>4, FlowPlaced DEF Versioned
  <1> QED BY <1>1, <1>3, <1>4, <1>5, <1>6 DEF Flow, Placed

\* The sender answers the version of the receiver.
LEMMA FlowAgreed ==
    ASSUME NEW r, NEW s, NEW pipe, NEW n \in Nat, NEW msgs, NEW N \in Nat, NEW m \in Nat,
           Flow(r, s, pipe, n, msgs, N, m), Stage0(s), s.instate = "NEED_PROTO",
           r.version >= MIN_PROTOCOL_VERSION,
           NEW long, With(pipe, n, long),
           \A q \in 1 .. Word : long[n + q] = <<"number", Agreed(r, s), q>>,
           NEW s2, s2.version = s.version, ~Live(s2) \/ (Stage1(s2) /\ s2.msgtogo = 0)
    PROVE  Flow(r, s2, long, n + Word, msgs, N, m)
  <1> SUFFICES ASSUME Live(r) PROVE Flow(r, s2, long, n + Word, msgs, N, m)
    BY DEF Flow
  <1>0. Word \in Nat
    BY SizeAssumption
  <1>1. PICK pos : Placed(pos, r, s, pipe, n, msgs, N, m)
    BY FlowPlaced
  <1>2. N = 0 /\ n = pos[0] - Word /\ pos[0] \in Int
    BY <1>1 DEF Placed, Sender, Layout, Marks
  <1>3. Layout(long, n + Word, pos, s.version, Agreed(r, s), msgs, N)
    <2>1. Layout(pipe, n, pos, s.version, Agreed(r, s), msgs, 0)
      BY <1>1, <1>2 DEF Placed
    <2> QED BY <1>2, <2>1, AddAgreed
  <1>4. Agreed(r, s2) = Agreed(r, s) /\ ~Stage0(s2) /\ ~Talks(s2)
    BY DEF Agreed, Stage0, Stage1, Talks, Live
  <1>5. Sender(s2, pos, n + Word, r.version, N)
    BY <1>0, <1>2, <1>4 DEF Sender, Live
  <1>6. Versioned(r, s2)
    BY <1>4, FlowPlaced DEF Versioned
  <1> QED BY <1>1, <1>3, <1>4, <1>5, <1>6 DEF Flow, Placed

\* A sender that has sent a message, and everything before.
LEMMA Sending ==
    ASSUME NEW s, NEW pos, NEW n, NEW w, NEW N, ~Stage0(s), ~Stage1(s),
           Talks(s) => pos[0] <= n - s.msgtogo, n = pos[N], w >= MIN_PROTOCOL_VERSION
    PROVE  Sender(s, pos, n, w, N)
  BY DEF Sender

\* From n on, long carries a message of type t: its length and its body.
Carries(long, n, size, t) ==
    /\ \A q \in 1 .. Word : long[n + q] = <<"number", size, q>>
    /\ \A q \in 1 .. size : long[n + Word + q] = <<"body", t, q>>

\* The sender sends a message.
LEMMA FlowSend ==
    ASSUME NEW r, NEW s, NEW pipe, NEW n \in Nat, NEW msgs, NEW N \in Nat, NEW m \in Nat,
           Flow(r, s, pipe, n, msgs, N, m), Messages(msgs, N), Talks(s), s.msgtogo \in Nat,
           NEW long, With(pipe, n, long), NEW longer, With(msgs, N, longer),
           longer[N + 1] \in MsgTypes, NEW size, size = Size(Agreed(r, s), longer[N + 1]),
           Carries(long, n, size, longer[N + 1]), NEW s2, s2.version = s.version, s2.msgtogo \in Nat,
           ~Live(s2) \/ (Talks(s2) /\ s2.msgtogo <= s.msgtogo + (Word + size))
    PROVE  Flow(r, s2, long, n + (Word + size), longer, N + 1, m)
  <1> SUFFICES ASSUME Live(r) PROVE Flow(r, s2, long, n + (Word + size), longer, N + 1, m)
    BY DEF Flow
  <1> DEFINE k == Word + size
             a == Agreed(r, s)
  <1>0. Word \in Nat /\ size \in Nat /\ k \in Nat
    BY SizeAssumption, Sizes
  <1>1. PICK pos : Placed(pos, r, s, pipe, n, msgs, N, m)
    BY FlowPlaced
  <1> DEFINE new == More(pos, N, n + k)
  <1>2. n = pos[N] /\ pos \in [0 .. N -> Int] /\ m <= N
    BY <1>1 DEF Placed, Sender, Layout, Marks, Receiver
  <1>3. Layout(long, n + k, new, s.version, a, longer, N + 1)
    <2>1. Layout(pipe, n, pos, s.version, a, msgs, N)
      BY <1>1 DEF Placed
    <2> HIDE DEF a
    <2>2. size = Size(a, longer[N + 1])
      BY DEF a
    <2> QED BY <1>2, <2>1, <2>2, AddMessage DEF Carries
  <1>4. \A i \in 0 .. N : new[i] = pos[i]
    <2> HIDE DEF k
    <2>1. n + k \in Int /\ pos \in [0 .. N -> Int]
      BY <1>0, <1>2
    <2> QED BY <2>1 DEF More
  <1>5. new[N + 1] = n + k
    <2> HIDE DEF k
    <2>1. n + k \in Int /\ pos \in [0 .. N -> Int]
      BY <1>0, <1>2
    <2> QED BY <2>1 DEF More
  <1>6. Agreed(r, s2) = a /\ ~Stage0(s2) /\ ~Stage1(s2)
    BY DEF Agreed, Stage0, Stage1, Talks, Live
  <1> HIDE DEF new, k, a
  <1>7. Receiver(r, new, a, longer, N + 1, m)
    <2>1. Receiver(r, pos, a, msgs, N, m)
      BY <1>1 DEF Placed, a
    <2>2. new[m] = pos[m] /\ new[0] = pos[0]
      BY <1>2, <1>4
    <2>3. m < N => longer[m + 1] = msgs[m + 1]
      BY DEF With
    <2> QED BY <2>1, <2>2, <2>3 DEF Receiver
  <1>8. Sender(s2, new, n + k, r.version, N + 1)
    <2>1. new[0] = pos[0] /\ pos[0] \in Int
      BY <1>2, <1>4
    <2>2. Sender(s, pos, n, r.version, N)
      BY <1>1 DEF Placed
    <2>3. pos[0] <= n - s.msgtogo /\ (n > pos[0] - Word => r.version >= MIN_PROTOCOL_VERSION)
      BY <2>2 DEF Sender
    <2>4. r.version >= MIN_PROTOCOL_VERSION
      BY <1>0, <2>1, <2>3, SizeAssumption
    <2>5. Talks(s2) => pos[0] <= n + k - s2.msgtogo
      BY <1>0, <2>1, <2>3 DEF k, Live
    <2>6. Talks(s2) => new[0] <= n + k - s2.msgtogo
      BY <2>1, <2>5
    <2>7. ~Stage0(s2) /\ ~Stage1(s2)
      BY <1>6
    <2>8. n + k = new[N + 1]
      BY <1>5
    <2> DEFINE now == n + k
               next == N + 1
    <2>9. (Talks(s2) => new[0] <= now - s2.msgtogo) /\ now = new[next]
      BY <1>0, <2>1, <2>6, <2>8
    <2> HIDE DEF now, next
    <2>10. Sender(s2, new, now, r.version, next)
      BY <2>4, <2>7, <2>9, Sending
    <2> QED BY <2>10 DEF now, next
  <1>9. Versioned(r, s2)
    BY <1>6, FlowPlaced DEF Versioned, a
  <1> QED BY <1>3, <1>6, <1>7, <1>8, <1>9 DEF Flow, k, a

-----------------------------------------------------------------------------
(* The bytes of a channel *)

Channel ==
    [version : Versions, instate : InStates, protocol : Int, maximum_remote_protocol : Int,
     inbuf : Seq(Byte), intogo : Nat, inmsglen : Int,
     msgbuf : Seq(Byte), msgofs : Nat, msgtogo : Nat, stream : Seq(Byte),
     eof : BOOLEAN, set_error_recursion : BOOLEAN]

\* A channel whose offsets are within its buffers.
Fit(c) ==
    /\ c \in Channel
    /\ c.intogo <= Len(c.inbuf)
    /\ c.msgofs + c.msgtogo <= Len(c.msgbuf)

\* What it has read and not consumed, and what it has written and the other has not read.
Rest(c) == [i \in 1 .. Unread(c) |-> c.inbuf[c.intogo + i]]
Held(c) == Len(c.stream) + c.msgtogo
Out(c) == [i \in 1 .. Held(c) |->
             IF i <= Len(c.stream) THEN c.stream[i] ELSE c.msgbuf[c.msgofs + (i - Len(c.stream))]]

Span(r, s) == Unread(r) + Held(s)
Pipe(r, s) == [i \in 1 .. Span(r, s) |-> IF i <= Unread(r) THEN Rest(r)[i] ELSE Out(s)[i - Unread(r)]]

SameIn(c, d) == Unread(d) = Unread(c) /\ Rest(d) = Rest(c)
SameOut(c, d) == Held(d) = Held(c) /\ Out(d) = Out(c)

\* The members of a channel.
LEMMA ChannelTypes ==
    ASSUME NEW c \in Channel
    PROVE  /\ c.version \in Versions /\ c.version \in Nat \ {0} /\ c.instate \in InStates
           /\ c.protocol \in Int /\ c.maximum_remote_protocol \in Int /\ c.inmsglen \in Int
           /\ c.inbuf \in Seq(Byte) /\ c.msgbuf \in Seq(Byte) /\ c.stream \in Seq(Byte)
           /\ c.intogo \in Nat /\ c.msgofs \in Nat /\ c.msgtogo \in Nat
           /\ c.eof \in BOOLEAN /\ c.set_error_recursion \in BOOLEAN
           /\ Len(c.inbuf) \in Nat /\ Len(c.msgbuf) \in Nat /\ Len(c.stream) \in Nat
  <1>1. /\ c.version \in Versions /\ c.instate \in InStates
        /\ c.protocol \in Int /\ c.maximum_remote_protocol \in Int /\ c.inmsglen \in Int
        /\ c.inbuf \in Seq(Byte) /\ c.msgbuf \in Seq(Byte) /\ c.stream \in Seq(Byte)
        /\ c.intogo \in Nat /\ c.msgofs \in Nat /\ c.msgtogo \in Nat
        /\ c.eof \in BOOLEAN /\ c.set_error_recursion \in BOOLEAN
    BY DEF Channel
  <1>2. c.version \in Nat \ {0}
    BY <1>1, VersionAssumption
  <1>3. Len(c.inbuf) \in Nat /\ Len(c.msgbuf) \in Nat /\ Len(c.stream) \in Nat
    BY <1>1
  <1> QED BY <1>1, <1>2, <1>3

\* How many bytes there are.
LEMMA FitCounts ==
    ASSUME NEW c, Fit(c)
    PROVE  Unread(c) \in Nat /\ Held(c) \in Nat /\ Len(c.stream) \in Nat /\ c.msgtogo \in Nat
  BY ChannelTypes DEF Fit, Unread, Held

\* The number of bytes on their way is a number.
LEMMA SpanCounts ==
    ASSUME NEW r, NEW s, Fit(r), Fit(s)
    PROVE  Span(r, s) \in Nat
  BY FitCounts DEF Span

\* Nothing moves.
LEMMA PipeSame ==
    ASSUME NEW r, NEW s, NEW r2, NEW s2, SameIn(r, r2), SameOut(s, s2)
    PROVE  Span(r2, s2) = Span(r, s) /\ Pipe(r2, s2) = Pipe(r, s)
  BY DEF SameIn, SameOut, Span, Pipe

\* The receiver consumes.
LEMMA PipeConsumed ==
    ASSUME NEW r, NEW s, NEW r2, Fit(r), Fit(s), Fit(r2), NEW k \in Nat,
           Unread(r) = Unread(r2) + k, Without(Rest(r), k, Rest(r2), Unread(r2))
    PROVE  /\ Span(r, s) = Span(r2, s) + k
           /\ Without(Pipe(r, s), k, Pipe(r2, s), Span(r2, s))
  <1>1. Unread(r) \in Nat /\ Unread(r2) \in Nat /\ Held(s) \in Nat
    BY FitCounts
  <1>2. Span(r, s) = Span(r2, s) + k /\ Span(r, s) \in Nat /\ Span(r2, s) \in Nat
    BY <1>1 DEF Span
  <1>3. ASSUME NEW i \in 1 .. Span(r2, s)
        PROVE  Pipe(r2, s)[i] = Pipe(r, s)[k + i]
    <2>1. k + i \in 1 .. Span(r, s) /\ (k + i) - Unread(r) = i - Unread(r2)
      BY <1>1, <1>2
    <2>2. Pipe(r2, s)[i] = IF i <= Unread(r2) THEN Rest(r2)[i] ELSE Out(s)[i - Unread(r2)]
      BY DEF Pipe
    <2>3. Pipe(r, s)[k + i] = IF k + i <= Unread(r) THEN Rest(r)[k + i] ELSE Out(s)[(k + i) - Unread(r)]
      BY <2>1 DEF Pipe
    <2>4. CASE i <= Unread(r2)
      <3>1. k + i <= Unread(r) /\ i \in 1 .. Unread(r2)
        BY <1>1, <2>4
      <3> QED BY <2>2, <2>3, <2>4, <3>1 DEF Without
    <2>5. CASE ~(i <= Unread(r2))
      <3>1. ~(k + i <= Unread(r))
        BY <1>1, <2>5
      <3> QED BY <2>1, <2>2, <2>3, <2>5, <3>1
    <2> QED BY <2>4, <2>5
  <1> QED BY <1>2, <1>3 DEF Without

\* From n on, long has what out has from h on.
Behind(long, n, out, h, k) == \A j \in 1 .. k : long[n + j] = out[h + j]

\* The sender adds.
LEMMA PipeLonger ==
    ASSUME NEW r, NEW s, NEW s2, Fit(r), Fit(s), Fit(s2), NEW k \in Nat,
           Held(s2) = Held(s) + k, With(Out(s), Held(s), Out(s2))
    PROVE  /\ Span(r, s2) = Span(r, s) + k
           /\ With(Pipe(r, s), Span(r, s), Pipe(r, s2))
           /\ Behind(Pipe(r, s2), Span(r, s), Out(s2), Held(s), k)
  <1>1. Unread(r) \in Nat /\ Held(s) \in Nat /\ Held(s2) \in Nat
    BY FitCounts
  <1>2. Span(r, s2) = Span(r, s) + k /\ Span(r, s) \in Nat /\ Span(r, s2) \in Nat
    BY <1>1 DEF Span
  <1>3. ASSUME NEW i \in 1 .. Span(r, s)
        PROVE  Pipe(r, s2)[i] = Pipe(r, s)[i]
    <2>1. i \in 1 .. Span(r, s2)
      BY <1>2
    <2>2. Pipe(r, s)[i] = IF i <= Unread(r) THEN Rest(r)[i] ELSE Out(s)[i - Unread(r)]
      BY DEF Pipe
    <2>3. Pipe(r, s2)[i] = IF i <= Unread(r) THEN Rest(r)[i] ELSE Out(s2)[i - Unread(r)]
      BY <2>1 DEF Pipe
    <2>4. ~(i <= Unread(r)) => i - Unread(r) \in 1 .. Held(s)
      BY <1>1, <1>2 DEF Span
    <2> QED BY <2>2, <2>3, <2>4 DEF With
  <1>4. ASSUME NEW j \in 1 .. k
        PROVE  Pipe(r, s2)[Span(r, s) + j] = Out(s2)[Held(s) + j]
    <2>1. /\ Span(r, s) + j \in 1 .. Span(r, s2) /\ ~(Span(r, s) + j <= Unread(r))
          /\ (Span(r, s) + j) - Unread(r) = Held(s) + j
      BY <1>1, <1>2 DEF Span
    <2>2. Pipe(r, s2)[Span(r, s) + j] = Out(s2)[(Span(r, s) + j) - Unread(r)]
      BY <2>1 DEF Pipe
    <2> QED BY <2>1, <2>2
  <1> QED BY <1>2, <1>3, <1>4 DEF With, Behind

\* From u on, bytes has the first k of out.
Takes(bytes, u, out, k) == \A j \in 1 .. k : bytes[u + j] = out[j]

\* k bytes went from the stream of s to the buffer of r.
Moved(r, s, r2, s2, k) ==
    /\ Unread(r2) = Unread(r) + k /\ Held(s) = Held(s2) + k
    /\ With(Rest(r), Unread(r), Rest(r2)) /\ Without(Out(s), k, Out(s2), Held(s2))
    /\ Takes(Rest(r2), Unread(r), Out(s), k)

\* Bytes go from the stream to the buffer of the receiver.
LEMMA PipeMoved ==
    ASSUME NEW r, NEW s, NEW r2, NEW s2, Fit(r), Fit(s), Fit(r2), Fit(s2), NEW k \in Nat,
           Moved(r, s, r2, s2, k)
    PROVE  Span(r2, s2) = Span(r, s) /\ Pipe(r2, s2) = Pipe(r, s)
  <1>0. /\ Unread(r2) = Unread(r) + k /\ Held(s) = Held(s2) + k
        /\ With(Rest(r), Unread(r), Rest(r2)) /\ Without(Out(s), k, Out(s2), Held(s2))
        /\ Takes(Rest(r2), Unread(r), Out(s), k)
    BY DEF Moved
  <1>1. Unread(r) \in Nat /\ Unread(r2) \in Nat /\ Held(s) \in Nat /\ Held(s2) \in Nat
    BY FitCounts
  <1>2. Span(r2, s2) = Span(r, s) /\ Span(r, s) \in Nat
    BY <1>0, <1>1 DEF Span
  <1>3. ASSUME NEW i \in 1 .. Span(r, s)
        PROVE  Pipe(r2, s2)[i] = Pipe(r, s)[i]
    <2>1. Pipe(r, s)[i] = IF i <= Unread(r) THEN Rest(r)[i] ELSE Out(s)[i - Unread(r)]
      BY DEF Pipe
    <2>2. Pipe(r2, s2)[i] = IF i <= Unread(r2) THEN Rest(r2)[i] ELSE Out(s2)[i - Unread(r2)]
      BY <1>2 DEF Pipe
    <2>3. CASE i <= Unread(r)
      <3>1. i <= Unread(r2) /\ i \in 1 .. Unread(r)
        BY <1>0, <1>1, <2>3
      <3> QED BY <1>0, <2>1, <2>2, <2>3, <3>1 DEF With
    <2>4. CASE ~(i <= Unread(r)) /\ i <= Unread(r2)
      <3>1. i - Unread(r) \in 1 .. k /\ Unread(r) + (i - Unread(r)) = i
        BY <1>0, <1>1, <2>4
      <3>2. Rest(r2)[Unread(r) + (i - Unread(r))] = Out(s)[i - Unread(r)]
        BY <1>0, <3>1 DEF Takes
      <3> QED BY <2>1, <2>2, <2>4, <3>1, <3>2
    <2>5. CASE ~(i <= Unread(r2))
      <3>1. /\ ~(i <= Unread(r)) /\ i - Unread(r2) \in 1 .. Held(s2)
            /\ k + (i - Unread(r2)) = i - Unread(r)
        BY <1>0, <1>1, <1>2, <2>5 DEF Span
      <3> QED BY <1>0, <2>1, <2>2, <2>5, <3>1 DEF Without
    <2> QED BY <2>3, <2>4, <2>5
  <1>4. /\ Pipe(r, s) = [i \in 1 .. Span(r, s) |-> Pipe(r, s)[i]]
        /\ Pipe(r2, s2) = [i \in 1 .. Span(r, s) |-> Pipe(r2, s2)[i]]
    BY <1>2 DEF Pipe
  <1> QED BY <1>2, <1>3, <1>4

-----------------------------------------------------------------------------
(* What the operations on the buffers do *)

\* What does not concern the bytes.
SameNumbers(c, d) ==
    /\ d.version = c.version /\ d.protocol = c.protocol /\ d.inmsglen = c.inmsglen
    /\ d.maximum_remote_protocol = c.maximum_remote_protocol
SameMind(c, d) == SameNumbers(c, d) /\ d.instate = c.instate
SameEnd(c, d) == d.eof = c.eof /\ d.set_error_recursion = c.set_error_recursion
SameInput(c, d) == d.inbuf = c.inbuf /\ d.intogo = c.intogo
SameOutput(c, d) ==
    d.msgbuf = c.msgbuf /\ d.msgofs = c.msgofs /\ d.msgtogo = c.msgtogo /\ d.stream = c.stream

\* Changes of some members.
LEMMA NewInput ==
    ASSUME NEW c \in Channel, NEW buf \in Seq(Byte),
           NEW d, d = [c EXCEPT !.inbuf = buf, !.intogo = 0]
    PROVE  /\ d \in Channel
           /\ SameMind(c, d) /\ SameEnd(c, d) /\ SameOutput(c, d)
  BY DEF Channel, SameMind, SameNumbers, SameEnd, SameOutput

\* A channel whose output buffer alone is replaced.
LEMMA NewOutput ==
    ASSUME NEW c \in Channel, NEW buf \in Seq(Byte),
           NEW d, d = [c EXCEPT !.msgbuf = buf, !.msgofs = 0]
    PROVE  /\ d \in Channel
           /\ SameMind(c, d) /\ SameEnd(c, d) /\ SameInput(c, d)
  BY DEF Channel, SameMind, SameNumbers, SameEnd, SameInput

\* Bytes that stay where they are.
LEMMA InputKept ==
    ASSUME NEW c, NEW d, SameInput(c, d)
    PROVE  SameIn(c, d)
  BY DEF SameInput, SameIn, Unread, Rest

\* What is unsent depends on the output buffer and the stream only.
LEMMA OutputKept ==
    ASSUME NEW c, NEW d, SameOutput(c, d)
    PROVE  SameOut(c, d)
  BY DEF SameOutput, SameOut, Held, Out

\* A part of a buffer.
LEMMA BytesOf ==
    ASSUME NEW buf \in Seq(Byte), NEW ofs \in Nat, NEW n \in Nat, ofs + n <= Len(buf)
    PROVE  /\ Bytes(buf, ofs, n) \in Seq(Byte)
           /\ Len(Bytes(buf, ofs, n)) = n
           /\ \A i \in 1 .. n : Bytes(buf, ofs, n)[i] = buf[ofs + i]
  <1>1. \A i \in 1 .. n : ofs + i \in 1 .. Len(buf)
    OBVIOUS
  <1>2. \A i \in 1 .. n : ByteAt(buf, ofs + i) = buf[ofs + i] /\ buf[ofs + i] \in Byte
    BY <1>1 DEF ByteAt
  <1>3. Bytes(buf, ofs, n) = [i \in 1 .. n |-> buf[ofs + i]]
    BY <1>2 DEF Bytes
  <1> QED BY <1>2, <1>3

\* The start of a buffer.
LEMMA BytesFirst ==
    ASSUME NEW buf \in Seq(Byte), NEW n \in Nat, n <= Len(buf)
    PROVE  /\ Bytes(buf, 0, n) \in Seq(Byte)
           /\ Len(Bytes(buf, 0, n)) = n
           /\ \A i \in 1 .. n : Bytes(buf, 0, n)[i] = buf[i]
  <1>1. \A i \in 1 .. n : ByteAt(buf, 0 + i) = buf[i] /\ buf[i] \in Byte
    BY DEF ByteAt
  <1>2. Bytes(buf, 0, n) = [i \in 1 .. n |-> buf[i]]
    BY <1>1 DEF Bytes
  <1> QED BY <1>1, <1>2

\* chop_input moves what is unread, and does not lose any of it.
LEMMA ChopInput ==
    ASSUME NEW c, Fit(c), NEW d, d = chop_input(c)
    PROVE  Fit(d) /\ SameIn(c, d) /\ SameMind(c, d) /\ SameEnd(c, d) /\ SameOutput(c, d)
  <1>1. CASE c.intogo > Far \/ Unread(c) <= Cheap
    <2> DEFINE buf == Bytes(c.inbuf, c.intogo, Unread(c))
    <2>1. d = [c EXCEPT !.inbuf = buf, !.intogo = 0]
      BY <1>1 DEF chop_input
    <2>2. c.inbuf \in Seq(Byte) /\ c.intogo \in Nat /\ Unread(c) \in Nat
          /\ c.intogo + Unread(c) <= Len(c.inbuf)
      BY ChannelTypes DEF Fit, Unread
    <2>3. buf \in Seq(Byte) /\ Len(buf) = Unread(c)
          /\ \A i \in 1 .. Unread(c) : buf[i] = c.inbuf[c.intogo + i]
      BY <2>2, BytesOf
    <2> HIDE DEF buf
    <2>4. c \in Channel /\ buf \in Seq(Byte)
      BY <2>3 DEF Fit
    <2>5. d \in Channel /\ d.inbuf = buf /\ d.intogo = 0
      <3>1. d \in Channel
        BY <2>1, <2>4, NewInput
      <3>2. d.inbuf = buf /\ d.intogo = 0
        BY <2>1, <2>4 DEF Channel
      <3> QED BY <3>1, <3>2
    <2>6. SameMind(c, d) /\ SameEnd(c, d) /\ SameOutput(c, d)
      BY <2>1, <2>4, NewInput
    <2>7. Unread(d) = Unread(c)
      BY <2>2, <2>3, <2>5 DEF Unread
    <2>8. Rest(d) = Rest(c)
      <3>1. Rest(d) = [i \in 1 .. Unread(c) |-> buf[0 + i]]
        BY <2>5, <2>7 DEF Rest
      <3>2. \A i \in 1 .. Unread(c) : buf[0 + i] = c.inbuf[c.intogo + i]
        BY <2>2, <2>3
      <3> QED BY <3>1, <3>2 DEF Rest
    <2>9. Fit(d)
      BY <2>2, <2>3, <2>5, <2>6 DEF Fit, SameOutput
    <2> QED BY <2>6, <2>7, <2>8, <2>9 DEF SameIn
  <1>2. CASE ~(c.intogo > Far \/ Unread(c) <= Cheap)
    BY <1>2 DEF chop_input, SameIn, SameMind, SameNumbers, SameEnd, SameOutput
  <1> QED BY <1>1, <1>2

\* chop_output moves what is unsent, and does not lose any of it.
LEMMA ChopOutput ==
    ASSUME NEW c, Fit(c), NEW d, d = chop_output(c)
    PROVE  /\ Fit(d) /\ SameInput(c, d) /\ SameMind(c, d) /\ SameEnd(c, d) /\ SameOut(c, d)
           /\ d.msgtogo = c.msgtogo
           /\ c.msgtogo <= Cheap \/ c.msgofs = 0 => d.msgofs = 0
  <1>1. CASE c.msgofs > Far \/ c.msgtogo <= Cheap
    <2> DEFINE buf == Bytes(c.msgbuf, c.msgofs, c.msgtogo)
    <2>1. d = [c EXCEPT !.msgbuf = buf, !.msgofs = 0]
      BY <1>1 DEF chop_output
    <2>2. c.msgbuf \in Seq(Byte) /\ c.msgofs \in Nat /\ c.msgtogo \in Nat
          /\ c.msgofs + c.msgtogo <= Len(c.msgbuf) /\ Len(c.stream) \in Nat
      BY ChannelTypes DEF Fit
    <2>3. buf \in Seq(Byte) /\ Len(buf) = c.msgtogo
          /\ \A i \in 1 .. c.msgtogo : buf[i] = c.msgbuf[c.msgofs + i]
      BY <2>2, BytesOf
    <2> HIDE DEF buf
    <2>4. c \in Channel /\ buf \in Seq(Byte)
      BY <2>3 DEF Fit
    <2>5. d \in Channel /\ d.msgbuf = buf /\ d.msgofs = 0 /\ d.msgtogo = c.msgtogo /\ d.stream = c.stream
      <3>1. d \in Channel
        BY <2>1, <2>4, NewOutput
      <3>2. d.msgbuf = buf /\ d.msgofs = 0 /\ d.msgtogo = c.msgtogo /\ d.stream = c.stream
        BY <2>1, <2>4 DEF Channel
      <3> QED BY <3>1, <3>2
    <2>6. SameMind(c, d) /\ SameEnd(c, d) /\ SameInput(c, d)
      BY <2>1, <2>4, NewOutput
    <2>7. Held(d) = Held(c) /\ Held(c) = Len(c.stream) + c.msgtogo
      BY <2>5 DEF Held
    <2>8. Out(d) = Out(c)
      <3>1. ASSUME NEW i \in 1 .. Held(c), ~(i <= Len(c.stream))
            PROVE  buf[0 + (i - Len(c.stream))] = c.msgbuf[c.msgofs + (i - Len(c.stream))]
        <4>1. i - Len(c.stream) \in 1 .. c.msgtogo /\ 0 + (i - Len(c.stream)) = i - Len(c.stream)
          BY <2>2, <2>7, <3>1
        <4> QED BY <2>3, <4>1
      <3>2. Out(d) = [i \in 1 .. Held(c) |-> IF i <= Len(c.stream) THEN c.stream[i]
                                             ELSE buf[0 + (i - Len(c.stream))]]
        BY <2>5, <2>7 DEF Out
      <3> QED BY <3>1, <3>2 DEF Out
    <2>9. Fit(d)
      BY <2>2, <2>3, <2>5, <2>6 DEF Fit, SameInput
    <2> QED BY <2>5, <2>6, <2>7, <2>8, <2>9 DEF SameOut
  <1>2. CASE ~(c.msgofs > Far \/ c.msgtogo <= Cheap)
    BY <1>2 DEF chop_output, SameInput, SameMind, SameNumbers, SameEnd, SameOut
  <1> QED BY <1>1, <1>2

\* Two sequences one after the other.
LEMMA Joined ==
    ASSUME NEW a \in Seq(Byte), NEW b \in Seq(Byte)
    PROVE  /\ a \o b \in Seq(Byte) /\ Len(a \o b) = Len(a) + Len(b)
           /\ \A i \in 1 .. Len(a) : (a \o b)[i] = a[i]
           /\ \A i \in 1 .. Len(b) : (a \o b)[Len(a) + i] = b[i]
  OBVIOUS

\* d is c with bytes behind all that is unsent.
Written(c, d, bytes) ==
    /\ Fit(d) /\ SameInput(c, d) /\ SameMind(c, d) /\ SameEnd(c, d)
    /\ d.msgofs = 0 /\ d.msgtogo = c.msgtogo + Len(bytes)
    /\ Held(d) = Held(c) + Len(bytes) /\ With(Out(c), Held(c), Out(d))
    /\ \A j \in 1 .. Len(bytes) : Out(d)[Held(c) + j] = bytes[j]

\* writefull appends to what is unsent, where that starts at the start of the buffer.
LEMMA WriteFull ==
    ASSUME NEW c, Fit(c), c.msgofs = 0, NEW bytes \in Seq(Byte), NEW d, d = writefull(c, bytes)
    PROVE  Written(c, d, bytes)
  <1> DEFINE front == Bytes(c.msgbuf, 0, c.msgtogo)
             buf == front \o bytes
  <1>1. d = [c EXCEPT !.msgbuf = buf, !.msgtogo = c.msgtogo + Len(bytes)]
    BY DEF writefull
  <1>2. c.msgbuf \in Seq(Byte) /\ c.msgtogo \in Nat /\ c.msgtogo <= Len(c.msgbuf)
        /\ Len(c.stream) \in Nat /\ Len(bytes) \in Nat
    BY ChannelTypes DEF Fit
  <1>3. front \in Seq(Byte) /\ Len(front) = c.msgtogo
        /\ \A i \in 1 .. c.msgtogo : front[i] = c.msgbuf[i]
    BY <1>2, BytesFirst
  <1> HIDE DEF front
  <1>4. /\ buf \in Seq(Byte) /\ Len(buf) = c.msgtogo + Len(bytes)
        /\ \A i \in 1 .. c.msgtogo : buf[i] = front[i]
        /\ \A j \in 1 .. Len(bytes) : buf[c.msgtogo + j] = bytes[j]
    <2>1. front \in Seq(Byte) /\ bytes \in Seq(Byte)
      BY <1>3
    <2>2. /\ buf \in Seq(Byte) /\ Len(buf) = Len(front) + Len(bytes)
          /\ \A i \in 1 .. Len(front) : buf[i] = front[i]
          /\ \A j \in 1 .. Len(bytes) : buf[Len(front) + j] = bytes[j]
      BY <2>1, Joined, Zenon
    <2> HIDE DEF buf
    <2>3. Len(front) = c.msgtogo
      BY <1>3
    <2> QED BY <2>2, <2>3, Zenon
  <1> HIDE DEF buf
  <1>5. c \in Channel /\ c.msgtogo + Len(bytes) \in Nat
    BY <1>2 DEF Fit
  <1>6. /\ d \in Channel /\ d.msgbuf = buf /\ d.msgofs = 0 /\ d.msgtogo = c.msgtogo + Len(bytes)
        /\ d.stream = c.stream
    BY <1>1, <1>4, <1>5 DEF Channel
  <1>7. SameMind(c, d) /\ SameEnd(c, d) /\ SameInput(c, d)
    BY <1>1, <1>5 DEF Channel, SameMind, SameNumbers, SameEnd, SameInput
  <1>8. Held(d) = Held(c) + Len(bytes) /\ Held(c) = Len(c.stream) + c.msgtogo
    BY <1>2, <1>6 DEF Held
  <1>9. \A i \in 1 .. Held(d) : Out(d)[i] = IF i <= Len(c.stream) THEN c.stream[i]
                                            ELSE buf[i - Len(c.stream)]
    BY <1>2, <1>6 DEF Out
  <1>10. \A i \in 1 .. Held(c) : Out(c)[i] = IF i <= Len(c.stream) THEN c.stream[i]
                                             ELSE c.msgbuf[i - Len(c.stream)]
    BY <1>2 DEF Out
  <1>11. With(Out(c), Held(c), Out(d))
    <2> SUFFICES ASSUME NEW i \in 1 .. Held(c) PROVE Out(d)[i] = Out(c)[i]
      BY DEF With
    <2>1. i \in 1 .. Held(d)
      BY <1>2, <1>8
    <2>2. CASE i <= Len(c.stream)
      BY <1>9, <1>10, <2>1, <2>2
    <2>3. CASE ~(i <= Len(c.stream))
      <3>1. i - Len(c.stream) \in 1 .. c.msgtogo
        BY <1>2, <1>8, <2>3
      <3>2. buf[i - Len(c.stream)] = c.msgbuf[i - Len(c.stream)]
        BY <1>3, <1>4, <3>1
      <3> QED BY <1>9, <1>10, <2>1, <2>3, <3>2
    <2> QED BY <2>2, <2>3
  <1>12. ASSUME NEW j \in 1 .. Len(bytes)
         PROVE  Out(d)[Held(c) + j] = bytes[j]
    <2>1. /\ Held(c) + j \in 1 .. Held(d) /\ ~(Held(c) + j <= Len(c.stream))
          /\ (Held(c) + j) - Len(c.stream) = c.msgtogo + j
      BY <1>2, <1>8
    <2> QED BY <1>4, <1>9, <2>1
  <1>13. Fit(d)
    BY <1>2, <1>4, <1>6, <1>7 DEF Fit, SameInput
  <1> QED BY <1>6, <1>7, <1>8, <1>11, <1>12, <1>13 DEF Written

\* What set_error makes of a channel: it has failed, or the owner is inside set_error now.
Stopped(c, d) ==
    \/ d.instate = "ERROR" /\ d.eof
    \/ /\ d.instate = c.instate /\ d.eof = c.eof
       /\ d.set_error_recursion /\ ~c.set_error_recursion

\* A channel that is made an error of.
LEMMA DeadChannel ==
    ASSUME NEW c, Fit(c), NEW d, d = Dead(c)
    PROVE  /\ Fit(d) /\ SameInput(c, d) /\ SameOutput(c, d) /\ SameNumbers(c, d)
           /\ d.instate = "ERROR" /\ d.eof /\ ~d.set_error_recursion
  <1>1. c \in Channel
    BY DEF Fit
  <1>2. d = [c EXCEPT !.instate = "ERROR", !.eof = TRUE, !.set_error_recursion = FALSE]
    BY DEF Dead
  <1>3. d \in Channel
    BY <1>1, <1>2 DEF Channel, InStates
  <1>4. d.instate = "ERROR" /\ d.eof /\ ~d.set_error_recursion
    BY <1>1, <1>2 DEF Channel
  <1>5. SameInput(c, d) /\ SameOutput(c, d) /\ SameNumbers(c, d)
    BY <1>1, <1>2 DEF Channel, SameInput, SameOutput, SameNumbers
  <1>6. Fit(d)
    BY <1>3, <1>5 DEF Fit, SameInput, SameOutput
  <1> QED BY <1>4, <1>5, <1>6

\* set_error touches no bytes.
LEMMA SetError ==
    ASSUME NEW c, Fit(c), c.instate = "ERROR" => c.eof, NEW silent \in BOOLEAN,
           NEW d, d = set_error(c, silent)
    PROVE  Fit(d) /\ SameInput(c, d) /\ SameOutput(c, d) /\ SameNumbers(c, d) /\ Stopped(c, d)
  <1>1. CASE c.instate = "ERROR"
    <2>1. d = c
      BY <1>1 DEF set_error
    <2> QED BY <1>1, <2>1 DEF SameInput, SameOutput, SameNumbers, Stopped
  <1>2. CASE c.instate # "ERROR" /\ (silent \/ c.set_error_recursion)
    <2>1. d = Dead(c)
      BY <1>2 DEF set_error
    <2> QED BY <2>1, DeadChannel DEF Stopped
  <1>3. CASE c.instate # "ERROR" /\ ~(silent \/ c.set_error_recursion)
    <2>1. d = [c EXCEPT !.set_error_recursion = TRUE] /\ c \in Channel
      BY <1>3 DEF set_error, Fit
    <2>2. d \in Channel
      BY <2>1 DEF Channel
    <2>3. d.instate = c.instate /\ d.eof = c.eof /\ d.set_error_recursion
      BY <2>1 DEF Channel
    <2>4. SameInput(c, d) /\ SameOutput(c, d) /\ SameNumbers(c, d)
      BY <2>1 DEF Channel, SameInput, SameOutput, SameNumbers
    <2>5. Fit(d)
      BY <2>2, <2>4 DEF Fit, SameInput, SameOutput
    <2> QED BY <1>3, <2>3, <2>4, <2>5 DEF Stopped
  <1> QED BY <1>1, <1>2, <1>3

\* Bytes that leave the buffer for the network.
LEMMA Sends ==
    ASSUME NEW c, Fit(c), NEW k \in 0 .. c.msgtogo, NEW d,
           d = [c EXCEPT !.stream = @ \o Bytes(c.msgbuf, c.msgofs, k),
                         !.msgtogo = @ - k, !.msgofs = @ + k]
    PROVE  /\ Fit(d) /\ SameInput(c, d) /\ SameMind(c, d) /\ SameEnd(c, d) /\ SameOut(c, d)
           /\ d.msgtogo = c.msgtogo - k
  <1> DEFINE part == Bytes(c.msgbuf, c.msgofs, k)
             str == c.stream \o part
             togo == c.msgtogo - k
             ofs == c.msgofs + k
  <1>1. /\ c \in Channel /\ c.stream \in Seq(Byte) /\ c.msgbuf \in Seq(Byte) /\ Len(c.stream) \in Nat
        /\ c.msgtogo \in Nat /\ c.msgofs \in Nat /\ c.msgofs + c.msgtogo <= Len(c.msgbuf)
        /\ Len(c.msgbuf) \in Nat
    BY ChannelTypes DEF Fit
  <1>2. d = [c EXCEPT !.stream = str, !.msgtogo = togo, !.msgofs = ofs]
    OBVIOUS
  <1>3. k \in Nat /\ togo \in Nat /\ ofs \in Nat /\ ofs + togo <= Len(c.msgbuf) /\ c.msgofs + k <= Len(c.msgbuf)
    BY <1>1
  <1>4. part \in Seq(Byte) /\ Len(part) = k /\ \A i \in 1 .. k : part[i] = c.msgbuf[c.msgofs + i]
    BY <1>1, <1>3, BytesOf
  <1> HIDE DEF part
  <1>5. /\ str \in Seq(Byte) /\ Len(str) = Len(c.stream) + Len(part)
        /\ \A i \in 1 .. Len(c.stream) : str[i] = c.stream[i]
        /\ \A i \in 1 .. Len(part) : str[Len(c.stream) + i] = part[i]
    <2>1. c.stream \in Seq(Byte) /\ part \in Seq(Byte)
      BY <1>1, <1>4
    <2> QED BY <2>1
  <1>6. togo = c.msgtogo - k /\ ofs = c.msgofs + k /\ str \in Seq(Byte)
    BY <1>5
  <1> HIDE DEF str, togo, ofs
  <1>7. d \in Channel
    <2>1. c \in Channel /\ str \in Seq(Byte) /\ togo \in Nat /\ ofs \in Nat
      BY <1>1, <1>3, <1>6
    <2> QED BY <1>2, <2>1 DEF Channel
  <1>8. d.stream = str /\ d.msgtogo = togo /\ d.msgofs = ofs /\ d.msgbuf = c.msgbuf
    BY <1>1, <1>2 DEF Channel
  <1>9. SameInput(c, d) /\ SameMind(c, d) /\ SameEnd(c, d)
    BY <1>1, <1>2 DEF Channel, SameInput, SameMind, SameNumbers, SameEnd
  <1>10. Fit(d)
    BY <1>1, <1>3, <1>7, <1>8, <1>9 DEF Fit, SameInput
  <1> DEFINE old == Len(c.stream)
             new == Len(str)
  <1>11. /\ old \in Nat /\ new \in Nat /\ c.msgtogo \in Nat /\ c.msgofs \in Nat /\ k \in Nat
         /\ new = old + k /\ c.msgtogo = togo + k /\ ofs = c.msgofs + k /\ togo \in Nat
    <2>1. old \in Nat /\ new \in Nat /\ new = old + k
      BY <1>1, <1>3, <1>4, <1>5
    <2>2. c.msgtogo \in Nat /\ c.msgofs \in Nat /\ k \in Nat /\ togo \in Nat /\ ofs = c.msgofs + k
      BY <1>1, <1>3, <1>6
    <2>3. c.msgtogo = togo + k
      BY <1>6, <2>2
    <2> QED BY <2>1, <2>2, <2>3
  <1>13. /\ Held(c) = old + c.msgtogo /\ Held(d) = new + togo
         /\ Out(c) = [i \in 1 .. Held(c) |-> IF i <= old THEN c.stream[i]
                                              ELSE c.msgbuf[c.msgofs + (i - old)]]
         /\ Out(d) = [i \in 1 .. Held(d) |-> IF i <= new THEN str[i] ELSE c.msgbuf[ofs + (i - new)]]
    <2>1. Held(c) = old + c.msgtogo /\ Held(d) = new + togo
      BY <1>8 DEF Held
    <2>2. Out(c) = [i \in 1 .. Held(c) |-> IF i <= old THEN c.stream[i]
                                           ELSE c.msgbuf[c.msgofs + (i - old)]]
      BY DEF Out
    <2>3. Out(d) = [i \in 1 .. Held(d) |-> IF i <= new THEN str[i] ELSE c.msgbuf[ofs + (i - new)]]
      <3>1. Out(d) = [i \in 1 .. Held(d) |->
                       IF i <= Len(d.stream) THEN d.stream[i] ELSE d.msgbuf[d.msgofs + (i - Len(d.stream))]]
        BY DEF Out
      <3> QED BY <1>8, <1>11, <3>1
    <2> QED BY <2>1, <2>2, <2>3
  <1>14. /\ \A i \in 1 .. old : str[i] = c.stream[i]
         /\ \A i \in 1 .. k : str[old + i] = c.msgbuf[c.msgofs + i]
    BY <1>4, <1>5
  <1> HIDE DEF old, new
  <1>15. Held(d) = Held(c)
    BY <1>11, <1>13
  <1>12. Out(d) = Out(c)
    <2>1. ASSUME NEW i \in 1 .. Held(c)
          PROVE  (IF i <= new THEN str[i] ELSE c.msgbuf[ofs + (i - new)])
                   = (IF i <= old THEN c.stream[i] ELSE c.msgbuf[c.msgofs + (i - old)])
      <3>1. CASE i <= old
        <4>1. i <= new /\ i \in 1 .. old
          BY <1>11, <3>1
        <4> QED BY <1>14, <3>1, <4>1
      <3>2. CASE ~(i <= old) /\ i <= new
        <4> DEFINE j == i - old
        <4>1. j \in 1 .. k /\ old + j = i
          BY <1>11, <3>2
        <4> HIDE DEF j
        <4>2. str[i] = c.msgbuf[c.msgofs + j]
          BY <1>14, <4>1
        <4> QED BY <3>2, <4>2 DEF j
      <3>3. CASE ~(i <= new)
        <4>1. ~(i <= old) /\ ofs + (i - new) = c.msgofs + (i - old)
          BY <1>11, <3>3
        <4> QED BY <3>3, <4>1
      <3> QED BY <3>1, <3>2, <3>3
    <2> DEFINE Was(i) == IF i <= old THEN c.stream[i] ELSE c.msgbuf[c.msgofs + (i - old)]
               Now(i) == IF i <= new THEN str[i] ELSE c.msgbuf[ofs + (i - new)]
    <2>2. Out(c) = [i \in 1 .. Held(c) |-> Was(i)]
      BY <1>13, Zenon
    <2>3. Out(d) = [i \in 1 .. Held(c) |-> Now(i)]
      BY <1>13, <1>15, Zenon
    <2>4. \A i \in 1 .. Held(c) : Now(i) = Was(i)
      BY <2>1, Zenon
    <2> HIDE DEF Was, Now
    <2> QED BY <2>2, <2>3, <2>4
  <1> QED BY <1>6, <1>8, <1>9, <1>10, <1>15, <1>12 DEF SameOut

\* Everything was sent.
Flushed(c, d) ==
    d.instate = c.instate /\ SameEnd(c, d) /\ d.msgtogo = 0 /\ d.msgofs = 0

\* flush_writebuf loses nothing, whether it gets everything out or fails.
LEMMA Flush ==
    ASSUME NEW c, Fit(c), c.instate = "ERROR" => c.eof, NEW n \in Nat,
           NEW d, d = flush_writebuf(c, n)
    PROVE  /\ Fit(d) /\ SameInput(c, d) /\ SameNumbers(c, d) /\ SameOut(c, d)
           /\ d.msgtogo <= c.msgtogo /\ (c.msgtogo <= Cheap => d.msgofs = 0)
           /\ Flushed(c, d) \/ Stopped(c, d)
  <1> DEFINE k == MinOf(n, c.msgtogo)
             x == [c EXCEPT !.stream = @ \o Bytes(c.msgbuf, c.msgofs, k),
                            !.msgtogo = @ - k, !.msgofs = @ + k]
             y == chop_output(x)
  <1>1. c.msgtogo \in Nat /\ k \in 0 .. c.msgtogo
    BY FitCounts DEF MinOf
  <1>2. d = IF k < c.msgtogo THEN set_error(y, FALSE) ELSE y
    BY DEF flush_writebuf
  <1> HIDE DEF k
  <1>3. /\ Fit(x) /\ SameInput(c, x) /\ SameMind(c, x) /\ SameEnd(c, x) /\ SameOut(c, x)
        /\ x.msgtogo = c.msgtogo - k
    BY <1>1, Sends
  <1> HIDE DEF x
  <1>4. /\ Fit(y) /\ SameInput(x, y) /\ SameMind(x, y) /\ SameEnd(x, y) /\ SameOut(x, y)
        /\ y.msgtogo = x.msgtogo
        /\ x.msgtogo <= Cheap \/ x.msgofs = 0 => y.msgofs = 0
    BY <1>3, ChopOutput
  <1> HIDE DEF y
  <1>5. SameInput(c, y) /\ SameMind(c, y) /\ SameEnd(c, y) /\ SameOut(c, y)
    BY <1>3, <1>4 DEF SameInput, SameMind, SameNumbers, SameEnd, SameOut
  <1>6. y.msgtogo = c.msgtogo - k /\ y.msgtogo \in Nat /\ y.msgtogo <= c.msgtogo
    BY <1>1, <1>3, <1>4
  <1>7. y.msgtogo <= Cheap => y.msgofs = 0
    BY <1>4
  <1>8. Cheap \in Nat
    BY SizeAssumption
  <1>9. c.msgtogo <= Cheap => y.msgofs = 0
    BY <1>1, <1>6, <1>7, <1>8
  <1>10. CASE k < c.msgtogo
    <2>1. d = set_error(y, FALSE)
      BY <1>2, <1>10
    <2>2. y.instate = "ERROR" => y.eof
      BY <1>5 DEF SameMind, SameEnd
    <2>3. FALSE \in BOOLEAN
      OBVIOUS
    <2>4. Fit(d) /\ SameInput(y, d) /\ SameOutput(y, d) /\ SameNumbers(y, d) /\ Stopped(y, d)
      BY <1>4, <2>1, <2>2, <2>3, SetError, Zenon
    <2>5. SameOut(y, d)
      BY <2>4, OutputKept
    <2>6. SameInput(c, d) /\ SameNumbers(c, d) /\ SameOut(c, d)
      BY <1>5, <2>4, <2>5 DEF SameInput, SameMind, SameNumbers, SameOut
    <2>7. d.msgtogo = y.msgtogo /\ d.msgofs = y.msgofs
      BY <2>4 DEF SameOutput
    <2>8. Stopped(c, d)
      BY <1>5, <2>4 DEF Stopped, SameMind, SameEnd
    <2> QED BY <1>6, <1>9, <2>4, <2>6, <2>7, <2>8
  <1>11. CASE ~(k < c.msgtogo)
    <2>1. d = y /\ y.msgtogo = 0
      BY <1>1, <1>2, <1>6, <1>11
    <2>2. y.msgofs = 0
      BY <1>7, <1>8, <2>1
    <2>3. Flushed(c, d)
      BY <1>5, <2>1, <2>2 DEF Flushed, SameMind
    <2> QED BY <1>4, <1>5, <1>6, <2>1, <2>2, <2>3 DEF SameMind
  <1> QED BY <1>10, <1>11

\* The bytes of a number and of a message.
LEMMA NumberSeq ==
    ASSUME NEW n \in Int
    PROVE  /\ Number(n) \in Seq(Byte) /\ Len(Number(n)) = Word
           /\ \A q \in 1 .. Word : Number(n)[q] = <<"number", n, q>>
  <1>1. Word \in Nat
    BY SizeAssumption
  <1>2. \A q \in 1 .. Word : <<"number", n, q>> \in Byte
    BY NumberBytes
  <1> QED BY <1>1, <1>2 DEF Number

\* The body of a message is a sequence of bytes.
LEMMA BodySeq ==
    ASSUME NEW p, NEW t \in MsgTypes
    PROVE  /\ Body(t, p) \in Seq(Byte) /\ Len(Body(t, p)) = Size(p, t)
           /\ \A q \in 1 .. Size(p, t) : Body(t, p)[q] = <<"body", t, q>>
  <1>1. Size(p, t) \in Nat
    BY Sizes
  <1>2. Body(t, p) = [i \in 1 .. Size(p, t) |-> <<"body", t, i>>]
    BY DEF Body, Size
  <1>3. \A q \in 1 .. Size(p, t) : <<"body", t, q>> \in Byte
    BY <1>1, BodyBytes
  <1> QED BY <1>1, <1>2, <1>3

\* A number that is there is read.
LEMMA ReadNumber ==
    ASSUME NEW c, Fit(c), Unread(c) >= Word, NEW n, Says(Rest(c), n)
    PROVE  NumberAt(c.inbuf, c.intogo) = n
  <1>1. /\ Word \in Nat \ {0} /\ c.intogo \in Nat /\ Len(c.inbuf) \in Nat
        /\ Unread(c) = Len(c.inbuf) - c.intogo /\ c.intogo <= Len(c.inbuf)
    BY SizeAssumption, ChannelTypes DEF Fit, Unread
  <1>2. ASSUME NEW q \in 1 .. Word
        PROVE  ByteAt(c.inbuf, c.intogo + q) = <<"number", n, q>> /\ c.inbuf[c.intogo + q] = <<"number", n, q>>
    <2>1. q \in 1 .. Unread(c) /\ c.intogo + q \in 1 .. Len(c.inbuf)
      BY <1>1
    <2>2. Rest(c)[q] = c.inbuf[c.intogo + q]
      BY <2>1 DEF Rest
    <2> QED BY <2>1, <2>2 DEF ByteAt, Says
  <1>3. 1 \in 1 .. Word
    BY <1>1
  <1>4. ByteAt(c.inbuf, c.intogo + 1)[2] = n /\ c.inbuf[c.intogo + 1][2] = n
    BY <1>2, <1>3
  <1> QED BY <1>2, <1>4 DEF NumberAt

-----------------------------------------------------------------------------
(* Reading *)

\* Between the operations on a channel: unless its owner is inside set_error or has failed,
\* nothing is left in front of what is unsent, and the answer to a version is out of the buffer.
Basic(c) ==
    /\ Fit(c)
    /\ c.instate = "ERROR" => c.eof
    /\ c.instate = "ERROR" \/ c.set_error_recursion \/ c.msgofs = 0
    /\ Stage0(c) => c.msgofs = 0 /\ c.msgtogo <= Word
    /\ c.instate = "NEED_PROTO" /\ ~c.set_error_recursion => c.msgtogo = 0
    /\ c.instate = "none" => Unread(c) = 0 /\ c.msgtogo = 0 /\ c.protocol = -1
    /\ c.protocol = 0 => c.set_error_recursion \/ c.instate = "ERROR"
    /\ c.instate = "NEED_PROTO" => c.protocol <= 0
    /\ c.instate = "HAS_MSG" => c.inmsglen <= Unread(c)

\* All that can be read from the buffer is read: an owner that polls its socket misses nothing.
Eager(c) ==
    ~c.set_error_recursion =>
        /\ c.instate \in {"NEED_PROTO", "NEED_LEN"} => Unread(c) < Word
        /\ c.instate = "FILL_BUF" => Unread(c) < c.inmsglen

\* Both directions between a channel and the other one: m of the messages ins have come out of
\* get_msg here, and k of outs there.
Pair(c, o, ins, m, outs, k) ==
    /\ Flow(c, o, Pipe(c, o), Span(c, o), ins, Len(ins), m)
    /\ Flow(o, c, Pipe(o, c), Span(o, c), outs, Len(outs), k)

\* A sequence of message types, read by its places.
LEMMA SeqMessages ==
    ASSUME NEW msgs \in Seq(MsgTypes)
    PROVE  Len(msgs) \in Nat /\ Messages(msgs, Len(msgs))
  BY DEF Messages

\* Both ends compute the same agreed version.
LEMMA AgreedSame ==
    ASSUME NEW c, NEW o, Fit(c), Fit(o)
    PROVE  Agreed(c, o) = Agreed(o, c) /\ Agreed(c, o) \in Nat \ {0}
  <1>1. c.version \in Nat \ {0} /\ o.version \in Nat \ {0}
    BY ChannelTypes DEF Fit
  <1> QED BY <1>1 DEF Agreed, MinOf

\* What comes first is what the receiver has read.
LEMMA PipeFront ==
    ASSUME NEW r, NEW s, Fit(r), Fit(s)
    PROVE  /\ Span(r, s) \in Nat /\ Unread(r) \in Nat /\ Unread(r) <= Span(r, s)
           /\ \A i \in 1 .. Unread(r) : Pipe(r, s)[i] = Rest(r)[i]
  <1>1. Unread(r) \in Nat /\ Held(s) \in Nat
    BY FitCounts
  <1>2. Span(r, s) \in Nat /\ Unread(r) <= Span(r, s)
    BY <1>1 DEF Span
  <1>3. \A i \in 1 .. Unread(r) : i \in 1 .. Span(r, s) /\ i <= Unread(r)
    BY <1>1, <1>2
  <1> QED BY <1>1, <1>2, <1>3 DEF Pipe

\* An end that stays as it is, or fails, with all its bytes.
LEMMA PairKept ==
    ASSUME NEW c, NEW o, NEW d, Fit(c), Fit(o), Fit(d), NEW ins \in Seq(MsgTypes),
           NEW outs \in Seq(MsgTypes), NEW m \in Nat, NEW k \in Nat,
           Pair(c, o, ins, m, outs, k), SameIn(c, d), SameOut(c, d), Steady(c, d), Quiet(c, d)
    PROVE  Pair(d, o, ins, m, outs, k)
  <1>1. Span(d, o) = Span(c, o) /\ Pipe(d, o) = Pipe(c, o)
    BY PipeSame DEF SameOut
  <1>2. Span(o, d) = Span(o, c) /\ Pipe(o, d) = Pipe(o, c)
    BY PipeSame DEF SameIn
  <1>3. Steady(o, o) /\ Quiet(o, o) /\ o.msgtogo \in Nat /\ c.msgtogo \in Nat /\ d.msgtogo \in Nat
    <2>1. o.msgtogo \in Nat /\ c.msgtogo \in Nat /\ d.msgtogo \in Nat
      BY FitCounts
    <2> QED BY <2>1 DEF Steady, Quiet
  <1>4. Span(c, o) \in Nat /\ Span(o, c) \in Nat /\ Len(ins) \in Nat /\ Len(outs) \in Nat
    BY SpanCounts, SeqMessages
  <1>5. Flow(d, o, Pipe(c, o), Span(c, o), ins, Len(ins), m)
    BY <1>3, <1>4, FlowKept DEF Pair
  <1>6. Flow(o, d, Pipe(o, c), Span(o, c), outs, Len(outs), k)
    BY <1>3, <1>4, FlowKept DEF Pair
  <1> QED BY <1>1, <1>2, <1>5, <1>6 DEF Pair

\* Bytes of the input buffer are consumed.
LEMMA Consume ==
    ASSUME NEW c, Fit(c), NEW k \in Nat, k <= Unread(c), NEW d \in Channel,
           d.inbuf = c.inbuf, d.intogo = c.intogo + k, SameOutput(c, d)
    PROVE  Fit(d) /\ Unread(c) = Unread(d) + k /\ Without(Rest(c), k, Rest(d), Unread(d))
  <1>1. /\ c.intogo \in Nat /\ Len(c.inbuf) \in Nat /\ c.intogo <= Len(c.inbuf)
        /\ Unread(c) = Len(c.inbuf) - c.intogo /\ Unread(d) = Len(c.inbuf) - (c.intogo + k)
    BY ChannelTypes DEF Fit, Unread
  <1>2. Unread(c) = Unread(d) + k /\ Unread(d) \in Nat /\ Unread(c) \in Nat
    BY <1>1
  <1>3. Fit(d)
    BY <1>1 DEF Fit, SameOutput, Unread
  <1>4. ASSUME NEW i \in 1 .. Unread(d)
        PROVE  Rest(d)[i] = Rest(c)[k + i]
    <2>1. k + i \in 1 .. Unread(c) /\ (c.intogo + k) + i = c.intogo + (k + i)
      BY <1>1, <1>2
    <2>2. Rest(d)[i] = c.inbuf[(c.intogo + k) + i]
      BY DEF Rest
    <2>3. Rest(c)[k + i] = c.inbuf[c.intogo + (k + i)]
      BY <2>1 DEF Rest
    <2> QED BY <2>1, <2>2, <2>3
  <1> QED BY <1>2, <1>3, <1>4 DEF Without

\* The other end sees nothing of what an end does with its input.
LEMMA OtherKept ==
    ASSUME NEW c, NEW o, NEW d, Fit(c), Fit(o), Fit(d), NEW ins, NEW m,
           NEW outs \in Seq(MsgTypes), NEW k \in Nat,
           Pair(c, o, ins, m, outs, k), SameOut(c, d), Quiet(c, d)
    PROVE  Flow(o, d, Pipe(o, d), Span(o, d), outs, Len(outs), k)
  <1>1. SameIn(o, o)
    BY DEF SameIn
  <1>2. Span(o, d) = Span(o, c) /\ Pipe(o, d) = Pipe(o, c)
    BY <1>1, PipeSame
  <1>3. Steady(o, o) /\ c.msgtogo \in Nat /\ d.msgtogo \in Nat
    BY FitCounts DEF Steady
  <1>4. Span(o, c) \in Nat /\ Len(outs) \in Nat
    BY SpanCounts, SeqMessages
  <1>5. Flow(o, d, Pipe(o, c), Span(o, c), outs, Len(outs), k)
    BY <1>3, <1>4, FlowKept DEF Pair
  <1> QED BY <1>2, <1>5

\* The length of a message is read.
LEMMA LengthStep ==
    ASSUME NEW c, NEW o, NEW d, Basic(c), Fit(o), NEW ins \in Seq(MsgTypes),
           NEW outs \in Seq(MsgTypes), NEW m \in Nat, NEW k \in Nat,
           Pair(c, o, ins, m, outs, k), c.instate = "NEED_LEN", Unread(c) >= Word,
           d = [c EXCEPT !.inmsglen = NumberAt(c.inbuf, c.intogo), !.intogo = @ + Word,
                         !.instate = "FILL_BUF"]
    PROVE  Basic(d) /\ Pair(d, o, ins, m, outs, k) /\ SameEnd(c, d) /\ d.instate = "FILL_BUF"
  <1> DEFINE N == Len(ins)
             len == NumberAt(c.inbuf, c.intogo)
             ofs == c.intogo + Word
             a == Agreed(c, o)
  <1>0. Word \in Nat \ {0} /\ Fit(c) /\ c \in Channel /\ c.intogo \in Nat
    BY SizeAssumption, ChannelTypes DEF Basic, Fit
  <1>1. N \in Nat /\ Messages(ins, N)
    BY SeqMessages
  <1>2. /\ Span(c, o) \in Nat /\ Unread(c) \in Nat /\ Unread(c) <= Span(c, o)
        /\ \A i \in 1 .. Unread(c) : Pipe(c, o)[i] = Rest(c)[i]
    BY <1>0, PipeFront
  <1>3. m < N /\ Says(Pipe(c, o), Size(a, ins[m + 1]))
    <2>1. Span(c, o) >= Word
      BY <1>0, <1>2
    <2>2. Flow(c, o, Pipe(c, o), Span(c, o), ins, N, m)
      BY DEF Pair
    <2>3. N \in Nat /\ Span(c, o) \in Nat
      BY <1>1, <1>2
    <2> HIDE DEF N
    <2> QED BY <2>1, <2>2, <2>3, LengthThere
  <1>4. len = Size(a, ins[m + 1])
    <2>1. Says(Rest(c), Size(a, ins[m + 1]))
      BY <1>0, <1>2, <1>3 DEF Says
    <2> QED BY <1>0, <2>1, ReadNumber
  <1>5. len \in Int /\ ofs \in Nat
    <2>1. m + 1 \in 1 .. N
      BY <1>1, <1>3
    <2>2. ins[m + 1] \in MsgTypes
      BY <1>1, <2>1 DEF Messages
    <2> QED BY <1>0, <1>4, <2>2, Sizes
  <1>6. d = [c EXCEPT !.inmsglen = len, !.intogo = ofs, !.instate = "FILL_BUF"]
    OBVIOUS
  <1> HIDE DEF len, ofs, N, a
  <1>7. d \in Channel
    BY <1>0, <1>5, <1>6 DEF Channel, InStates
  <1>8. /\ d.inbuf = c.inbuf /\ d.intogo = ofs /\ d.instate = "FILL_BUF" /\ d.inmsglen = len
        /\ d.version = c.version /\ d.protocol = c.protocol
        /\ d.maximum_remote_protocol = c.maximum_remote_protocol
    BY <1>0, <1>6 DEF Channel
  <1>9. SameOutput(c, d) /\ SameEnd(c, d)
    BY <1>0, <1>6 DEF Channel, SameOutput, SameEnd
  <1>10. Fit(d) /\ Unread(c) = Unread(d) + Word /\ Without(Rest(c), Word, Rest(d), Unread(d))
    BY <1>0, <1>7, <1>8, <1>9, Consume DEF ofs
  <1>11. /\ Span(c, o) = Span(d, o) + Word
         /\ Without(Pipe(c, o), Word, Pipe(d, o), Span(d, o))
    BY <1>0, <1>10, PipeConsumed
  <1>12. Flow(d, o, Pipe(d, o), Span(d, o), ins, N, m)
    <2>1. Span(d, o) \in Nat /\ o.msgtogo \in Nat
      BY <1>10, SpanCounts, FitCounts
    <2>2. Flow(c, o, Pipe(c, o), Span(d, o) + Word, ins, N, m)
      BY <1>11 DEF Pair, N
    <2>3. d.instate \in {"FILL_BUF", "HAS_MSG"} /\ d.inmsglen = Size(Agreed(c, o), ins[m + 1])
      BY <1>4, <1>8 DEF a
    <2> QED BY <1>1, <1>3, <1>8, <1>11, <2>1, <2>2, <2>3, LengthRead
  <1>13. Flow(o, d, Pipe(o, d), Span(o, d), outs, Len(outs), k)
    <2>1. SameOut(c, d)
      BY <1>9, OutputKept
    <2>2. c.msgtogo \in Nat /\ d.msgtogo = c.msgtogo
      BY <1>0, <1>9, FitCounts DEF SameOutput
    <2>3. Quiet(c, d)
      BY <1>8, <2>2 DEF Quiet, Talks
    <2> QED BY <1>0, <1>10, <2>1, <2>3, OtherKept
  <1>14. Basic(d)
    BY <1>8, <1>9, <1>10 DEF Basic, Stage0, SameOutput, SameEnd
  <1> QED BY <1>8, <1>9, <1>12, <1>13, <1>14 DEF Pair, N

\* A message is complete.
LEMMA FillStep ==
    ASSUME NEW c, NEW o, NEW d, Basic(c), Fit(o), NEW ins \in Seq(MsgTypes),
           NEW outs \in Seq(MsgTypes), NEW m \in Nat, NEW k \in Nat,
           Pair(c, o, ins, m, outs, k), c.instate = "FILL_BUF", Unread(c) >= c.inmsglen,
           d = [c EXCEPT !.instate = "HAS_MSG"]
    PROVE  Basic(d) /\ Pair(d, o, ins, m, outs, k) /\ SameEnd(c, d) /\ d.instate = "HAS_MSG"
  <1>0. Fit(c) /\ c \in Channel /\ c.inmsglen \in Int
    BY ChannelTypes DEF Basic, Fit
  <1>1. d \in Channel
    BY <1>0 DEF Channel, InStates
  <1>2. d.instate = "HAS_MSG" /\ SameNumbers(c, d) /\ SameInput(c, d) /\ SameOutput(c, d) /\ SameEnd(c, d)
    BY <1>0 DEF Channel, SameNumbers, SameInput, SameOutput, SameEnd
  <1>3. Fit(d)
    BY <1>0, <1>1, <1>2 DEF Fit, SameInput, SameOutput
  <1>4. SameIn(c, d) /\ SameOut(c, d)
    BY <1>2, InputKept, OutputKept
  <1>5. Flow(d, o, Pipe(d, o), Span(d, o), ins, Len(ins), m)
    <2>1. SameOut(o, o)
      BY DEF SameOut
    <2>2. Pipe(d, o) = Pipe(c, o) /\ Span(d, o) = Span(c, o)
      BY <1>4, <2>1, PipeSame
    <2>3. Span(c, o) \in Nat /\ Len(ins) \in Nat
      BY <1>0, SpanCounts, SeqMessages
    <2>4. Flow(d, o, Pipe(c, o), Span(c, o), ins, Len(ins), m)
      BY <1>2, <2>3, Completed DEF Pair, SameNumbers
    <2> QED BY <2>2, <2>4
  <1>6. Flow(o, d, Pipe(o, d), Span(o, d), outs, Len(outs), k)
    <2>1. c.msgtogo \in Nat /\ d.msgtogo = c.msgtogo
      BY <1>0, <1>2, FitCounts DEF SameOutput
    <2>2. Quiet(c, d)
      BY <1>2, <2>1 DEF Quiet, Talks, SameNumbers
    <2> QED BY <1>0, <1>3, <1>4, <2>2, OtherKept
  <1>7. Basic(d)
    <2>1. Unread(d) = Unread(c) /\ d.inmsglen = c.inmsglen /\ Unread(c) \in Nat
      BY <1>0, <1>2, <1>4, FitCounts DEF SameIn, SameNumbers
    <2>2. d.inmsglen <= Unread(d)
      BY <1>0, <2>1
    <2> QED BY <1>2, <1>3, <2>2 DEF Basic, Stage0, SameOutput, SameEnd, SameNumbers
  <1> QED BY <1>2, <1>5, <1>6, <1>7 DEF Pair

\* ReadLength reads all that there is of the next message.
LEMMA ReadLengthStep ==
    ASSUME NEW c, NEW o, NEW d, Basic(c), Fit(o), NEW ins \in Seq(MsgTypes),
           NEW outs \in Seq(MsgTypes), NEW m \in Nat, NEW k \in Nat,
           Pair(c, o, ins, m, outs, k), d = ReadLength(c)
    PROVE  /\ Basic(d) /\ Pair(d, o, ins, m, outs, k) /\ SameEnd(c, d)
           /\ ~Talks(c) => d = c
           /\ Talks(c) => Eager(d)
  <1> DEFINE x == IF c.instate = "NEED_LEN" /\ Unread(c) >= Word
                  THEN [c EXCEPT !.inmsglen = NumberAt(c.inbuf, c.intogo), !.intogo = @ + Word,
                                 !.instate = "FILL_BUF"]
                  ELSE c
  <1>0. Word \in Nat /\ Fit(c) /\ c \in Channel /\ Unread(c) \in Nat
    BY SizeAssumption, FitCounts DEF Basic, Fit
  <1>1. /\ Basic(x) /\ Pair(x, o, ins, m, outs, k) /\ SameEnd(c, x)
        /\ x.instate = "NEED_LEN" => Unread(x) < Word
        /\ ~Talks(c) => x = c
    <2>1. CASE c.instate = "NEED_LEN" /\ Unread(c) >= Word
      <3> DEFINE y == [c EXCEPT !.inmsglen = NumberAt(c.inbuf, c.intogo), !.intogo = @ + Word,
                                !.instate = "FILL_BUF"]
      <3>1. x = y
        BY <2>1
      <3>2. Basic(y) /\ Pair(y, o, ins, m, outs, k) /\ SameEnd(c, y) /\ y.instate = "FILL_BUF"
        BY <2>1, LengthStep
      <3> HIDE DEF x, y
      <3> QED BY <2>1, <3>1, <3>2 DEF Talks
    <2>2. CASE ~(c.instate = "NEED_LEN" /\ Unread(c) >= Word)
      <3>1. x = c
        BY <2>2
      <3> HIDE DEF x
      <3> QED BY <1>0, <2>2, <3>1 DEF SameEnd
    <2> QED BY <2>1, <2>2
  <1>2. d = IF x.instate = "FILL_BUF" /\ Unread(x) >= x.inmsglen THEN [x EXCEPT !.instate = "HAS_MSG"] ELSE x
    BY DEF ReadLength
  <1> HIDE DEF x
  <1>3. CASE x.instate = "FILL_BUF" /\ Unread(x) >= x.inmsglen
    <2>1. d = [x EXCEPT !.instate = "HAS_MSG"]
      BY <1>2, <1>3
    <2>2. Basic(d) /\ Pair(d, o, ins, m, outs, k) /\ SameEnd(x, d) /\ d.instate = "HAS_MSG"
      BY <1>1, <1>3, <2>1, FillStep
    <2>3. Talks(c)
      BY <1>1, <1>3 DEF Talks
    <2> QED BY <1>1, <2>2, <2>3 DEF SameEnd, Eager
  <1>4. CASE ~(x.instate = "FILL_BUF" /\ Unread(x) >= x.inmsglen)
    <2>1. d = x
      BY <1>2, <1>4
    <2>2. Fit(x) /\ Unread(x) \in Nat /\ x.inmsglen \in Int
      BY <1>1, FitCounts, ChannelTypes DEF Basic, Fit
    <2>3. Talks(c) => x.instate # "NEED_PROTO"
      BY <1>1, <1>0 DEF Talks, x, Channel
    <2> QED BY <1>1, <1>4, <2>1, <2>2, <2>3 DEF Eager
  <1> QED BY <1>3, <1>4

\* A number is taken from the input, and what it is.
LEMMA TakeNumber ==
    ASSUME NEW c, NEW o, Fit(c), Fit(o), Unread(c) >= Word, NEW x, Says(Pipe(c, o), x)
    PROVE  NumberAt(c.inbuf, c.intogo) = x
  <1>1. Word \in Nat
    BY SizeAssumption
  <1>2. Unread(c) \in Nat /\ \A i \in 1 .. Unread(c) : Pipe(c, o)[i] = Rest(c)[i]
    BY PipeFront
  <1>3. Says(Rest(c), x)
    BY <1>1, <1>2 DEF Says
  <1> QED BY <1>3, ReadNumber

\* The second round of the exchange of versions ends it.
LEMMA SecondStep ==
    ASSUME NEW c, NEW o, NEW d, Basic(c), Fit(o), NEW ins \in Seq(MsgTypes),
           NEW outs \in Seq(MsgTypes), NEW m \in Nat, NEW k \in Nat, NEW n,
           Pair(c, o, ins, m, outs, k), Stage1(c), Unread(c) >= Word, d = ReadVersion(c, n)
    PROVE  Basic(d) /\ Pair(d, o, ins, m, outs, k) /\ SameEnd(c, d) /\ d.instate = "NEED_LEN"
  <1> DEFINE N == Len(ins)
             remote == NumberAt(c.inbuf, c.intogo)
             ofs == c.intogo + Word
             x == [c EXCEPT !.intogo = @ + Word]
             a == Agreed(c, o)
  <1>0. /\ Word \in Nat \ {0} /\ Fit(c) /\ c \in Channel /\ c.intogo \in Nat /\ c.protocol \in Int
        /\ c.instate = "NEED_PROTO" /\ c.protocol < -1
    BY SizeAssumption, ChannelTypes DEF Basic, Fit, Stage1
  <1>1. N \in Nat /\ Messages(ins, N) /\ a \in Nat \ {0}
    BY <1>0, SeqMessages, AgreedSame
  <1>2. Span(c, o) \in Nat /\ Span(c, o) >= Word
    <2>1. Span(c, o) \in Nat /\ Unread(c) \in Nat /\ Unread(c) <= Span(c, o)
      BY <1>0, PipeFront
    <2> QED BY <1>0, <2>1
  <1>3. Flow(c, o, Pipe(c, o), Span(c, o), ins, N, m)
    BY DEF Pair
  <1>4. m = 0 /\ c.version >= MIN_PROTOCOL_VERSION /\ Says(Pipe(c, o), a)
    <2> HIDE DEF N
    <2> QED BY <1>1, <1>2, <1>3, SecondThere
  <1>5. remote = a
    BY <1>0, <1>4, TakeNumber
  <1>6. c.protocol = -1 - a
    <2>1. Live(c)
      BY DEF Live
    <2>2. Versioned(c, o)
      BY <1>3, <2>1, FlowPlaced
    <2> QED BY <2>2 DEF Versioned
  <1> HIDE DEF remote, a, N
  <1>7. d = SecondVersion(x, remote)
    <2>1. ~(c.protocol = -1)
      BY <1>0
    <2> QED BY <1>0, <2>1 DEF ReadVersion, remote
  <1>8. x = [c EXCEPT !.intogo = ofs] /\ ofs \in Nat
    BY <1>0
  <1>9. x.protocol = c.protocol /\ remote = -(x.protocol + 1)
    <2>1. x.protocol = c.protocol
      BY <1>0 DEF Channel
    <2>2. remote = -(c.protocol + 1)
      BY <1>0, <1>1, <1>5, <1>6
    <2> QED BY <2>1, <2>2
  <1>10. d = [x EXCEPT !.protocol = remote, !.instate = "NEED_LEN"]
    BY <1>7, <1>9 DEF SecondVersion
  <1> HIDE DEF ofs, x
  <1>11. x \in Channel /\ x.inbuf = c.inbuf /\ x.intogo = ofs /\ SameMind(c, x) /\ SameOutput(c, x)
         /\ SameEnd(c, x)
    BY <1>0, <1>8 DEF Channel, SameMind, SameNumbers, SameOutput, SameEnd
  <1>12. d \in Channel
    <2>1. x \in Channel /\ remote \in Int
      BY <1>1, <1>5, <1>11
    <2> QED BY <1>10, <2>1 DEF Channel, InStates
  <1>13. /\ d.inbuf = c.inbuf /\ d.intogo = ofs /\ d.instate = "NEED_LEN" /\ d.protocol = remote
         /\ d.version = c.version /\ d.maximum_remote_protocol = c.maximum_remote_protocol
    BY <1>10, <1>11 DEF Channel, SameMind, SameNumbers
  <1>14. SameOutput(c, d) /\ SameEnd(c, d)
    BY <1>10, <1>11 DEF Channel, SameOutput, SameEnd
  <1>15. Fit(d) /\ Unread(c) = Unread(d) + Word /\ Without(Rest(c), Word, Rest(d), Unread(d))
    BY <1>0, <1>12, <1>13, <1>14, Consume DEF ofs
  <1>16. /\ Span(c, o) = Span(d, o) + Word
         /\ Without(Pipe(c, o), Word, Pipe(d, o), Span(d, o))
    BY <1>0, <1>15, PipeConsumed
  <1>17. Flow(d, o, Pipe(d, o), Span(d, o), ins, N, m)
    <2>1. Span(d, o) \in Nat /\ o.msgtogo \in Nat
      BY <1>15, SpanCounts, FitCounts
    <2>2. Flow(c, o, Pipe(c, o), Span(d, o) + Word, ins, N, 0)
      BY <1>3, <1>4, <1>16
    <2>3. d.protocol = Agreed(c, o)
      BY <1>5, <1>13 DEF a
    <2> QED BY <1>1, <1>4, <1>13, <1>16, <2>1, <2>2, <2>3, SecondRead
  <1>18. Flow(o, d, Pipe(o, d), Span(o, d), outs, Len(outs), k)
    <2>1. SameOut(c, d)
      BY <1>14, OutputKept
    <2>2. c.msgtogo \in Nat /\ d.msgtogo = c.msgtogo
      BY <1>0, <1>14, FitCounts DEF SameOutput
    <2>3. Quiet(c, d)
      BY <1>13, <2>2 DEF Quiet, Talks
    <2> QED BY <1>0, <1>15, <2>1, <2>3, OtherKept
  <1>19. Basic(d)
    <2>1. d.protocol # 0
      BY <1>1, <1>5, <1>13
    <2> QED BY <1>13, <1>14, <1>15, <2>1 DEF Basic, Stage0, Stage1, SameOutput, SameEnd
  <1> QED BY <1>13, <1>14, <1>17, <1>18, <1>19 DEF Pair, N

\* The version of the other end is read: it is refused, or the answer goes out and the
\* second round begins.
LEMMA FirstStep ==
    ASSUME NEW c, NEW o, NEW d, Basic(c), Fit(o), NEW ins \in Seq(MsgTypes),
           NEW outs \in Seq(MsgTypes), NEW m \in Nat, NEW k \in Nat, NEW n \in Nat,
           Pair(c, o, ins, m, outs, k), Stage0(c), c.instate = "NEED_PROTO",
           Unread(c) >= Word, d = ReadVersion(c, n)
    PROVE  /\ Basic(d) /\ Pair(d, o, ins, m, outs, k)
           /\ Stopped(c, d) \/ (Stage1(d) /\ SameEnd(c, d))
  <1> DEFINE N == Len(ins)
             remote == NumberAt(c.inbuf, c.intogo)
             ofs == c.intogo + Word
             x == [[c EXCEPT !.intogo = @ + Word] EXCEPT !.protocol = 0]
             a == Agreed(c, o)
             y0 == [x EXCEPT !.maximum_remote_protocol = remote]
             y == writefull(y0, Number(MinOf(remote, x.version)))
             z == flush_writebuf(y, n)
  <1>0. /\ Word \in Nat \ {0} /\ Fit(c) /\ c \in Channel /\ c.intogo \in Nat /\ c.protocol = -1
        /\ c.msgofs = 0 /\ c.msgtogo \in Nat /\ c.msgtogo <= Word /\ c.version \in Nat
        /\ o.version \in Nat /\ 2 * Word <= Cheap /\ Cheap \in Nat
    BY SizeAssumption, ChannelTypes DEF Basic, Fit, Stage0
  <1>1. N \in Nat /\ Messages(ins, N) /\ a \in Nat \ {0} /\ a = Agreed(o, c)
    BY <1>0, SeqMessages, AgreedSame
  <1>2. Span(c, o) \in Nat /\ Span(c, o) >= Word
    <2>1. Span(c, o) \in Nat /\ Unread(c) \in Nat /\ Unread(c) <= Span(c, o)
      BY <1>0, PipeFront
    <2> QED BY <1>0, <2>1
  <1>3. Flow(c, o, Pipe(c, o), Span(c, o), ins, N, m)
    BY DEF Pair
  <1>4. m = 0 /\ Says(Pipe(c, o), o.version)
    <2> HIDE DEF N
    <2> QED BY <1>1, <1>2, <1>3, FirstThere
  <1>5. remote = o.version
    BY <1>0, <1>4, TakeNumber
  <1>6. d = FirstVersion(x, remote, n)
    BY <1>0 DEF ReadVersion
  <1> HIDE DEF remote, N
  <1>7. x \in Channel /\ ofs \in Nat
    <2>1. ofs \in Nat
      BY <1>0
    <2> DEFINE b == [c EXCEPT !.intogo = @ + Word]
    <2>2. b \in Channel
      <3>1. c \in Channel /\ c.intogo + Word \in Nat
        BY <1>0
      <3> QED BY <3>1 DEF Channel
    <2>3. x = [b EXCEPT !.protocol = 0] /\ 0 \in Int
      OBVIOUS
    <2> HIDE DEF x, b
    <2>4. x \in Channel
      BY <2>2, <2>3 DEF Channel
    <2> QED BY <2>1, <2>4
  <1>8. /\ x.inbuf = c.inbuf /\ x.intogo = ofs /\ x.protocol = 0 /\ x.instate = "NEED_PROTO"
        /\ x.version = c.version /\ SameOutput(c, x) /\ SameEnd(c, x)
    BY <1>0 DEF Channel, SameOutput, SameEnd
  <1> HIDE DEF x
  <1>9. Fit(x) /\ Unread(c) = Unread(x) + Word /\ Without(Rest(c), Word, Rest(x), Unread(x))
    BY <1>0, <1>7, <1>8, Consume
  <1> HIDE DEF ofs
  <1>10. x.version = c.version /\ MinOf(remote, x.version) = a
    BY <1>0, <1>5, <1>8 DEF MinOf, Agreed
  <1> HIDE DEF a
  <1>11. CASE remote < MIN_PROTOCOL_VERSION \/ remote > 2 ^ 20
    <2>1. d = set_error(x, FALSE)
      BY <1>6, <1>11 DEF FirstVersion
    <2>2. x.instate = "ERROR" => x.eof
      BY <1>8
    <2>3. FALSE \in BOOLEAN
      OBVIOUS
    <2>4. Fit(d) /\ SameInput(x, d) /\ SameOutput(x, d) /\ SameNumbers(x, d) /\ Stopped(x, d)
      BY <1>9, <2>1, <2>2, <2>3, SetError, Zenon
    <2>5. d.protocol = 0 /\ d.version = c.version /\ ~Live(d) /\ SameOutput(c, d) /\ Stopped(c, d)
      BY <1>8, <2>4 DEF SameNumbers, Live, Stage0, Stage1, Talks, Stopped, SameOutput, SameEnd
    <2>6. Flow(o, d, Pipe(o, d), Span(o, d), outs, Len(outs), k)
      <3>1. SameOut(c, d) /\ Quiet(c, d)
        BY <2>5, OutputKept DEF Quiet
      <3> QED BY <1>0, <2>4, <3>1, OtherKept
    <2>7. Flow(d, o, Pipe(d, o), Span(d, o), ins, Len(ins), m)
      BY <2>5 DEF Flow
    <2>8. Basic(d)
      BY <1>0, <2>4, <2>5 DEF Basic, Stopped, Live, SameOutput
    <2> QED BY <2>5, <2>6, <2>7, <2>8 DEF Pair
  <1>12. CASE ~(remote < MIN_PROTOCOL_VERSION \/ remote > 2 ^ 20)
    <2>1. d = IF Failed(x, z) THEN z ELSE [z EXCEPT !.protocol = -1 - a]
      BY <1>6, <1>10, <1>12 DEF FirstVersion
    <2>2. remote \in Nat /\ remote >= MIN_PROTOCOL_VERSION
      BY <1>0, <1>5, <1>12 DEF MIN_PROTOCOL_VERSION
    <2>3. y0 \in Channel
      <3>1. x \in Channel /\ remote \in Int
        BY <1>7, <2>2
      <3> QED BY <3>1 DEF Channel
    <2>4. /\ SameInput(x, y0) /\ SameOutput(x, y0) /\ SameEnd(x, y0)
          /\ y0.maximum_remote_protocol = remote /\ y0.version = x.version /\ y0.protocol = x.protocol
          /\ y0.instate = x.instate
      BY <1>7 DEF Channel, SameInput, SameOutput, SameEnd
    <2> HIDE DEF y0
    <2>5. Fit(y0) /\ y0.msgofs = 0 /\ y0.msgtogo = c.msgtogo /\ SameIn(x, y0) /\ SameOut(c, y0)
      <3>1. Fit(y0)
        BY <1>9, <2>3, <2>4 DEF Fit, SameInput, SameOutput
      <3>2. y0.msgofs = 0 /\ y0.msgtogo = c.msgtogo /\ SameOutput(c, y0)
        BY <1>0, <1>8, <2>4 DEF SameOutput
      <3> QED BY <2>4, <3>1, <3>2, InputKept, OutputKept
    <2>6. /\ Number(a) \in Seq(Byte) /\ Len(Number(a)) = Word
          /\ \A q \in 1 .. Word : Number(a)[q] = <<"number", a, q>>
      BY <1>1, NumberSeq
    <2>7. y = writefull(y0, Number(a))
      BY <1>10
    <2> HIDE DEF y
    <2>8. /\ Fit(y) /\ SameInput(y0, y) /\ SameMind(y0, y) /\ SameEnd(y0, y)
          /\ y.msgofs = 0 /\ y.msgtogo = y0.msgtogo + Word
          /\ Held(y) = Held(y0) + Word /\ With(Out(y0), Held(y0), Out(y))
          /\ \A j \in 1 .. Word : Out(y)[Held(y0) + j] = Number(a)[j]
      <3>1. Written(y0, y, Number(a))
        BY <2>5, <2>6, <2>7, WriteFull
      <3> QED BY <2>6, <3>1 DEF Written
    <2>9. y.msgtogo <= Cheap /\ y.instate = "NEED_PROTO"
      BY <1>0, <1>8, <2>4, <2>5, <2>8 DEF SameMind
    <2>10. /\ Fit(z) /\ SameInput(y, z) /\ SameNumbers(y, z) /\ SameOut(y, z)
           /\ z.msgtogo <= y.msgtogo /\ z.msgofs = 0
           /\ Flushed(y, z) \/ Stopped(y, z)
      BY <2>8, <2>9, Flush
    <2> HIDE DEF z
    <2>11. /\ z.version = c.version /\ z.protocol = 0 /\ z.maximum_remote_protocol = remote
           /\ z.inbuf = c.inbuf /\ z.intogo = ofs
      BY <1>8, <2>4, <2>8, <2>10 DEF SameNumbers, SameMind, SameInput
    <2>12. SameEnd(c, y)
      BY <1>8, <2>4, <2>8 DEF SameEnd
    <2>13. /\ Failed(x, z) => Stopped(c, z)
           /\ ~Failed(x, z) => Flushed(y, z)
      BY <1>8, <2>9, <2>10, <2>12 DEF Failed, Flushed, Stopped, SameEnd
    <2>14. z \in Channel
      BY <2>10 DEF Fit
    <2>15. /\ Fit(d) /\ SameInput(z, d) /\ SameOutput(z, d) /\ SameEnd(z, d)
           /\ d.version = z.version /\ d.instate = z.instate
           /\ d.maximum_remote_protocol = z.maximum_remote_protocol
           /\ \/ Failed(x, z) /\ d.protocol = 0
              \/ ~Failed(x, z) /\ d.protocol = -1 - a
      <3>1. CASE Failed(x, z)
        <4>1. d = z
          BY <2>1, <3>1
        <4> QED BY <2>10, <2>11, <3>1, <4>1 DEF SameInput, SameOutput, SameEnd
      <3>2. CASE ~Failed(x, z)
        <4>1. d = [z EXCEPT !.protocol = -1 - a] /\ -1 - a \in Int
          BY <1>1, <2>1, <3>2
        <4>2. d \in Channel
          BY <2>14, <4>1 DEF Channel
        <4>3. /\ SameInput(z, d) /\ SameOutput(z, d) /\ SameEnd(z, d)
              /\ d.version = z.version /\ d.instate = z.instate
              /\ d.maximum_remote_protocol = z.maximum_remote_protocol
              /\ d.protocol = -1 - a
          BY <2>14, <4>1 DEF Channel, SameInput, SameOutput, SameEnd
        <4>4. Fit(d)
          BY <2>10, <4>2, <4>3 DEF Fit, SameInput, SameOutput
        <4> QED BY <3>2, <4>3, <4>4
      <3> QED BY <3>1, <3>2
    <2>16. /\ Failed(x, z) => ~Live(d) /\ Stopped(c, d)
           /\ ~Failed(x, z) => Stage1(d) /\ SameEnd(c, d) /\ d.msgtogo = 0
      <3>1. CASE Failed(x, z)
        <4>1. Stopped(c, z) /\ d.protocol = 0 /\ (d.instate = "ERROR" \/ d.instate = "NEED_PROTO")
          BY <2>13, <2>15, <3>1 DEF Stopped
        <4> QED BY <2>15, <3>1, <4>1 DEF Live, Stage0, Stage1, Talks, Stopped, SameEnd
      <3>2. CASE ~Failed(x, z)
        <4>1. Flushed(y, z) /\ d.protocol = -1 - a
          BY <2>13, <2>15, <3>2
        <4>2. d.protocol < -1
          BY <1>1, <4>1
        <4> QED BY <2>9, <2>12, <2>15, <3>2, <4>1, <4>2 DEF Stage1, Flushed, SameEnd, SameOutput
      <3> QED BY <3>1, <3>2
    <2>17. Basic(d)
      <3>1. d.msgofs = 0
        BY <2>10, <2>15 DEF SameOutput
      <3>2. d.instate = "ERROR" \/ d.instate = "NEED_PROTO"
        BY <2>16 DEF Stopped, Stage1
      <3>3. CASE Failed(x, z)
        BY <2>15, <2>16, <3>1, <3>2, <3>3 DEF Basic, Live, Stopped
      <3>4. CASE ~Failed(x, z)
        <4>1. d.protocol < -1 /\ d.protocol \in Int
          BY <2>16, <3>4, <2>15, ChannelTypes DEF Stage1, Fit
        <4> QED BY <2>15, <2>16, <3>1, <3>4, <4>1 DEF Basic, Stage0, Stage1
      <3> QED BY <3>3, <3>4
    <2>18. Flow(d, o, Pipe(d, o), Span(d, o), ins, Len(ins), m)
      <3>1. CASE Failed(x, z)
        BY <2>16, <3>1 DEF Flow
      <3>2. CASE ~Failed(x, z)
        <4>1. d \in Channel /\ d.inbuf = c.inbuf /\ d.intogo = ofs
          BY <2>11, <2>15 DEF Fit, SameInput
        <4>2. SameIn(x, d)
          <5>1. SameInput(x, d)
            BY <1>8, <4>1 DEF SameInput
          <5> QED BY <5>1, InputKept
        <4>3. Unread(c) = Unread(d) + Word /\ Without(Rest(c), Word, Rest(d), Unread(d))
          BY <1>9, <4>2 DEF SameIn
        <4>4. /\ Span(c, o) = Span(d, o) + Word
              /\ Without(Pipe(c, o), Word, Pipe(d, o), Span(d, o))
          BY <1>0, <2>15, <4>3, PipeConsumed
        <4>5. Span(d, o) \in Nat /\ o.msgtogo \in Nat
          BY <2>15, SpanCounts, FitCounts
        <4>6. Flow(c, o, Pipe(c, o), Span(d, o) + Word, ins, N, 0)
          BY <1>3, <1>4, <4>4
        <4>7. /\ d.version = c.version /\ Stage1(d) /\ d.protocol = -1 - Agreed(c, o)
              /\ d.maximum_remote_protocol = o.version /\ o.version >= MIN_PROTOCOL_VERSION
          BY <1>5, <2>2, <2>11, <2>15, <2>16, <3>2 DEF a
        <4>8. Flow(d, o, Pipe(d, o), Span(d, o), ins, N, 0)
          BY <1>1, <4>4, <4>5, <4>6, <4>7, FirstRead
        <4> QED BY <1>4, <4>8 DEF N
      <3> QED BY <3>1, <3>2
    <2>19. Flow(o, d, Pipe(o, d), Span(o, d), outs, Len(outs), k)
      <3>1. Held(y0) = Held(c) /\ Out(y0) = Out(c)
        BY <2>5 DEF SameOut
      <3>2. SameOut(z, d)
        BY <2>15, OutputKept
      <3>3. Held(d) = Held(y) /\ Out(d) = Out(y)
        BY <2>10, <3>2 DEF SameOut
      <3>4. /\ Held(d) = Held(c) + Word /\ With(Out(c), Held(c), Out(d))
            /\ \A j \in 1 .. Word : Out(d)[Held(c) + j] = <<"number", a, j>>
        BY <2>6, <2>8, <3>1, <3>3
      <3>5. /\ Span(o, d) = Span(o, c) + Word
            /\ With(Pipe(o, c), Span(o, c), Pipe(o, d))
            /\ Behind(Pipe(o, d), Span(o, c), Out(d), Held(c), Word)
        <4>1. Fit(o) /\ Fit(c) /\ Fit(d) /\ Word \in Nat
          BY <1>0, <2>15
        <4> QED BY <3>4, <4>1, PipeLonger
      <3>6. \A q \in 1 .. Word : Pipe(o, d)[Span(o, c) + q] = <<"number", Agreed(o, c), q>>
        BY <1>1, <3>4, <3>5 DEF Behind
      <3>7. Span(o, c) \in Nat /\ Len(outs) \in Nat
        BY <1>0, SpanCounts, SeqMessages
      <3>8. Flow(o, c, Pipe(o, c), Span(o, c), outs, Len(outs), k)
        BY DEF Pair
      <3>9. d.version = c.version /\ (~Live(d) \/ (Stage1(d) /\ d.msgtogo = 0)) /\ o.version >= MIN_PROTOCOL_VERSION
        BY <1>5, <2>2, <2>11, <2>15, <2>16
      <3>10. Flow(o, d, Pipe(o, d), Span(o, c) + Word, outs, Len(outs), k)
        BY <3>5, <3>6, <3>7, <3>8, <3>9, FlowAgreed
      <3> QED BY <3>5, <3>10
    <2> QED BY <2>16, <2>17, <2>18, <2>19 DEF Pair
  <1> QED BY <1>11, <1>12

\* Either round of the exchange.
LEMMA VersionStep ==
    ASSUME NEW c, NEW o, NEW d, Basic(c), Fit(o), NEW ins \in Seq(MsgTypes),
           NEW outs \in Seq(MsgTypes), NEW m \in Nat, NEW k \in Nat, NEW n \in Nat,
           Pair(c, o, ins, m, outs, k), c.instate = "NEED_PROTO", c.protocol # 0,
           Unread(c) >= Word, d = ReadVersion(c, n)
    PROVE  /\ Basic(d) /\ Pair(d, o, ins, m, outs, k)
           /\ \/ Stopped(c, d)
              \/ SameEnd(c, d) /\ Stage0(c) /\ Stage1(d)
              \/ SameEnd(c, d) /\ Stage1(c) /\ d.instate = "NEED_LEN"
  <1>1. c.protocol \in Int /\ c.protocol <= 0
    BY ChannelTypes DEF Basic, Fit
  <1>2. c.protocol = -1 \/ c.protocol < -1
    BY <1>1
  <1>3. CASE Stage0(c)
    BY <1>3, FirstStep
  <1>4. CASE Stage1(c)
    BY <1>4, SecondStep
  <1> QED BY <1>2, <1>3, <1>4 DEF Stage0, Stage1

\* Whatever has arrived is taken as far as it goes, and both directions stay in order.
LEMMA UpdateState ==
    ASSUME NEW c, NEW o, NEW d, Basic(c), Fit(o), NEW ins \in Seq(MsgTypes),
           NEW outs \in Seq(MsgTypes), NEW m \in Nat, NEW k \in Nat, NEW n \in Nat,
           Pair(c, o, ins, m, outs, k), c.instate \notin {"none", "ERROR"},
           d = update_state(c, n)
    PROVE  Basic(d) /\ Eager(d) /\ Pair(d, o, ins, m, outs, k)
  <1> DEFINE Ready(b) == /\ b.instate = "NEED_PROTO" /\ b.protocol # 0 /\ ~Failed(c, b)
                         /\ Unread(b) >= Word
             Round(b) == IF Ready(b) THEN ReadVersion(b, n) ELSE b
             r1 == Round(c)
             r == Round(r1)
  <1>1. d = IF Failed(c, r) THEN r
            ELSE IF r.instate = "NEED_PROTO" /\ r.protocol = 0 /\ Unread(r) >= Word
                 THEN set_error(r, TRUE)
            ELSE ReadLength(r)
    BY DEF update_state
  <1>2. ~Failed(c, c)
    BY DEF Failed
  <1>3. /\ Basic(r1) /\ Pair(r1, o, ins, m, outs, k)
        /\ \/ r1 = c /\ ~Ready(c)
           \/ Stopped(c, r1)
           \/ SameEnd(c, r1) /\ Stage1(r1)
           \/ SameEnd(c, r1) /\ r1.instate = "NEED_LEN"
    <2>1. CASE Ready(c)
      <3>1. r1 = ReadVersion(c, n)
        BY <2>1
      <3> QED BY <2>1, <3>1, VersionStep
    <2>2. CASE ~Ready(c)
      <3>1. r1 = c
        BY <2>2
      <3> QED BY <2>2, <3>1
    <2> QED BY <2>1, <2>2
  <1> HIDE DEF r1
  <1>4. /\ Basic(r) /\ Pair(r, o, ins, m, outs, k)
        /\ \/ Failed(c, r)
           \/ r.instate # "NEED_PROTO"
           \/ ~Ready(r)
    <2>1. CASE Ready(r1)
      <3>1. r = ReadVersion(r1, n)
        BY <2>1
      <3>2. ~Stopped(c, r1) /\ ~(r1 = c /\ ~Ready(c))
        BY <2>1 DEF Failed, Stopped
      <3>3. SameEnd(c, r1) /\ Stage1(r1)
        BY <1>3, <2>1, <3>2
      <3>4. /\ Basic(r) /\ Pair(r, o, ins, m, outs, k)
            /\ Stopped(r1, r) \/ r.instate = "NEED_LEN"
        <4>1. ~Stage0(r1)
          BY <1>3, <3>3, ChannelTypes DEF Stage0, Stage1, Basic, Fit
        <4> HIDE DEF r
        <4> QED BY <1>3, <2>1, <3>1, <4>1, VersionStep
      <3>5. Stopped(r1, r) => Failed(c, r)
        BY <3>3 DEF Stopped, Failed, SameEnd
      <3> QED BY <3>4, <3>5
    <2>2. CASE ~Ready(r1)
      <3>1. r = r1
        BY <2>2
      <3> QED BY <1>3, <2>2, <3>1
    <2> QED BY <2>1, <2>2
  <1> HIDE DEF r
  <1>5. CASE Failed(c, r)
    <2>1. d = r
      BY <1>1, <1>5
    <2>2. Eager(r)
      BY <1>5 DEF Failed, Eager
    <2> QED BY <1>4, <2>1, <2>2
  <1>6. CASE ~Failed(c, r) /\ r.instate = "NEED_PROTO" /\ r.protocol = 0 /\ Unread(r) >= Word
    <2>1. d = set_error(r, TRUE)
      BY <1>1, <1>6
    <2>2. d = Dead(r) /\ Fit(r)
      BY <1>4, <1>6, <2>1 DEF set_error, Basic
    <2>3. Fit(d) /\ SameInput(r, d) /\ SameOutput(r, d) /\ SameNumbers(r, d) /\ d.instate = "ERROR" /\ d.eof
      BY <2>2, DeadChannel
    <2>4. ~Live(d) /\ d.version = r.version
      BY <2>3 DEF Live, Stage0, Stage1, Talks, SameNumbers
    <2>5. Steady(r, d) /\ Quiet(r, d) /\ SameIn(r, d) /\ SameOut(r, d)
      BY <2>3, <2>4, InputKept, OutputKept DEF Steady, Quiet
    <2>6. Pair(d, o, ins, m, outs, k)
      BY <1>4, <2>2, <2>3, <2>5, PairKept
    <2> QED BY <2>3, <2>4, <2>6 DEF Basic, Eager, Live
  <1>7. CASE /\ ~Failed(c, r)
             /\ ~(r.instate = "NEED_PROTO" /\ r.protocol = 0 /\ Unread(r) >= Word)
    <2>1. d = ReadLength(r)
      BY <1>1, <1>7
    <2>2. /\ Basic(d) /\ Pair(d, o, ins, m, outs, k) /\ SameEnd(r, d)
          /\ ~Talks(r) => d = r
          /\ Talks(r) => Eager(d)
      BY <1>4, <2>1, ReadLengthStep
    <2>3. CASE Talks(r)
      BY <2>2, <2>3
    <2>4. CASE ~Talks(r)
      <3>1. r.instate = "NEED_PROTO" => ~(Unread(r) >= Word)
        BY <1>4, <1>7
      <3>2. Unread(r) \in Nat /\ Word \in Nat
        BY <1>4, FitCounts, SizeAssumption DEF Basic
      <3>3. Eager(r)
        BY <2>4, <3>1, <3>2 DEF Eager, Talks
      <3> QED BY <2>2, <2>4, <3>3
    <2> QED BY <2>3, <2>4
  <1> QED BY <1>5, <1>6, <1>7

\* What the end of a stream, an error or the end of set_error do to a channel: its buffers
\* and what it knows stay.
Kept(c, d) ==
    /\ SameIn(c, d) /\ SameOutput(c, d) /\ SameNumbers(c, d)
    /\ \/ Stopped(c, d)
       \/ /\ d.instate = c.instate /\ d.set_error_recursion = c.set_error_recursion
          /\ c.instate = "ERROR" => d.eof

\* Such a step keeps both directions in order.
LEMMA KeptStep ==
    ASSUME NEW c, NEW o, NEW d, Basic(c), Eager(c), Fit(o), Fit(d), NEW ins \in Seq(MsgTypes),
           NEW outs \in Seq(MsgTypes), NEW m \in Nat, NEW k \in Nat,
           Pair(c, o, ins, m, outs, k), Kept(c, d)
    PROVE  Basic(d) /\ Eager(d) /\ Pair(d, o, ins, m, outs, k)
  <1>1. Fit(c) /\ c.msgtogo \in Nat /\ Unread(c) \in Nat /\ c.inmsglen \in Int
    BY FitCounts, ChannelTypes DEF Basic, Fit
  <1>2. /\ SameIn(c, d) /\ SameOutput(c, d) /\ SameNumbers(c, d) /\ SameOut(c, d)
        /\ d.instate = "ERROR" => d.eof
        /\ d.instate # "ERROR" => d.instate = c.instate
        /\ ~d.set_error_recursion /\ d.instate # "ERROR" => ~c.set_error_recursion
        /\ c.set_error_recursion => d.instate = "ERROR" \/ d.set_error_recursion
        /\ c.instate = "ERROR" => d.instate = "ERROR"
    BY OutputKept DEF Kept, Stopped, Basic
  <1>3. d.instate = "ERROR" => ~Live(d)
    BY DEF Live, Stage0, Stage1, Talks
  <1>4. Steady(c, d)
    BY <1>2, <1>3 DEF Steady, SameNumbers
  <1>5. Quiet(c, d)
    BY <1>1, <1>2, <1>3 DEF Quiet, SameNumbers, SameOutput
  <1>6. Pair(d, o, ins, m, outs, k)
    BY <1>1, <1>2, <1>4, <1>5, PairKept
  <1>7. Eager(d)
    BY <1>2 DEF Eager, SameIn, SameNumbers
  <1>8. Basic(d)
    <2>1. CASE d.instate = "ERROR"
      BY <1>2, <1>3, <2>1 DEF Basic, Live
    <2>2. CASE d.instate # "ERROR"
      BY <1>1, <1>2, <2>2 DEF Basic, SameIn, SameOutput, SameNumbers, Stage0
    <2> QED BY <2>1, <2>2
  <1> QED BY <1>6, <1>7, <1>8

\* A connection that starts to listen has lost nothing.
LEMMA Begun ==
    ASSUME NEW r, NEW s, NEW pipe, NEW n, NEW msgs, NEW N, NEW m,
           Flow(r, s, pipe, n, msgs, N, m), Stage0(r), NEW d, Stage0(d), d.version = r.version
    PROVE  Flow(d, s, pipe, n, msgs, N, m)
  <1>1. /\ ~Stage1(d) /\ ~Talks(d) /\ d.instate # "NEED_LEN"
        /\ d.instate \notin {"FILL_BUF", "HAS_MSG"} /\ Agreed(d, s) = Agreed(r, s)
    BY DEF Stage0, Stage1, Talks, Agreed
  <1>2. PICK pos : Placed(pos, r, s, pipe, n, msgs, N, m)
    BY FlowPlaced DEF Live
  <1>3. Receiver(d, pos, Agreed(d, s), msgs, N, m)
    BY <1>1, <1>2 DEF Placed, Receiver
  <1>4. Versioned(d, s)
    BY <1>1 DEF Versioned
  <1> QED BY <1>1, <1>2, <1>3, <1>4 DEF Flow, Placed

\* The constructor sends the version of this end.
LEMMA CreateStep ==
    ASSUME NEW c, NEW o, NEW d, Basic(c), Fit(o), NEW ins \in Seq(MsgTypes),
           NEW outs \in Seq(MsgTypes), NEW m \in Nat, NEW k \in Nat, NEW n \in Nat,
           Pair(c, o, ins, m, outs, k), c.instate = "none",
           d = flush_writebuf(writefull([c EXCEPT !.instate = "NEED_PROTO"], Number(c.version)), n)
    PROVE  Basic(d) /\ Eager(d) /\ Pair(d, o, ins, m, outs, k)
  <1> DEFINE v == c.version
             x == [c EXCEPT !.instate = "NEED_PROTO"]
             y == writefull(x, Number(v))
  <1>0. /\ Word \in Nat \ {0} /\ Cheap \in Nat /\ Word <= Cheap /\ Fit(c) /\ c \in Channel /\ v \in Int
        /\ c.protocol = -1 /\ Unread(c) = 0 /\ c.msgtogo = 0 /\ c.msgofs = 0 /\ Stage0(c)
    BY SizeAssumption, ChannelTypes DEF Basic, Fit, Stage0
  <1>1. x \in Channel
    <2>1. c \in Channel
      BY <1>0
    <2> QED BY <2>1 DEF Channel, InStates
  <1>2. /\ SameNumbers(c, x) /\ SameInput(c, x) /\ SameOutput(c, x) /\ SameEnd(c, x)
        /\ x.instate = "NEED_PROTO"
    BY <1>0 DEF Channel, SameNumbers, SameInput, SameOutput, SameEnd
  <1>3. d = flush_writebuf(y, n)
    OBVIOUS
  <1> HIDE DEF x, v
  <1>4. Fit(x) /\ x.msgofs = 0 /\ x.msgtogo = 0 /\ SameIn(c, x) /\ SameOut(c, x)
    BY <1>0, <1>1, <1>2, InputKept, OutputKept DEF Fit, SameInput, SameOutput
  <1>5. /\ Number(v) \in Seq(Byte) /\ Len(Number(v)) = Word
        /\ \A q \in 1 .. Word : Number(v)[q] = <<"number", v, q>>
    BY <1>0, NumberSeq
  <1>6. /\ Fit(y) /\ SameInput(x, y) /\ SameMind(x, y) /\ SameEnd(x, y)
        /\ y.msgofs = 0 /\ y.msgtogo = x.msgtogo + Word
        /\ Held(y) = Held(x) + Word /\ With(Out(x), Held(x), Out(y))
        /\ \A j \in 1 .. Word : Out(y)[Held(x) + j] = Number(v)[j]
    <2>1. y = writefull(x, Number(v))
      OBVIOUS
    <2> HIDE DEF y
    <2>2. Written(x, y, Number(v))
      BY <1>4, <1>5, <2>1, WriteFull
    <2> QED BY <1>5, <2>2 DEF Written
  <1> HIDE DEF y
  <1>7. y.msgtogo = Word /\ y.instate = "NEED_PROTO" /\ y.protocol = -1 /\ y.version = c.version
    BY <1>0, <1>2, <1>4, <1>6 DEF SameMind, SameNumbers
  <1>8. Stage0(y)
    BY <1>7 DEF Stage0
  <1>9. /\ Held(y) = Held(c) + Word /\ With(Out(c), Held(c), Out(y))
        /\ \A j \in 1 .. Word : Out(y)[Held(c) + j] = <<"number", v, j>>
    BY <1>4, <1>5, <1>6 DEF SameOut
  <1>10. Flow(o, y, Pipe(o, y), Span(o, y), outs, Len(outs), k)
    <2>1. Fit(o) /\ Fit(c) /\ Fit(y) /\ Word \in Nat
      BY <1>0, <1>6
    <2>2. /\ Span(o, y) = Span(o, c) + Word
          /\ With(Pipe(o, c), Span(o, c), Pipe(o, y))
          /\ Behind(Pipe(o, y), Span(o, c), Out(y), Held(c), Word)
      BY <1>9, <2>1, PipeLonger
    <2>3. \A q \in 1 .. Word : Pipe(o, y)[Span(o, c) + q] = <<"number", c.version, q>>
      BY <1>9, <2>2 DEF v, Behind
    <2>4. Span(o, c) \in Nat /\ Len(outs) \in Nat
      BY <2>1, SpanCounts, SeqMessages
    <2>5. Flow(o, c, Pipe(o, c), Span(o, c), outs, Len(outs), k)
      BY DEF Pair
    <2>6. Flow(o, y, Pipe(o, y), Span(o, c) + Word, outs, Len(outs), k)
      BY <1>0, <1>7, <1>8, <2>2, <2>3, <2>4, <2>5, FlowVersion
    <2> QED BY <2>2, <2>6
  <1>11. Flow(y, o, Pipe(y, o), Span(y, o), ins, Len(ins), m)
    <2>1. SameIn(x, y) /\ SameOut(o, o)
      BY <1>6, InputKept DEF SameOut
    <2>2. SameIn(c, y)
      BY <1>4, <2>1 DEF SameIn
    <2>3. Pipe(y, o) = Pipe(c, o) /\ Span(y, o) = Span(c, o)
      BY <2>1, <2>2, PipeSame
    <2>4. Flow(c, o, Pipe(c, o), Span(c, o), ins, Len(ins), m)
      BY DEF Pair
    <2>5. Flow(y, o, Pipe(c, o), Span(c, o), ins, Len(ins), m)
      BY <1>0, <1>7, <1>8, <2>4, Begun
    <2> QED BY <2>3, <2>5
  <1>12. /\ Fit(d) /\ SameInput(y, d) /\ SameNumbers(y, d) /\ SameOut(y, d)
         /\ d.msgtogo <= y.msgtogo /\ d.msgofs = 0
         /\ Flushed(y, d) \/ Stopped(y, d)
    <2>1. y.msgtogo <= Cheap /\ (y.instate = "ERROR" => y.eof)
      BY <1>0, <1>7
    <2> QED BY <1>3, <1>6, <2>1, Flush
  <1>13. \/ d.instate = "ERROR" /\ d.eof
         \/ d.instate = "NEED_PROTO" /\ (d.set_error_recursion \/ d.msgtogo = 0)
    <2>1. y.instate = "NEED_PROTO"
      BY <1>7
    <2>2. CASE Flushed(y, d)
      BY <2>1, <2>2, Zenon DEF Flushed
    <2>3. CASE Stopped(y, d)
      BY <2>1, <2>3, Zenon DEF Stopped
    <2> QED BY <1>12, <2>2, <2>3
  <1>14. d.instate = "ERROR" => ~Live(d)
    BY DEF Live, Stage0, Stage1, Talks
  <1>15. Pair(d, o, ins, m, outs, k)
    <2>1. SameIn(y, d)
      BY <1>12, InputKept
    <2>2. Steady(y, d)
      BY <1>7, <1>12, <1>13, <1>14 DEF Steady, SameNumbers
    <2>3. Quiet(y, d)
      BY <1>7, <1>12, <1>13, <1>14 DEF Quiet, SameNumbers
    <2>4. Pair(y, o, ins, m, outs, k)
      BY <1>10, <1>11 DEF Pair
    <2> QED BY <1>6, <1>12, <2>1, <2>2, <2>3, <2>4, PairKept
  <1>16. Unread(d) = 0
    BY <1>0, <1>2, <1>6, <1>12 DEF SameInput, Unread
  <1>17. Eager(d)
    BY <1>0, <1>13, <1>16 DEF Eager
  <1>18. Basic(d)
    <2>1. d.protocol = -1 /\ d.msgtogo <= Word
      BY <1>7, <1>12 DEF SameNumbers
    <2>2. d.protocol # 0 /\ d.protocol <= 0
      BY <2>1
    <2> QED BY <1>12, <1>13, <2>1, <2>2 DEF Basic
  <1> QED BY <1>15, <1>17, <1>18

\* The two parts of a sequence that is cut.
LEMMA Cut ==
    ASSUME NEW strm \in Seq(Byte), NEW j \in Nat, j <= Len(strm)
    PROVE  /\ SubSeq(strm, 1, j) \in Seq(Byte) /\ Len(SubSeq(strm, 1, j)) = j
           /\ \A i \in 1 .. j : SubSeq(strm, 1, j)[i] = strm[i]
           /\ SubSeq(strm, j + 1, Len(strm)) \in Seq(Byte) /\ Len(SubSeq(strm, j + 1, Len(strm))) = Len(strm) - j
           /\ \A i \in 1 .. Len(strm) - j : SubSeq(strm, j + 1, Len(strm))[i] = strm[j + i]
  OBVIOUS

\* A channel with more input, and one with another stream.
Filled(c, bytes) == [c EXCEPT !.inbuf = @ \o bytes]
Drained(o, rest) == [o EXCEPT !.stream = rest]

\* Some bytes go from the stream of o to the input of c.
LEMMA Moves ==
    ASSUME NEW c, NEW o, Basic(c), Basic(o), Eager(o), NEW ins \in Seq(MsgTypes),
           NEW outs \in Seq(MsgTypes), NEW m \in Nat, NEW k \in Nat,
           Pair(c, o, ins, m, outs, k), c.instate # "none",
           NEW j \in 1 .. Len(o.stream),
           NEW d, d = Filled(c, SubSeq(o.stream, 1, j)),
           NEW p, p = Drained(o, SubSeq(o.stream, j + 1, Len(o.stream)))
    PROVE  /\ Basic(d) /\ Basic(p) /\ Eager(p) /\ d.instate = c.instate
           /\ Pair(d, p, ins, m, outs, k)
  <1> DEFINE strm == o.stream
             lth == Len(strm)
             f == SubSeq(strm, 1, j)
             b == SubSeq(strm, j + 1, lth)
  <1>0. /\ Fit(c) /\ Fit(o) /\ c \in Channel /\ o \in Channel /\ strm \in Seq(Byte) /\ lth \in Nat
        /\ c.inbuf \in Seq(Byte) /\ Len(c.inbuf) \in Nat /\ c.intogo \in Nat /\ c.intogo <= Len(c.inbuf)
        /\ j \in Nat /\ j <= lth /\ o.msgtogo \in Nat
    <2>1. Fit(c) /\ Fit(o) /\ c \in Channel /\ o \in Channel /\ c.intogo <= Len(c.inbuf)
      BY DEF Basic, Fit
    <2> QED BY <2>1, ChannelTypes
  <1>1. f \in Seq(Byte) /\ Len(f) = j /\ \A i \in 1 .. j : f[i] = strm[i]
    <2> HIDE DEF strm
    <2> QED BY <1>0, Cut DEF lth
  <1>2. b \in Seq(Byte) /\ Len(b) = lth - j /\ \A i \in 1 .. lth - j : b[i] = strm[j + i]
    <2> HIDE DEF strm
    <2> QED BY <1>0, Cut DEF lth
  <1>3. d = [c EXCEPT !.inbuf = c.inbuf \o f] /\ p = [o EXCEPT !.stream = b]
    BY DEF Filled, Drained
  <1> DEFINE buf == c.inbuf \o f
  <1>4. /\ buf \in Seq(Byte) /\ Len(buf) = Len(c.inbuf) + j
        /\ \A i \in 1 .. Len(c.inbuf) : buf[i] = c.inbuf[i]
        /\ \A i \in 1 .. j : buf[Len(c.inbuf) + i] = f[i]
    <2> HIDE DEF f
    <2>1. c.inbuf \in Seq(Byte) /\ f \in Seq(Byte) /\ Len(f) = j
      BY <1>0, <1>1
    <2> QED BY <2>1, Joined
  <1>5. d = [c EXCEPT !.inbuf = buf]
    BY <1>3
  <1> HIDE DEF f, b, strm, lth, buf
  <1>6. d \in Channel /\ p \in Channel
    <2>1. d \in Channel
      BY <1>0, <1>4, <1>5 DEF Channel
    <2>2. p \in Channel
      BY <1>0, <1>2, <1>3 DEF Channel
    <2> QED BY <2>1, <2>2
  <1>7. d.inbuf = buf /\ d.intogo = c.intogo /\ SameMind(c, d) /\ SameEnd(c, d) /\ SameOutput(c, d)
    BY <1>0, <1>5 DEF Channel, SameMind, SameNumbers, SameEnd, SameOutput
  <1>8. /\ p.stream = b /\ p.msgbuf = o.msgbuf /\ p.msgofs = o.msgofs /\ p.msgtogo = o.msgtogo
        /\ SameMind(o, p) /\ SameEnd(o, p) /\ SameInput(o, p)
    BY <1>0, <1>3 DEF Channel, SameMind, SameNumbers, SameEnd, SameInput
  <1>9. Fit(d) /\ Fit(p)
    <2>1. Fit(d)
      <3>1. c.intogo <= Len(buf)
        <4>1. c.intogo \in Nat /\ Len(c.inbuf) \in Nat /\ j \in Nat /\ c.intogo <= Len(c.inbuf)
          BY <1>0
        <4>2. Len(buf) = Len(c.inbuf) + j
          BY <1>4
        <4> QED BY <4>1, <4>2
      <3> QED BY <1>0, <1>6, <1>7, <3>1 DEF Fit, SameOutput
    <2>2. Fit(p)
      BY <1>0, <1>6, <1>8 DEF Fit, SameInput
    <2> QED BY <2>1, <2>2
  <1>10. /\ Unread(d) = Unread(c) + j /\ With(Rest(c), Unread(c), Rest(d))
         /\ \A i \in 1 .. j : Rest(d)[Unread(c) + i] = strm[i]
    <2> DEFINE I == Len(c.inbuf)
               t == c.intogo
               u == I - t
    <2>1. I \in Nat /\ t \in Nat /\ t <= I /\ u \in Nat /\ Unread(c) = u /\ Unread(d) = u + j /\ j \in Nat
      <3>1. Unread(c) = I - t /\ Unread(d) = Len(buf) - t /\ Len(buf) = I + j
        BY <1>4, <1>7 DEF Unread
      <3>2. I \in Nat /\ t \in Nat /\ t <= I /\ j \in Nat
        BY <1>0
      <3> HIDE DEF I, t
      <3> QED BY <3>1, <3>2
    <2>2. /\ \A i \in 1 .. u : Rest(c)[i] = c.inbuf[t + i]
          /\ \A i \in 1 .. u + j : Rest(d)[i] = buf[t + i]
      <3>1. Unread(c) = u /\ Unread(d) = u + j /\ u \in Nat /\ u + j \in Nat /\ t \in Nat /\ d.intogo = t
        BY <1>7, <2>1
      <3> HIDE DEF u, t
      <3>2. \A i \in 1 .. u : Rest(c)[i] = c.inbuf[c.intogo + i]
        BY <3>1 DEF Rest
      <3>3. \A i \in 1 .. u + j : Rest(d)[i] = d.inbuf[d.intogo + i]
        BY <3>1 DEF Rest
      <3> QED BY <1>7, <3>1, <3>2, <3>3 DEF t
    <2>20. u = I - t
      OBVIOUS
    <2> HIDE DEF u, I, t
    <2>3. \A i \in 1 .. u : Rest(d)[i] = Rest(c)[i]
      <3> SUFFICES ASSUME NEW i \in 1 .. u PROVE Rest(d)[i] = Rest(c)[i]
        OBVIOUS
      <3>1. i \in 1 .. u + j /\ t + i \in 1 .. I
        BY <2>1, <2>20
      <3>2. Rest(d)[i] = buf[t + i] /\ Rest(c)[i] = c.inbuf[t + i]
        BY <2>2, <3>1
      <3>3. buf[t + i] = c.inbuf[t + i]
        BY <1>4, <3>1 DEF I
      <3> QED BY <3>2, <3>3
    <2>4. \A i \in 1 .. j : Rest(d)[u + i] = strm[i]
      <3> SUFFICES ASSUME NEW i \in 1 .. j PROVE Rest(d)[u + i] = strm[i]
        OBVIOUS
      <3>1. u + i \in 1 .. u + j /\ t + (u + i) = I + i
        BY <2>1, <2>20
      <3>2. Rest(d)[u + i] = buf[t + (u + i)]
        BY <2>2, <3>1
      <3>3. buf[I + i] = strm[i]
        BY <1>1, <1>4 DEF I
      <3> QED BY <3>1, <3>2, <3>3
    <2> QED BY <2>1, <2>3, <2>4 DEF With
  <1>11. /\ Held(o) = Held(p) + j /\ Without(Out(o), j, Out(p), Held(p))
         /\ \A i \in 1 .. j : Out(o)[i] = strm[i]
    <2> DEFINE g == o.msgtogo
               h == lth - j
               mb == o.msgbuf
               mo == o.msgofs
    <2>1. g \in Nat /\ h \in Nat /\ lth \in Nat /\ j \in Nat /\ h + j = lth
      BY <1>0
    <2>2. Held(o) = lth + g /\ Len(p.stream) = h /\ Held(p) = h + g /\ mo \in Nat
      BY <1>0, <1>2, <1>8, ChannelTypes DEF Held, strm, lth
    <2>3. Out(o) = [i \in 1 .. lth + g |-> IF i <= lth THEN strm[i] ELSE mb[mo + (i - lth)]]
      BY <2>2 DEF Out, strm, lth
    <2>4. \A i \in 1 .. h + g : Out(p)[i] = IF i <= h THEN b[i] ELSE mb[mo + (i - h)]
      <3>1. p.stream = b /\ p.msgbuf = mb /\ p.msgofs = mo /\ Len(p.stream) = h /\ Held(p) = h + g
            /\ h \in Nat /\ g \in Nat /\ mo \in Nat
        BY <1>8, <2>1, <2>2
      <3> HIDE DEF g, h, mb, mo
      <3>2. \A i \in 1 .. Held(p) : Out(p)[i] = IF i <= Len(p.stream) THEN p.stream[i]
                                                ELSE p.msgbuf[p.msgofs + (i - Len(p.stream))]
        BY <3>1 DEF Out
      <3> QED BY <3>1, <3>2
    <2> HIDE DEF g, h, mb, mo
    <2>5. Held(o) = Held(p) + j
      <3>1. lth + g = (h + g) + j
        BY <2>1
      <3>2. Held(o) = lth + g /\ Held(p) = h + g
        BY <2>2
      <3> QED BY <3>1, <3>2
    <2>6. \A i \in 1 .. h + g : Out(p)[i] = Out(o)[j + i]
      <3> SUFFICES ASSUME NEW i \in 1 .. h + g PROVE Out(p)[i] = Out(o)[j + i]
        OBVIOUS
      <3>1. j + i \in 1 .. lth + g
        BY <2>1
      <3>2. CASE i <= h
        <4>1. j + i <= lth /\ i \in 1 .. h
          BY <2>1, <3>2
        <4>2. Out(p)[i] = b[i] /\ Out(o)[j + i] = strm[j + i]
          BY <2>3, <2>4, <3>1, <3>2, <4>1
        <4>3. b[i] = strm[j + i]
          BY <1>2, <4>1 DEF h
        <4> QED BY <4>2, <4>3
      <3>3. CASE ~(i <= h)
        <4>1. ~(j + i <= lth) /\ (j + i) - lth = i - h
          BY <2>1, <3>3
        <4>2. Out(p)[i] = mb[mo + (i - h)] /\ Out(o)[j + i] = mb[mo + ((j + i) - lth)]
          BY <2>3, <2>4, <3>1, <3>3, <4>1
        <4> QED BY <4>1, <4>2
      <3> QED BY <3>2, <3>3
    <2>7. \A i \in 1 .. j : Out(o)[i] = strm[i]
      <3> SUFFICES ASSUME NEW i \in 1 .. j PROVE Out(o)[i] = strm[i]
        OBVIOUS
      <3>1. i \in 1 .. lth + g /\ i <= lth
        BY <2>1
      <3> QED BY <2>3, <3>1
    <2> QED BY <2>2, <2>5, <2>6, <2>7 DEF Without
  <1>12. Pair(d, p, ins, m, outs, k)
    <2>1. Span(d, p) = Span(c, o) /\ Pipe(d, p) = Pipe(c, o)
      <3>1. Takes(Rest(d), Unread(c), Out(o), j)
        BY <1>10, <1>11 DEF Takes
      <3>2. Fit(c) /\ Fit(o) /\ j \in Nat
        BY <1>0
      <3>3. Fit(d) /\ Fit(p) /\ Unread(d) = Unread(c) + j /\ Held(o) = Held(p) + j
        BY <1>9, <1>10, <1>11
      <3>4. With(Rest(c), Unread(c), Rest(d)) /\ Without(Out(o), j, Out(p), Held(p))
        BY <1>10, <1>11
      <3>5. Moved(c, o, d, p, j)
        BY <3>1, <3>3, <3>4 DEF Moved
      <3> QED BY <3>2, <3>3, <3>5, PipeMoved
    <2>2. Span(p, d) = Span(o, c) /\ Pipe(p, d) = Pipe(o, c)
      <3>1. SameIn(o, p) /\ SameOut(c, d)
        BY <1>7, <1>8, InputKept, OutputKept
      <3> QED BY <3>1, PipeSame
    <2>3. c.msgtogo \in Nat /\ d.msgtogo = c.msgtogo /\ o.msgtogo \in Nat /\ p.msgtogo = o.msgtogo
      BY <1>0, <1>7, <1>8, FitCounts DEF SameOutput
    <2>4. Steady(c, d) /\ Steady(o, p) /\ Quiet(c, d) /\ Quiet(o, p)
      <3>1. SameMind(c, d) /\ SameMind(o, p) /\ d.msgtogo <= c.msgtogo /\ p.msgtogo <= o.msgtogo
        BY <1>7, <1>8, <2>3
      <3> QED BY <3>1 DEF Steady, Quiet, SameMind, SameNumbers
    <2>5. Span(c, o) \in Nat /\ Span(o, c) \in Nat /\ Len(ins) \in Nat /\ Len(outs) \in Nat
      BY <1>0, SpanCounts, SeqMessages
    <2>6. /\ Flow(c, o, Pipe(c, o), Span(c, o), ins, Len(ins), m)
          /\ Flow(o, c, Pipe(o, c), Span(o, c), outs, Len(outs), k)
      BY DEF Pair
    <2>7. Flow(d, p, Pipe(c, o), Span(c, o), ins, Len(ins), m)
      BY <2>3, <2>4, <2>5, <2>6, FlowKept
    <2>8. Flow(p, d, Pipe(o, c), Span(o, c), outs, Len(outs), k)
      BY <2>3, <2>4, <2>5, <2>6, FlowKept
    <2> QED BY <2>1, <2>2, <2>7, <2>8 DEF Pair
  <1>13. Basic(d)
    <2>1. Unread(c) \in Nat /\ c.inmsglen \in Int /\ d.inmsglen = c.inmsglen /\ Unread(d) = Unread(c) + j
      BY <1>0, <1>7, <1>10, FitCounts, ChannelTypes DEF SameMind, SameNumbers
    <2>2. c.inmsglen <= Unread(c) => d.inmsglen <= Unread(d)
      BY <1>0, <2>1
    <2> QED BY <1>7, <1>9, <2>2 DEF Basic, SameMind, SameNumbers, SameEnd, SameOutput, Stage0
  <1>14. Basic(p) /\ Eager(p)
    <2>1. SameIn(o, p)
      BY <1>8, InputKept
    <2>2. Basic(p)
      BY <1>8, <1>9, <2>1 DEF Basic, SameMind, SameNumbers, SameEnd, SameIn, Stage0
    <2>3. Eager(p)
      BY <1>8, <2>1 DEF Eager, SameMind, SameNumbers, SameEnd, SameIn
    <2> QED BY <2>2, <2>3
  <1> QED BY <1>7, <1>12, <1>13, <1>14 DEF SameMind

\* A complete message is the next one, as long as this end's protocol makes it.
LEMMA NextMessage ==
    ASSUME NEW c, NEW o, Basic(c), Fit(o), NEW ins \in Seq(MsgTypes), NEW m \in Nat,
           Flow(c, o, Pipe(c, o), Span(c, o), ins, Len(ins), m), c.instate = "HAS_MSG"
    PROVE  /\ m < Len(ins) /\ ins[m + 1] \in MsgTypes
           /\ ByteAt(c.inbuf, c.intogo + 1) = <<"body", ins[m + 1], 1>>
           /\ c.inmsglen = Size(c.protocol, ins[m + 1]) /\ c.inmsglen <= Unread(c)
           /\ c.inmsglen \in Nat \ {0}
  <1> DEFINE N == Len(ins)
             t == ins[m + 1]
  <1>1. N \in Nat /\ Messages(ins, N)
    BY SeqMessages
  <1>2. /\ Fit(c) /\ c.inmsglen <= Unread(c) /\ Unread(c) \in Nat /\ c.intogo \in Nat
        /\ Len(c.inbuf) \in Nat
    BY FitCounts, ChannelTypes DEF Basic, Fit
  <1>3. Span(c, o) \in Nat
    BY <1>2, SpanCounts
  <1>4. Flow(c, o, Pipe(c, o), Span(c, o), ins, N, m)
    OBVIOUS
  <1> HIDE DEF N
  <1>5. /\ m < N /\ c.inmsglen = Size(Agreed(c, o), t)
        /\ Span(c, o) >= 1 => Pipe(c, o)[1] = <<"body", t, 1>>
    <2> DEFINE n == Span(c, o)
               pipe == Pipe(c, o)
    <2>1. n \in Nat /\ Flow(c, o, pipe, n, ins, N, m)
      BY <1>3, <1>4
    <2> HIDE DEF n, pipe
    <2>2. m < N /\ c.inmsglen = Size(Agreed(c, o), ins[m + 1])
      <3>1. PICK pos : Placed(pos, c, o, pipe, n, ins, N, m)
        BY <2>1, FlowPlaced DEF Live, Talks
      <3> QED BY <3>1 DEF Placed, Receiver
    <2>3. Begins(pipe, n, ins[m + 1])
      BY <1>1, <2>1, MessageThere
    <2> QED BY <2>2, <2>3 DEF n, pipe, Begins
  <1>6. t \in MsgTypes
    <2>1. m + 1 \in 1 .. N
      BY <1>1, <1>5
    <2> QED BY <1>1, <2>1 DEF Messages
  <1>7. c.protocol = Agreed(c, o)
    <2>1. Talks(c) /\ Live(c)
      BY DEF Talks, Live
    <2>2. Versioned(c, o)
      BY <1>4, <2>1, FlowPlaced
    <2> QED BY <2>1, <2>2 DEF Versioned
  <1> HIDE DEF t
  <1>8. c.inmsglen \in Nat \ {0}
    BY <1>5, <1>6, Sizes
  <1>9. Unread(c) >= 1
    BY <1>2, <1>8
  <1>10. /\ Span(c, o) \in Nat /\ Unread(c) <= Span(c, o)
         /\ \A i \in 1 .. Unread(c) : Pipe(c, o)[i] = Rest(c)[i]
    BY <1>2, PipeFront
  <1>11. Rest(c)[1] = <<"body", t, 1>>
    <2>1. Span(c, o) >= 1 /\ 1 \in 1 .. Unread(c)
      BY <1>2, <1>9, <1>10
    <2> QED BY <1>5, <1>10, <2>1
  <1>12. ByteAt(c.inbuf, c.intogo + 1) = Rest(c)[1]
    <2>1. 1 \in 1 .. Unread(c) /\ c.intogo + 1 \in 1 .. Len(c.inbuf)
      BY <1>2, <1>9 DEF Unread
    <2>2. Rest(c)[1] = c.inbuf[c.intogo + 1]
      BY <1>2, <2>1 DEF Rest
    <2> QED BY <2>1, <2>2 DEF ByteAt
  <1> QED BY <1>2, <1>5, <1>6, <1>7, <1>8, <1>11, <1>12 DEF N, t

\* What get_msg reads is all of the message.
LEMMA ReadsAll ==
    ASSUME NEW c, NEW t \in MsgTypes, NEW first, first = <<"body", t, 1>>, Basic(c),
           c.inmsglen = Size(c.protocol, t), c.inmsglen <= Unread(c)
    PROVE  MinOf(1 + Len(Reads(c.protocol)[first[2]]), Unread(c)) = c.inmsglen
  <1>1. Unread(c) \in Nat /\ c.inmsglen \in Nat
    BY FitCounts, Sizes DEF Basic
  <1>2. first[2] = t /\ Reads(c.protocol) = Writes(c.protocol)
    BY WireSame
  <1>3. 1 + Len(Reads(c.protocol)[first[2]]) = c.inmsglen
    BY <1>2 DEF Size
  <1> QED BY <1>1, <1>3 DEF MinOf

\* get_msg consumes one message and looks for the next.
LEMMA ReceiveStep ==
    ASSUME NEW c, NEW o, NEW d, Basic(c), Fit(o), NEW ins \in Seq(MsgTypes),
           NEW outs \in Seq(MsgTypes), NEW m \in Nat, NEW k \in Nat,
           Pair(c, o, ins, m, outs, k), c.instate = "HAS_MSG",
           d = ReadLength([c EXCEPT !.intogo = @ + c.inmsglen, !.instate = "NEED_LEN"])
    PROVE  Basic(d) /\ Eager(d) /\ Pair(d, o, ins, m + 1, outs, k)
  <1> DEFINE N == Len(ins)
             z == c.inmsglen
             ofs == c.intogo + z
             b == [c EXCEPT !.intogo = ofs, !.instate = "NEED_LEN"]
  <1>1. Flow(c, o, Pipe(c, o), Span(c, o), ins, N, m)
    BY DEF Pair
  <1>2. z \in Nat /\ z <= Unread(c)
    BY <1>1, NextMessage
  <1>3. N \in Nat /\ Messages(ins, N) /\ Fit(c) /\ c \in Channel /\ c.intogo \in Nat /\ Unread(c) \in Nat
    BY SeqMessages, FitCounts, ChannelTypes DEF Basic, Fit
  <1>4. d = ReadLength(b)
    BY <1>3 DEF Channel
  <1>5. b \in Channel
    <2>1. c \in Channel /\ ofs \in Nat
      BY <1>2, <1>3
    <2> HIDE DEF ofs
    <2> QED BY <2>1 DEF Channel, InStates
  <1>6. /\ b.inbuf = c.inbuf /\ b.intogo = ofs /\ b.instate = "NEED_LEN" /\ SameNumbers(c, b)
        /\ SameOutput(c, b) /\ SameEnd(c, b)
    BY <1>3 DEF Channel, SameNumbers, SameOutput, SameEnd
  <1> HIDE DEF b, N
  <1>7. Fit(b) /\ Unread(c) = Unread(b) + z /\ Without(Rest(c), z, Rest(b), Unread(b))
    BY <1>2, <1>3, <1>5, <1>6, Consume
  <1>8. /\ Span(c, o) = Span(b, o) + z
        /\ Without(Pipe(c, o), z, Pipe(b, o), Span(b, o))
    BY <1>2, <1>3, <1>7, PipeConsumed
  <1>9. Flow(b, o, Pipe(b, o), Span(b, o), ins, N, m + 1)
    <2>1. Span(b, o) \in Nat /\ o.msgtogo \in Nat
      BY <1>7, SpanCounts, FitCounts
    <2>2. Flow(c, o, Pipe(c, o), Span(b, o) + z, ins, N, m)
      BY <1>1, <1>8
    <2> QED BY <1>2, <1>3, <1>6, <1>8, <2>1, <2>2, MessageRead DEF SameNumbers
  <1>10. Flow(o, b, Pipe(o, b), Span(o, b), outs, Len(outs), k)
    <2>1. SameOut(c, b)
      BY <1>6, OutputKept
    <2>2. c.msgtogo \in Nat /\ b.msgtogo = c.msgtogo
      BY <1>3, <1>6, FitCounts DEF SameOutput
    <2>3. Quiet(c, b)
      BY <1>6, <2>2 DEF Quiet, Talks, SameNumbers
    <2> QED BY <1>3, <1>7, <2>1, <2>3, OtherKept
  <1>11. Basic(b)
    BY <1>6, <1>7 DEF Basic, Stage0, SameOutput, SameEnd, SameNumbers
  <1>12. Pair(b, o, ins, m + 1, outs, k)
    BY <1>9, <1>10 DEF Pair, N
  <1>13. Talks(b) /\ m + 1 \in Nat
    BY <1>6 DEF Talks
  <1> QED BY <1>4, <1>11, <1>12, <1>13, ReadLengthStep

\* A longer sequence of messages.
LEMMA Appended ==
    ASSUME NEW msgs \in Seq(MsgTypes), NEW t \in MsgTypes
    PROVE  /\ Append(msgs, t) \in Seq(MsgTypes) /\ Len(Append(msgs, t)) = Len(msgs) + 1
           /\ With(msgs, Len(msgs), Append(msgs, t)) /\ Append(msgs, t)[Len(msgs) + 1] = t
  BY DEF With

Framed(bytes, size, t) ==
    /\ bytes \in Seq(Byte) /\ Len(bytes) = Word + size /\ size \in Nat /\ Word + size \in Nat
    /\ \A q \in 1 .. Word : bytes[q] = <<"number", size, q>>
    /\ \A q \in 1 .. size : bytes[Word + q] = <<"body", t, q>>

\* A message is its length and its body.
LEMMA Frame ==
    ASSUME NEW p, NEW t \in MsgTypes, NEW size, size = Size(p, t),
           NEW bytes, bytes = Number(Len(Body(t, p))) \o Body(t, p)
    PROVE  Framed(bytes, size, t)
  <1> DEFINE f == Number(Len(Body(t, p)))
             b == Body(t, p)
  <1>0. Word \in Nat /\ size \in Nat
    BY SizeAssumption, Sizes
  <1>1. b \in Seq(Byte) /\ Len(b) = size /\ \A q \in 1 .. size : b[q] = <<"body", t, q>>
    BY BodySeq
  <1> HIDE DEF b
  <1>2. f \in Seq(Byte) /\ Len(f) = Word /\ \A q \in 1 .. Word : f[q] = <<"number", size, q>>
    <2>1. f = Number(size) /\ size \in Int
      BY <1>0, <1>1 DEF b
    <2> HIDE DEF f
    <2> QED BY <2>1, NumberSeq
  <1>3. bytes = f \o b
    BY DEF b
  <1> HIDE DEF f
  <1>4. /\ bytes \in Seq(Byte) /\ Len(bytes) = Word + size
        /\ \A i \in 1 .. Word : bytes[i] = f[i]
        /\ \A i \in 1 .. size : bytes[Word + i] = b[i]
    <2>1. f \in Seq(Byte) /\ b \in Seq(Byte) /\ Len(f) = Word /\ Len(b) = size
      BY <1>1, <1>2
    <2>2. /\ f \o b \in Seq(Byte) /\ Len(f \o b) = Len(f) + Len(b)
          /\ \A i \in 1 .. Len(f) : (f \o b)[i] = f[i]
          /\ \A i \in 1 .. Len(b) : (f \o b)[Len(f) + i] = b[i]
      BY <2>1, Joined
    <2> QED BY <1>3, <2>1, <2>2
  <1>5. \A q \in 1 .. Word : bytes[q] = <<"number", size, q>>
    BY <1>2, <1>4
  <1>6. \A q \in 1 .. size : bytes[Word + q] = <<"body", t, q>>
    BY <1>1, <1>4
  <1>7. Word + size \in Nat
    BY <1>0
  <1> QED BY <1>0, <1>4, <1>5, <1>6, <1>7 DEF Framed

\* send_msg puts a message behind all that is on its way.
LEMMA SendStep ==
    ASSUME NEW c, NEW o, NEW d, NEW y, Basic(c), Eager(c), Fit(o), NEW ins \in Seq(MsgTypes),
           NEW outs \in Seq(MsgTypes), NEW m \in Nat, NEW k \in Nat,
           Pair(c, o, ins, m, outs, k), Talks(c), ~c.set_error_recursion, NEW t \in MsgTypes,
           y = writefull(chop_output(c), Number(Len(Body(t, c.protocol))) \o Body(t, c.protocol)),
           d = y \/ \E n \in Nat : d = flush_writebuf(y, n)
    PROVE  Basic(d) /\ Eager(d) /\ Pair(d, o, ins, m, Append(outs, t), k)
  <1> DEFINE x == chop_output(c)
             bytes == Number(Len(Body(t, c.protocol))) \o Body(t, c.protocol)
             size == Size(c.protocol, t)
             N == Len(outs)
             longer == Append(outs, t)
             z == Word + size
  <1>0. /\ Word \in Nat \ {0} /\ Fit(c) /\ c.msgtogo \in Nat /\ c.msgofs = 0 /\ c.instate # "ERROR"
        /\ Unread(c) \in Nat /\ c.inmsglen \in Int
    BY SizeAssumption, FitCounts, ChannelTypes DEF Basic, Talks, Fit
  <1>1. /\ bytes \in Seq(Byte) /\ Len(bytes) = z /\ size \in Nat /\ z \in Nat
        /\ \A q \in 1 .. Word : bytes[q] = <<"number", size, q>>
        /\ \A q \in 1 .. size : bytes[Word + q] = <<"body", t, q>>
    <2>1. size = Size(c.protocol, t) /\ z = Word + size
          /\ bytes = Number(Len(Body(t, c.protocol))) \o Body(t, c.protocol)
      OBVIOUS
    <2> HIDE DEF size, bytes, z
    <2>2. Framed(bytes, size, t)
      BY <2>1, Frame
    <2> QED BY <2>1, <2>2 DEF Framed
  <1>2. /\ Fit(x) /\ SameInput(c, x) /\ SameMind(c, x) /\ SameEnd(c, x) /\ SameOut(c, x)
        /\ x.msgtogo = c.msgtogo /\ x.msgofs = 0
    BY <1>0, ChopOutput
  <1>3. y = writefull(x, bytes)
    OBVIOUS
  <1> HIDE DEF x, bytes
  <1>4. /\ Fit(y) /\ SameInput(x, y) /\ SameMind(x, y) /\ SameEnd(x, y)
        /\ y.msgofs = 0 /\ y.msgtogo = x.msgtogo + Len(bytes)
        /\ Held(y) = Held(x) + Len(bytes) /\ With(Out(x), Held(x), Out(y))
        /\ \A j \in 1 .. Len(bytes) : Out(y)[Held(x) + j] = bytes[j]
    <2>1. bytes \in Seq(Byte)
      BY <1>1
    <2>2. Written(x, y, bytes)
      BY <1>2, <1>3, <2>1, WriteFull
    <2> QED BY <2>2 DEF Written
  <1> HIDE DEF z, size
  <1>5. /\ SameInput(c, y) /\ SameMind(c, y) /\ SameEnd(c, y) /\ y.msgtogo = c.msgtogo + z
    BY <1>1, <1>2, <1>4 DEF SameInput, SameMind, SameNumbers, SameEnd
  <1>6. /\ Held(y) = Held(c) + z /\ With(Out(c), Held(c), Out(y))
        /\ \A j \in 1 .. z : Out(y)[Held(c) + j] = bytes[j]
    BY <1>1, <1>2, <1>4 DEF SameOut
  <1>7. /\ Fit(d) /\ SameInput(y, d) /\ SameNumbers(y, d) /\ SameOut(y, d) /\ d.msgtogo <= y.msgtogo
        /\ \/ d.instate = y.instate /\ SameEnd(y, d) /\ d.msgofs = 0
           \/ Stopped(y, d)
    <2>1. CASE d = y
      <3>1. y.msgtogo \in Nat
        BY <1>4, FitCounts
      <3> QED BY <1>4, <2>1, <3>1 DEF SameInput, SameNumbers, SameOut, SameEnd
    <2>2. CASE \E n \in Nat : d = flush_writebuf(y, n)
      <3>1. PICK n \in Nat : d = flush_writebuf(y, n)
        BY <2>2
      <3>2. y.instate = "ERROR" => y.eof
        BY <1>0, <1>5 DEF SameMind
      <3>3. /\ Fit(d) /\ SameInput(y, d) /\ SameNumbers(y, d) /\ SameOut(y, d)
            /\ d.msgtogo <= y.msgtogo /\ (Flushed(y, d) \/ Stopped(y, d))
        BY <1>4, <3>1, <3>2, Flush
      <3> QED BY <3>3 DEF Flushed
    <2> QED BY <2>1, <2>2
  <1>8. /\ (d.instate = "ERROR" /\ d.eof) \/ d.instate = c.instate
        /\ d.instate = "ERROR" \/ d.set_error_recursion \/ d.msgofs = 0
    <2>1. CASE d.instate = y.instate /\ SameEnd(y, d) /\ d.msgofs = 0
      BY <1>5, <2>1 DEF SameMind
    <2>2. CASE Stopped(y, d)
      BY <1>5, <2>2 DEF SameMind, Stopped
    <2> QED BY <1>7, <2>1, <2>2
  <1>9. d.instate = "ERROR" => ~Live(d)
    BY DEF Live, Stage0, Stage1, Talks
  <1>10. SameIn(c, d) /\ SameNumbers(c, d)
    <2>1. SameInput(c, d) /\ SameNumbers(c, d)
      BY <1>5, <1>7 DEF SameInput, SameMind, SameNumbers
    <2> QED BY <2>1, InputKept
  <1>11. Flow(d, o, Pipe(d, o), Span(d, o), ins, Len(ins), m)
    <2>1. SameOut(o, o) /\ Quiet(o, o) /\ o.msgtogo \in Nat
      BY FitCounts DEF SameOut, Quiet
    <2>2. Pipe(d, o) = Pipe(c, o) /\ Span(d, o) = Span(c, o)
      BY <1>10, <2>1, PipeSame
    <2>3. Steady(c, d)
      BY <1>8, <1>9, <1>10 DEF Steady, SameNumbers
    <2>4. Span(c, o) \in Nat /\ Len(ins) \in Nat
      BY <1>0, SpanCounts, SeqMessages
    <2>5. Flow(c, o, Pipe(c, o), Span(c, o), ins, Len(ins), m)
      BY DEF Pair
    <2>6. Flow(d, o, Pipe(c, o), Span(c, o), ins, Len(ins), m)
      BY <2>1, <2>3, <2>4, <2>5, FlowKept
    <2> QED BY <2>2, <2>6
  <1>12. Flow(o, d, Pipe(o, d), Span(o, d), longer, N + 1, k)
    <2>1. Held(d) = Held(y) /\ Out(d) = Out(y)
      BY <1>7 DEF SameOut
    <2>2. /\ Held(d) = Held(c) + z /\ With(Out(c), Held(c), Out(d))
          /\ \A j \in 1 .. z : Out(d)[Held(c) + j] = bytes[j]
      BY <1>6, <2>1
    <2>3. /\ Span(o, d) = Span(o, c) + z
          /\ With(Pipe(o, c), Span(o, c), Pipe(o, d))
          /\ Behind(Pipe(o, d), Span(o, c), Out(d), Held(c), z)
      <3>1. Fit(o) /\ Fit(c) /\ Fit(d) /\ z \in Nat
        BY <1>0, <1>1, <1>7
      <3>2. Held(d) = Held(c) + z /\ With(Out(c), Held(c), Out(d)) /\ Held(c) \in Nat /\ Held(d) \in Nat
        BY <2>2, <3>1, FitCounts
      <3> QED BY <3>1, <3>2, PipeLonger
    <2> DEFINE n == Span(o, c)
               long == Pipe(o, d)
    <2>4. n \in Nat /\ N \in Nat /\ Messages(outs, N)
      BY <1>0, SpanCounts, SeqMessages
    <2>5. \A j \in 1 .. z : long[n + j] = bytes[j]
      BY <2>2, <2>3 DEF Behind
    <2> HIDE DEF n, long
    <2>6. \A q \in 1 .. Word : long[n + q] = <<"number", size, q>>
      <3> SUFFICES ASSUME NEW q \in 1 .. Word PROVE long[n + q] = <<"number", size, q>>
        OBVIOUS
      <3>1. q \in 1 .. z
        BY <1>0, <1>1 DEF z
      <3> QED BY <1>1, <2>5, <3>1
    <2>7. \A q \in 1 .. size : long[n + Word + q] = <<"body", t, q>>
      <3> SUFFICES ASSUME NEW q \in 1 .. size PROVE long[n + Word + q] = <<"body", t, q>>
        OBVIOUS
      <3>1. Word + q \in 1 .. z /\ n + (Word + q) = n + Word + q
        BY <1>0, <1>1, <2>4 DEF z
      <3>2. long[n + (Word + q)] = bytes[Word + q]
        BY <2>5, <3>1
      <3> QED BY <1>1, <3>1, <3>2
    <2>8. size = Size(Agreed(o, c), t)
      <3>1. Live(c)
        BY DEF Live
      <3>2. Flow(c, o, Pipe(c, o), Span(c, o), ins, Len(ins), m)
        BY DEF Pair
      <3>3. Versioned(c, o)
        BY <3>1, <3>2, FlowPlaced
      <3>4. c.protocol = Agreed(c, o) /\ Agreed(c, o) = Agreed(o, c)
        BY <1>0, <3>3, AgreedSame DEF Versioned
      <3> QED BY <3>4 DEF size
    <2>9. /\ longer \in Seq(MsgTypes) /\ Len(longer) = N + 1
          /\ With(outs, N, longer) /\ longer[N + 1] = t
      BY Appended
    <2> HIDE DEF longer, N
    <2>10. /\ d.version = c.version /\ d.msgtogo \in Nat
           /\ ~Live(d) \/ (Talks(d) /\ d.msgtogo <= c.msgtogo + (Word + size))
      <3>1. d.version = c.version /\ d.msgtogo \in Nat /\ d.msgtogo <= c.msgtogo + (Word + size)
        BY <1>5, <1>7, <1>10, FitCounts DEF SameNumbers, z
      <3>2. ~Live(d) \/ Talks(d)
        BY <1>8, <1>9 DEF Talks
      <3> QED BY <3>1, <3>2
    <2>11. Flow(o, c, Pipe(o, c), n, outs, N, k)
      BY DEF Pair, n, N
    <2>12. With(Pipe(o, c), n, long) /\ longer[N + 1] \in MsgTypes /\ size = Size(Agreed(o, c), longer[N + 1])
      BY <2>3, <2>8, <2>9 DEF n, long
    <2>13. Carries(long, n, size, longer[N + 1])
      BY <2>6, <2>7, <2>9 DEF Carries
    <2>14. Flow(o, d, long, n + (Word + size), longer, N + 1, k)
      BY <1>0, <2>4, <2>9, <2>10, <2>11, <2>12, <2>13, FlowSend
    <2>15. Span(o, d) = n + (Word + size)
      BY <2>3 DEF n, z
    <2> QED BY <2>14, <2>15 DEF long
  <1>13. Pair(d, o, ins, m, longer, k)
    <2>1. Len(longer) = N + 1
      BY Appended
    <2> HIDE DEF longer, N
    <2> QED BY <1>11, <1>12, <2>1 DEF Pair
  <1>14. Basic(d)
    <2>1. CASE d.instate = "ERROR"
      <3>1. d.instate # c.instate
        BY <1>0, <2>1
      <3>2. d.eof
        BY <1>8, <3>1, Zenon
      <3>3. ~Stage0(d) /\ Fit(d)
        BY <1>7, <1>9, <2>1 DEF Live
      <3> QED BY <2>1, <3>2, <3>3 DEF Basic
    <2>2. CASE d.instate # "ERROR"
      <3>1. d.instate = c.instate /\ ~Stage0(d) /\ d.instate \notin {"none", "NEED_PROTO"}
        BY <1>8, <2>2 DEF Talks, Stage0
      <3>2. c.protocol # 0
        BY <1>0 DEF Basic
      <3> QED BY <1>7, <1>8, <1>10, <2>2, <3>1, <3>2 DEF Basic, SameIn, SameNumbers
    <2> QED BY <2>1, <2>2
  <1>15. Eager(d)
    BY <1>8, <1>10 DEF Eager, SameIn, SameNumbers
  <1> QED BY <1>13, <1>14, <1>15

-----------------------------------------------------------------------------
(* The invariant *)

\* in is the beginning of out.
PartOf(in, out) == Len(in) <= Len(out) /\ \A i \in 1 .. Len(in) : in[i] = out[i]

ChannelTyped ==
    /\ ch \in [End -> Channel]
    /\ closed \subseteq End
    /\ sent \in [End -> Seq(MsgTypes)]
    /\ received \in [End -> Seq(MsgTypes)]

\* Both directions, seen from one end.
Both(e) == Pair(ch[e], ch[Other(e)], sent[Other(e)], Len(received[e]),
                sent[e], Len(received[Other(e)]))

ChannelInv ==
    /\ ChannelTyped
    /\ \A e \in End : Basic(ch[e]) /\ Eager(ch[e])
    /\ \A e \in End : Both(e)
    /\ \A e \in End : PartOf(received[e], sent[Other(e)])

\* What an action finds at one end.
LEMMA AtEnd ==
    ASSUME ChannelInv, NEW e \in End
    PROVE  /\ Other(e) \in End /\ Other(e) # e /\ Other(Other(e)) = e
           /\ Basic(ch[e]) /\ Eager(ch[e]) /\ Basic(ch[Other(e)]) /\ Eager(ch[Other(e)])
           /\ Fit(ch[e]) /\ Fit(ch[Other(e)])
           /\ sent[e] \in Seq(MsgTypes) /\ sent[Other(e)] \in Seq(MsgTypes)
           /\ received[e] \in Seq(MsgTypes) /\ received[Other(e)] \in Seq(MsgTypes)
           /\ Len(received[e]) \in Nat /\ Len(received[Other(e)]) \in Nat
           /\ Both(e)
  <1>1. Other(e) \in End /\ Other(e) # e /\ Other(Other(e)) = e
    BY TwoEnds
  <1>2. /\ Basic(ch[e]) /\ Eager(ch[e]) /\ Basic(ch[Other(e)]) /\ Eager(ch[Other(e)]) /\ Both(e)
    BY <1>1 DEF ChannelInv
  <1>3. /\ sent[e] \in Seq(MsgTypes) /\ sent[Other(e)] \in Seq(MsgTypes)
        /\ received[e] \in Seq(MsgTypes) /\ received[Other(e)] \in Seq(MsgTypes)
    BY <1>1 DEF ChannelInv, ChannelTyped
  <1>4. Len(received[e]) \in Nat /\ Len(received[Other(e)]) \in Nat
    BY <1>3, SeqMessages
  <1> QED BY <1>1, <1>2, <1>3, <1>4 DEF Basic

\* A step establishes the invariant when it does so for one end and the other.
LEMMA EndsEnough ==
    ASSUME NEW e \in End, ChannelTyped', Basic(ch'[e]), Eager(ch'[e]), Basic(ch'[Other(e)]),
           Eager(ch'[Other(e)]), Both(e)', PartOf(received'[e], sent'[Other(e)]),
           PartOf(received'[Other(e)], sent'[e])
    PROVE  ChannelInv'
  <1>1. Other(e) \in End /\ Other(Other(e)) = e /\ End = {e, Other(e)}
    BY TwoEnds
  <1>2. Both(Other(e))'
    BY <1>1 DEF Both, Pair
  <1>3. \A f \in End : Both(f)'
    BY <1>1, <1>2
  <1>4. \A f \in End : Basic(ch'[f]) /\ Eager(ch'[f])
    BY <1>1
  <1>5. \A f \in End : PartOf(received'[f], sent'[Other(f)])
    BY <1>1
  <1> QED BY <1>3, <1>4, <1>5 DEF ChannelInv

\* A step of one end that neither sends nor delivers a message.
LEMMA OneEnd ==
    ASSUME ChannelInv, NEW e \in End, NEW d, ch' = [ch EXCEPT ![e] = d], Basic(d), Eager(d),
           Pair(d, ch[Other(e)], sent[Other(e)], Len(received[e]), sent[e], Len(received[Other(e)])),
           closed' \subseteq End, UNCHANGED <<sent, received>>
    PROVE  ChannelInv'
  <1>1. Other(e) \in End /\ Other(e) # e /\ Other(Other(e)) = e
    BY TwoEnds
  <1>2. ch \in [End -> Channel] /\ d \in Channel
    BY DEF ChannelInv, ChannelTyped, Basic, Fit
  <1>3. ch' \in [End -> Channel] /\ ch'[e] = d /\ ch'[Other(e)] = ch[Other(e)]
    BY <1>1, <1>2
  <1>4. ChannelTyped'
    BY <1>3 DEF ChannelInv, ChannelTyped
  <1>5. sent' = sent /\ received' = received
    OBVIOUS
  <1>6. Both(e)'
    BY <1>3, <1>5 DEF Both
  <1>7. Basic(ch'[Other(e)]) /\ Eager(ch'[Other(e)])
    BY <1>1, <1>3 DEF ChannelInv
  <1>8. PartOf(received'[e], sent'[Other(e)]) /\ PartOf(received'[Other(e)], sent'[e])
    BY <1>1, <1>5 DEF ChannelInv
  <1> QED BY <1>3, <1>4, <1>6, <1>7, <1>8, EndsEnough

\* A flush gets out some number of bytes.
LEMMA OutcomesCount ==
    ASSUME NEW e, NEW togo \in Nat, NEW n \in Outcomes(e, togo)
    PROVE  n \in Nat
  BY DEF Outcomes

\* The end of a stream, errors and the end of set_error.
LEMMA OneEndKept ==
    ASSUME ChannelInv, NEW e \in End, NEW d, ch' = [ch EXCEPT ![e] = d], Fit(d), Kept(ch[e], d),
           closed' \subseteq End, UNCHANGED <<sent, received>>
    PROVE  ChannelInv'
  <1>1. /\ Basic(ch[e]) /\ Eager(ch[e]) /\ Fit(ch[Other(e)])
        /\ sent[e] \in Seq(MsgTypes) /\ sent[Other(e)] \in Seq(MsgTypes)
        /\ Len(received[e]) \in Nat /\ Len(received[Other(e)]) \in Nat
        /\ Both(e)
    BY AtEnd
  <1>2. /\ Basic(d) /\ Eager(d)
        /\ Pair(d, ch[Other(e)], sent[Other(e)], Len(received[e]), sent[e], Len(received[Other(e)]))
    BY <1>1, KeptStep DEF Both
  <1> QED BY <1>2, OneEnd

\* An end is created: it writes its version and tries to send it.
LEMMA CreateInv ==
    ASSUME ChannelInv, NEW e \in End, Create(e)
    PROVE  ChannelInv'
  <1> DEFINE c == ch[e]
             y == writefull([c EXCEPT !.instate = "NEED_PROTO"], Number(c.version))
  <1>1. /\ Basic(c) /\ Fit(c) /\ Fit(ch[Other(e)])
        /\ sent[e] \in Seq(MsgTypes) /\ sent[Other(e)] \in Seq(MsgTypes)
        /\ Len(received[e]) \in Nat /\ Len(received[Other(e)]) \in Nat
        /\ Both(e)
    BY AtEnd
  <1>2. y.msgtogo \in Nat
    <2> DEFINE x == [c EXCEPT !.instate = "NEED_PROTO"]
    <2>1. c \in Channel /\ c.version \in Int /\ c.msgtogo \in Nat
      <3>1. c \in Channel
        BY <1>1 DEF Fit
      <3> HIDE DEF c
      <3> QED BY <3>1, ChannelTypes
    <2>2. Len(Number(c.version)) \in Nat
      BY <2>1, NumberSeq, SizeAssumption
    <2>3. y = [x EXCEPT !.msgbuf = Bytes(x.msgbuf, 0, x.msgtogo) \o Number(c.version),
                        !.msgtogo = @ + Len(Number(c.version))]
      BY DEF writefull
    <2>4. x \in Channel /\ x.msgtogo = c.msgtogo
      BY <2>1 DEF Channel, InStates
    <2> HIDE DEF x, y
    <2>5. y.msgtogo = x.msgtogo + Len(Number(c.version))
      BY <2>3, <2>4 DEF Channel
    <2> QED BY <2>1, <2>2, <2>4, <2>5
  <1>3. PICK n \in Outcomes(e, y.msgtogo) : ch' = [ch EXCEPT ![e] = flush_writebuf(y, n)]
    BY DEF Create
  <1>4. n \in Nat
    <2> HIDE DEF y
    <2> QED BY <1>2, <1>3, OutcomesCount
  <1> DEFINE d == flush_writebuf(y, n)
  <1>5. c.instate = "none"
    BY DEF Create
  <1>6. /\ Basic(d) /\ Eager(d)
        /\ Pair(d, ch[Other(e)], sent[Other(e)], Len(received[e]), sent[e], Len(received[Other(e)]))
    <2>1. Pair(c, ch[Other(e)], sent[Other(e)], Len(received[e]), sent[e], Len(received[Other(e)]))
      BY <1>1 DEF Both
    <2> HIDE DEF c
    <2> QED BY <1>1, <1>4, <1>5, <2>1, CreateStep
  <1>7. closed' \subseteq End /\ UNCHANGED <<sent, received>>
    BY DEF Create, ChannelInv, ChannelTyped
  <1>8. ch' = [ch EXCEPT ![e] = d]
    BY <1>3
  <1> HIDE DEF d
  <1> QED BY <1>6, <1>7, <1>8, OneEnd

\* read_a_bit that finds the end of the stream.
LEMMA ReadEofInv ==
    ASSUME ChannelInv, NEW e \in End, ReadEof(e)
    PROVE  ChannelInv'
  <1> DEFINE c == ch[e]
             d == [c EXCEPT !.eof = TRUE]
  <1>1. Fit(c) /\ c \in Channel
    BY AtEnd DEF Fit
  <1>2. d \in Channel
    BY <1>1 DEF Channel
  <1>3. /\ SameInput(c, d) /\ SameOutput(c, d) /\ SameNumbers(c, d) /\ d.instate = c.instate
        /\ d.set_error_recursion = c.set_error_recursion /\ d.eof
    BY <1>1 DEF Channel, SameInput, SameOutput, SameNumbers
  <1>4. ch' = [ch EXCEPT ![e] = d] /\ closed' \subseteq End /\ UNCHANGED <<sent, received>>
    BY DEF ReadEof, ChannelInv, ChannelTyped
  <1> HIDE DEF d
  <1>5. Fit(d)
    BY <1>1, <1>2, <1>3 DEF Fit, SameInput, SameOutput
  <1>6. Kept(c, d)
    BY <1>3, InputKept DEF Kept
  <1> QED BY <1>4, <1>5, <1>6, OneEndKept

\* set_error at one end.
LEMMA StopsInv ==
    ASSUME ChannelInv, NEW e \in End, NEW c, Fit(c), SameIn(ch[e], c), SameMind(ch[e], c),
           SameEnd(ch[e], c), SameOutput(ch[e], c), NEW silent \in BOOLEAN,
           ch' = [ch EXCEPT ![e] = set_error(c, silent)],
           closed' \subseteq End, UNCHANGED <<sent, received>>
    PROVE  ChannelInv'
  <1> DEFINE d == set_error(c, silent)
  <1>1. Basic(ch[e]) /\ Fit(ch[e])
    BY AtEnd
  <1>2. c.instate = "ERROR" => c.eof
    BY <1>1 DEF Basic, SameMind, SameEnd
  <1>3. Fit(d) /\ SameInput(c, d) /\ SameOutput(c, d) /\ SameNumbers(c, d) /\ Stopped(c, d)
    BY <1>2, SetError
  <1>4. ch' = [ch EXCEPT ![e] = d]
    OBVIOUS
  <1> HIDE DEF d
  <1>5. SameIn(ch[e], d)
    <2>1. SameIn(c, d)
      BY <1>3, InputKept
    <2> QED BY <2>1 DEF SameIn
  <1>6. SameOutput(ch[e], d) /\ SameNumbers(ch[e], d)
    BY <1>3 DEF SameOutput, SameNumbers, SameMind
  <1>7. Stopped(ch[e], d)
    BY <1>3 DEF Stopped, SameMind, SameEnd
  <1>8. Kept(ch[e], d)
    BY <1>5, <1>6, <1>7 DEF Kept
  <1> QED BY <1>3, <1>4, <1>8, OneEndKept

\* read_a_bit whose read fails.
LEMMA ReadErrorInv ==
    ASSUME ChannelInv, NEW e \in End, ReadError(e)
    PROVE  ChannelInv'
  <1> DEFINE c == chop_input(ch[e])
             silent == ch[e].instate = "NEED_PROTO"
  <1>1. Fit(ch[e]) /\ ch \in [End -> Channel]
    BY AtEnd DEF ChannelInv, ChannelTyped
  <1>2. Fit(c) /\ SameIn(ch[e], c) /\ SameMind(ch[e], c) /\ SameEnd(ch[e], c) /\ SameOutput(ch[e], c)
    BY <1>1, ChopInput
  <1>3. ch' = [ch EXCEPT ![e] = set_error(c, silent)] /\ silent \in BOOLEAN
    BY <1>1 DEF ReadError
  <1>4. closed' \subseteq End /\ UNCHANGED <<sent, received>>
    BY DEF ReadError, ChannelInv, ChannelTyped
  <1> HIDE DEF c, silent
  <1> QED BY <1>2, <1>3, <1>4, StopsInv

\* set_error where nothing else changes.
LEMMA PlainStopInv ==
    ASSUME ChannelInv, NEW e \in End, ch' = [ch EXCEPT ![e] = set_error(ch[e], FALSE)],
           closed' \subseteq End, UNCHANGED <<sent, received>>
    PROVE  ChannelInv'
  <1>1. Fit(ch[e])
    BY AtEnd
  <1>2. SameIn(ch[e], ch[e]) /\ SameMind(ch[e], ch[e]) /\ SameEnd(ch[e], ch[e]) /\ SameOutput(ch[e], ch[e])
    BY DEF SameIn, SameMind, SameNumbers, SameEnd, SameOutput
  <1>3. FALSE \in BOOLEAN
    OBVIOUS
  <1> QED BY <1>1, <1>2, <1>3, StopsInv, Zenon

\* The wait for the protocol that times out.
LEMMA ProtocolTimeoutInv ==
    ASSUME ChannelInv, NEW e \in End, ProtocolTimeout(e)
    PROVE  ChannelInv'
  <1>1. ch' = [ch EXCEPT ![e] = set_error(ch[e], FALSE)] /\ closed' \subseteq End /\ UNCHANGED <<sent, received>>
    BY DEF ProtocolTimeout, ChannelInv, ChannelTyped
  <1> QED BY <1>1, PlainStopInv

\* get_msg on a channel at its end.
LEMMA get_msg_eofInv ==
    ASSUME ChannelInv, NEW e \in End, get_msg_eof(e)
    PROVE  ChannelInv'
  <1>1. ch' = [ch EXCEPT ![e] = set_error(ch[e], FALSE)] /\ closed' \subseteq End /\ UNCHANGED <<sent, received>>
    BY DEF get_msg_eof, ChannelInv, ChannelTyped
  <1> QED BY <1>1, PlainStopInv

\* A channel that ends in the error state.
LEMMA DiesInv ==
    ASSUME ChannelInv, NEW e \in End, ch' = [ch EXCEPT ![e] = Dead(ch[e])],
           closed' \subseteq End, UNCHANGED <<sent, received>>
    PROVE  ChannelInv'
  <1> DEFINE c == ch[e]
             d == Dead(c)
  <1>1. Fit(c)
    BY AtEnd
  <1>2. ch' = [ch EXCEPT ![e] = d]
    OBVIOUS
  <1>3. /\ Fit(d) /\ SameInput(c, d) /\ SameOutput(c, d) /\ SameNumbers(c, d)
        /\ d.instate = "ERROR" /\ d.eof
    BY <1>1, DeadChannel
  <1> HIDE DEF d
  <1>4. Kept(c, d)
    BY <1>3, InputKept DEF Kept, Stopped
  <1> QED BY <1>2, <1>3, <1>4, OneEndKept

\* The end of set_error, when the owner's handler returns.
LEMMA SetErrorEndsInv ==
    ASSUME ChannelInv, NEW e \in End, SetErrorEnds(e)
    PROVE  ChannelInv'
  <1>1. ch' = [ch EXCEPT ![e] = Dead(ch[e])] /\ closed' \subseteq End /\ UNCHANGED <<sent, received>>
    BY DEF SetErrorEnds, ChannelInv, ChannelTyped
  <1> QED BY <1>1, DiesInv

\* A channel is destroyed.
LEMMA CloseInv ==
    ASSUME ChannelInv, NEW e \in End, Close(e)
    PROVE  ChannelInv'
  <1>1. ch' = [ch EXCEPT ![e] = Dead(ch[e])] /\ closed' \subseteq End /\ UNCHANGED <<sent, received>>
    BY DEF Close, ChannelInv, ChannelTyped
  <1> QED BY <1>1, DiesInv

\* read_a_bit that reads bytes, and update_state after it.
LEMMA ReadInv ==
    ASSUME ChannelInv, NEW e \in End, Read(e)
    PROVE  ChannelInv'
  <1> DEFINE o == Other(e)
             ins == sent[o]
             m == Len(received[e])
             outs == sent[e]
             k == Len(received[o])
             strm == ch[o].stream
             c == chop_input(ch[e])
  <1>1. /\ o \in End /\ o # e /\ Other(o) = e
        /\ Basic(ch[e]) /\ Basic(ch[o]) /\ Eager(ch[o]) /\ Fit(ch[e]) /\ Fit(ch[o])
        /\ ins \in Seq(MsgTypes) /\ outs \in Seq(MsgTypes) /\ m \in Nat /\ k \in Nat
    BY AtEnd
  <1>2. Pair(ch[e], ch[o], ins, m, outs, k) /\ ch \in [End -> Channel]
    BY AtEnd DEF Both, ChannelInv, ChannelTyped
  <1>3. PICK j \in 1 .. Len(strm), n \in Outcomes(e, ch[e].msgtogo + Word) :
            ch' = [ch EXCEPT ![e] = update_state([c EXCEPT !.inbuf = @ \o SubSeq(strm, 1, j)], n),
                             ![Other(e)].stream = SubSeq(strm, j + 1, Len(strm))]
    BY DEF Read
  <1>4. n \in Nat
    <2>1. ch[e].msgtogo \in Nat /\ Word \in Nat
      BY <1>1, FitCounts, SizeAssumption
    <2>2. ch[e].msgtogo + Word \in Nat
      BY <2>1
    <2> QED BY <1>3, <2>2, OutcomesCount
  <1>5. ch[e].instate \notin {"none", "ERROR"}
    BY DEF Read, Readable
  <1>6. Fit(c) /\ SameIn(ch[e], c) /\ SameMind(ch[e], c) /\ SameEnd(ch[e], c) /\ SameOutput(ch[e], c)
    BY <1>1, ChopInput
  <1> DEFINE x == Filled(c, SubSeq(strm, 1, j))
             p == Drained(ch[o], SubSeq(strm, j + 1, Len(strm)))
             d == update_state(x, n)
  <1>7. ch' \in [End -> {d, p}] /\ ch'[e] = d /\ ch'[o] = p
    <2>1. ch' = [ch EXCEPT ![e] = d, ![o] = p]
      BY <1>1, <1>2, <1>3 DEF Filled, Drained
    <2> HIDE DEF d, p, o
    <2>2. End = {e, o}
      BY TwoEnds DEF o
    <2> QED BY <1>1, <1>2, <2>1, <2>2
  <1>8. Basic(c) /\ Pair(c, ch[o], ins, m, outs, k) /\ c.instate = ch[e].instate
    <2>1. SameOut(ch[e], c)
      BY <1>6, OutputKept
    <2>2. ch[e].msgtogo \in Nat /\ c.msgtogo = ch[e].msgtogo
      BY <1>1, <1>6, FitCounts DEF SameOutput
    <2>3. Steady(ch[e], c) /\ Quiet(ch[e], c)
      BY <1>6, <2>2 DEF Steady, Quiet, SameMind, SameNumbers
    <2>4. Basic(c)
      <3> HIDE DEF c
      <3> QED BY <1>1, <1>6 DEF Basic, SameMind, SameNumbers, SameIn, SameEnd, SameOutput, Stage0
    <2> HIDE DEF c, o, ins, m, outs, k
    <2>5. Pair(c, ch[o], ins, m, outs, k)
      BY <1>1, <1>2, <1>6, <2>1, <2>3, PairKept
    <2> QED BY <1>6, <2>4, <2>5 DEF SameMind
  <1> HIDE DEF c, ins, m, outs, k, d
  <1>9. Basic(x) /\ Basic(p) /\ Eager(p) /\ x.instate = c.instate /\ Pair(x, p, ins, m, outs, k)
    <2>1. j \in 1 .. Len(ch[o].stream) /\ c.instate # "none"
      BY <1>3, <1>5, <1>8
    <2>2. x = Filled(c, SubSeq(ch[o].stream, 1, j)) /\ p = Drained(ch[o], SubSeq(ch[o].stream, j + 1, Len(ch[o].stream)))
      OBVIOUS
    <2> HIDE DEF x, p, o
    <2> QED BY <1>1, <1>8, <2>1, <2>2, Moves
  <1>10. Basic(d) /\ Eager(d) /\ Pair(d, p, ins, m, outs, k)
    <2>1. Fit(p) /\ x.instate \notin {"none", "ERROR"} /\ d = update_state(x, n)
      BY <1>5, <1>8, <1>9 DEF Basic, d
    <2> HIDE DEF x, p
    <2> QED BY <1>1, <1>4, <1>9, <2>1, UpdateState
  <1> HIDE DEF p
  <1>11. sent' = sent /\ received' = received /\ closed' = closed
    BY DEF Read
  <1>12. ChannelTyped'
    <2>1. d \in Channel /\ p \in Channel
      BY <1>9, <1>10 DEF Basic, Fit
    <2>2. ch' \in [End -> Channel]
      BY <1>7, <2>1
    <2> QED BY <1>11, <2>2 DEF ChannelTyped, ChannelInv
  <1>13. Both(e)'
    BY <1>7, <1>10, <1>11 DEF Both, ins, m, outs, k
  <1>14. PartOf(received'[e], sent'[o]) /\ PartOf(received'[o], sent'[e])
    BY <1>1, <1>11 DEF ChannelInv
  <1> QED BY <1>7, <1>9, <1>10, <1>12, <1>13, <1>14, EndsEnough

\* What get_msg does: its error branch is never taken, and the message it delivers is the
\* next that the other end sent.
LEMMA Delivers ==
    ASSUME ChannelInv, NEW e \in End, get_msg(e)
    PROVE  /\ Len(received[e]) < Len(sent[Other(e)])
           /\ sent[Other(e)][Len(received[e]) + 1] \in MsgTypes
           /\ ch' = [ch EXCEPT ![e] = ReadLength([ch[e] EXCEPT !.intogo = @ + ch[e].inmsglen,
                                                               !.instate = "NEED_LEN"])]
           /\ received' = [received EXCEPT ![e] = Append(@, sent[Other(e)][Len(received[e]) + 1])]
           /\ UNCHANGED <<closed, sent>>
  <1> DEFINE c == ch[e]
             o == ch[Other(e)]
             ins == sent[Other(e)]
             m == Len(received[e])
             first == ByteAt(c.inbuf, c.intogo + 1)
             read == MinOf(1 + Len(Reads(c.protocol)[first[2]]), Unread(c))
             t == ins[m + 1]
  <1>1. Basic(c) /\ Fit(o) /\ ins \in Seq(MsgTypes) /\ m \in Nat /\ c.instate = "HAS_MSG"
    BY AtEnd DEF get_msg
  <1>2. Flow(c, o, Pipe(c, o), Span(c, o), ins, Len(ins), m)
    BY AtEnd DEF Both, Pair
  <1>3. /\ m < Len(ins) /\ t \in MsgTypes /\ first = <<"body", t, 1>>
        /\ c.inmsglen = Size(c.protocol, t) /\ c.inmsglen <= Unread(c)
    <2> HIDE DEF c, o, ins, m
    <2> QED BY <1>1, <1>2, NextMessage
  <1>4. read = c.inmsglen
    <2> HIDE DEF first, t, c
    <2> QED BY <1>1, <1>3, ReadsAll
  <1>5. ~(first[1] # "body" \/ first[3] # 1 \/ read # c.inmsglen) /\ first[2] = t
    <2> HIDE DEF read, t
    <2>1. first[1] = "body" /\ first[2] = t /\ first[3] = 1
      BY <1>3
    <2> QED BY <1>4, <2>1
  <1>6. /\ ch' = [ch EXCEPT ![e] = ReadLength([c EXCEPT !.intogo = @ + read, !.instate = "NEED_LEN"])]
        /\ received' = [received EXCEPT ![e] = Append(@, first[2])]
        /\ UNCHANGED <<closed, sent>>
    BY <1>5 DEF get_msg
  <1> HIDE DEF read, first
  <1> QED BY <1>3, <1>4, <1>5, <1>6

\* get_msg takes the next message.
LEMMA get_msgInv ==
    ASSUME ChannelInv, NEW e \in End, get_msg(e)
    PROVE  ChannelInv'
  <1> DEFINE c == ch[e]
             o == Other(e)
             ins == sent[o]
             m == Len(received[e])
             outs == sent[e]
             k == Len(received[o])
             t == ins[m + 1]
             d == ReadLength([c EXCEPT !.intogo = @ + c.inmsglen, !.instate = "NEED_LEN"])
  <1>1. /\ o \in End /\ o # e /\ Other(o) = e
        /\ Basic(c) /\ Basic(ch[o]) /\ Eager(ch[o]) /\ Fit(ch[o])
        /\ ins \in Seq(MsgTypes) /\ outs \in Seq(MsgTypes) /\ m \in Nat /\ k \in Nat
        /\ received[e] \in Seq(MsgTypes)
    BY AtEnd
  <1>2. Pair(c, ch[o], ins, m, outs, k) /\ c.instate = "HAS_MSG"
    BY AtEnd DEF Both, get_msg
  <1>3. /\ m < Len(ins) /\ t \in MsgTypes
        /\ ch' = [ch EXCEPT ![e] = d]
        /\ received' = [received EXCEPT ![e] = Append(@, t)]
        /\ sent' = sent /\ closed' = closed
    BY Delivers
  <1>4. Basic(d) /\ Eager(d) /\ Pair(d, ch[o], ins, m + 1, outs, k)
    <2> HIDE DEF c, o, ins, m, outs, k
    <2> QED BY <1>1, <1>2, ReceiveStep
  <1> HIDE DEF d, t
  <1>5. /\ ch \in [End -> Channel] /\ received \in [End -> Seq(MsgTypes)] /\ sent \in [End -> Seq(MsgTypes)]
        /\ closed \subseteq End /\ PartOf(received[e], sent[o]) /\ PartOf(received[o], sent[e])
    BY <1>1 DEF ChannelInv, ChannelTyped
  <1>6. ch' \in [End -> Channel] /\ ch'[e] = d /\ ch'[o] = ch[o]
    <2>1. d \in Channel
      BY <1>4 DEF Basic, Fit
    <2> QED BY <1>1, <1>3, <1>5, <2>1
  <1>7. /\ Append(received[e], t) \in Seq(MsgTypes) /\ Len(Append(received[e], t)) = m + 1
        /\ With(received[e], m, Append(received[e], t)) /\ Append(received[e], t)[m + 1] = t
    BY <1>1, <1>3, Appended
  <1>8. /\ received' \in [End -> Seq(MsgTypes)] /\ received'[e] = Append(received[e], t)
        /\ received'[o] = received[o]
    BY <1>1, <1>3, <1>5, <1>7
  <1>9. ChannelTyped'
    BY <1>3, <1>5, <1>6, <1>8 DEF ChannelTyped
  <1>10. Len(received'[e]) = m + 1 /\ Len(received'[o]) = k
    BY <1>7, <1>8
  <1>11. Both(e)'
    BY <1>3, <1>4, <1>6, <1>10 DEF Both
  <1>12. PartOf(received'[e], sent'[o])
    <2> DEFINE new == Append(received[e], t)
    <2>1. \A i \in 1 .. m + 1 : new[i] = ins[i]
      <3> SUFFICES ASSUME NEW i \in 1 .. m + 1 PROVE new[i] = ins[i]
        OBVIOUS
      <3> HIDE DEF new
      <3>1. CASE i = m + 1
        BY <1>7, <3>1 DEF t, new
      <3>2. CASE i # m + 1
        <4>1. i \in 1 .. m
          BY <1>1, <3>2
        <4>2. new[i] = received[e][i]
          BY <1>7, <4>1 DEF With, new
        <4>3. received[e][i] = ins[i]
          BY <1>5, <4>1 DEF PartOf
        <4> QED BY <4>2, <4>3
      <3> QED BY <3>1, <3>2
    <2>2. m + 1 <= Len(ins)
      <3>1. Len(ins) \in Nat
        BY <1>1, SeqMessages
      <3> HIDE DEF m, ins
      <3> QED BY <1>1, <1>3, <3>1
    <2> HIDE DEF new
    <2>3. received'[e] = new /\ Len(new) = m + 1 /\ sent'[o] = ins
      BY <1>3, <1>7, <1>8 DEF new
    <2> QED BY <2>1, <2>2, <2>3 DEF PartOf
  <1>13. PartOf(received'[o], sent'[e])
    BY <1>3, <1>5, <1>8
  <1> QED BY <1>1, <1>4, <1>6, <1>9, <1>11, <1>12, <1>13, EndsEnough

\* What send_msg does.
LEMMA Submits ==
    ASSUME ChannelInv, NEW e \in End, NEW bulk \in BOOLEAN, send_msg(e, bulk)
    PROVE  \E t \in MsgTypes : \E d :
              /\ ch' = [ch EXCEPT ![e] = d]
              /\ sent' = [sent EXCEPT ![e] = Append(@, t)]
              /\ UNCHANGED <<closed, received>>
              /\ Basic(d) /\ Eager(d)
              /\ Pair(d, ch[Other(e)], sent[Other(e)], Len(received[e]),
                      Append(sent[e], t), Len(received[Other(e)]))
  <1> DEFINE c == ch[e]
             t == Script[e][Len(sent[e]) + 1]
             y == writefull(chop_output(c), Number(Len(Body(t, c.protocol))) \o Body(t, c.protocol))
  <1>1. /\ Basic(c) /\ Eager(c) /\ Fit(c) /\ Fit(ch[Other(e)])
        /\ sent[e] \in Seq(MsgTypes) /\ sent[Other(e)] \in Seq(MsgTypes)
        /\ Len(received[e]) \in Nat /\ Len(received[Other(e)]) \in Nat /\ Both(e)
    BY AtEnd
  <1>2. t \in MsgTypes
    <2>1. Script[e] \in Seq(MsgTypes) /\ Len(sent[e]) \in Nat /\ Len(Script[e]) \in Nat
      BY <1>1, ScriptAssumption, SeqMessages
    <2>2. Len(sent[e]) < Len(Script[e])
      BY DEF send_msg
    <2>3. Len(sent[e]) + 1 \in 1 .. Len(Script[e])
      BY <2>1, <2>2
    <2> QED BY <2>1, <2>3
  <1>3. Talks(c) /\ ~c.set_error_recursion
    <2>1. c.instate \in InStates
      BY <1>1, ChannelTypes DEF Fit
    <2> QED BY <2>1 DEF send_msg, Own, Talks, InStates
  <1> HIDE DEF t
  <1>4. \E d : /\ ch' = [ch EXCEPT ![e] = d]
               /\ d = y \/ \E n \in Nat : d = flush_writebuf(y, n)
    <2>1. CASE bulk /\ y.msgtogo < BulkFlush
      <3>1. ch' = [ch EXCEPT ![e] = y]
        BY <2>1 DEF send_msg, t
      <3> QED BY <3>1
    <2>2. CASE ~(bulk /\ y.msgtogo < BulkFlush)
      <3>1. \E n \in Outcomes(e, y.msgtogo) : ch' = [ch EXCEPT ![e] = flush_writebuf(y, n)]
        BY <2>2 DEF send_msg, t
      <3>2. y.msgtogo \in Nat
        <4> DEFINE x == chop_output(c)
                   bytes == Number(Len(Body(t, c.protocol))) \o Body(t, c.protocol)
        <4>1. bytes \in Seq(Byte)
          <5>1. Framed(bytes, Size(c.protocol, t), t)
            BY <1>2, Frame
          <5> QED BY <5>1 DEF Framed
        <4>2. Fit(x) /\ x.msgofs = 0
          <5>1. c.msgofs = 0
            BY <1>1, <1>3 DEF Basic, Talks
          <5> QED BY <1>1, <5>1, ChopOutput
        <4>3. y = writefull(x, bytes)
          OBVIOUS
        <4> HIDE DEF x, bytes, y
        <4>4. Fit(y)
          BY <4>1, <4>2, <4>3, WriteFull DEF Written
        <4> QED BY <4>4, FitCounts
      <3> HIDE DEF y
      <3>3. PICK n \in Outcomes(e, y.msgtogo) : ch' = [ch EXCEPT ![e] = flush_writebuf(y, n)]
        BY <3>1
      <3>4. n \in Nat
        BY <3>2, <3>3, OutcomesCount
      <3> QED BY <3>3, <3>4
    <2> QED BY <2>1, <2>2
  <1>5. PICK d : /\ ch' = [ch EXCEPT ![e] = d]
                 /\ d = y \/ \E n \in Nat : d = flush_writebuf(y, n)
    BY <1>4
  <1>6. /\ Basic(d) /\ Eager(d)
        /\ Pair(d, ch[Other(e)], sent[Other(e)], Len(received[e]),
                Append(sent[e], t), Len(received[Other(e)]))
    <2>1. Pair(c, ch[Other(e)], sent[Other(e)], Len(received[e]), sent[e], Len(received[Other(e)]))
      BY <1>1 DEF Both
    <2>2. y = writefull(chop_output(c), Number(Len(Body(t, c.protocol))) \o Body(t, c.protocol))
      OBVIOUS
    <2> HIDE DEF c, y
    <2> QED BY <1>1, <1>2, <1>3, <1>5, <2>1, <2>2, SendStep
  <1>7. sent' = [sent EXCEPT ![e] = Append(@, t)] /\ UNCHANGED <<closed, received>>
    BY DEF send_msg, t
  <1> HIDE DEF y
  <1> QED BY <1>2, <1>5, <1>6, <1>7

\* send_msg of one message.
LEMMA send_msgInv ==
    ASSUME ChannelInv, NEW e \in End, NEW bulk \in BOOLEAN, send_msg(e, bulk)
    PROVE  ChannelInv'
  <1> DEFINE o == Other(e)
  <1>0. PICK t \in MsgTypes : \E d :
              /\ ch' = [ch EXCEPT ![e] = d]
              /\ sent' = [sent EXCEPT ![e] = Append(@, t)]
              /\ UNCHANGED <<closed, received>>
              /\ Basic(d) /\ Eager(d)
              /\ Pair(d, ch[o], sent[o], Len(received[e]), Append(sent[e], t), Len(received[o]))
    BY Submits
  <1>1. PICK d : /\ t \in MsgTypes
              /\ ch' = [ch EXCEPT ![e] = d]
              /\ sent' = [sent EXCEPT ![e] = Append(@, t)]
              /\ UNCHANGED <<closed, received>>
              /\ Basic(d) /\ Eager(d)
              /\ Pair(d, ch[o], sent[o], Len(received[e]), Append(sent[e], t), Len(received[o]))
    BY <1>0
  <1>2. /\ o \in End /\ o # e /\ Other(o) = e /\ Basic(ch[o]) /\ Eager(ch[o])
        /\ sent[e] \in Seq(MsgTypes) /\ received[o] \in Seq(MsgTypes) /\ Len(received[o]) \in Nat
    BY AtEnd
  <1> HIDE DEF o
  <1>3. /\ ch \in [End -> Channel] /\ received \in [End -> Seq(MsgTypes)] /\ sent \in [End -> Seq(MsgTypes)]
        /\ closed \subseteq End /\ PartOf(received[e], sent[o]) /\ PartOf(received[o], sent[e])
    BY <1>2 DEF ChannelInv, ChannelTyped, o
  <1>4. ch' \in [End -> Channel] /\ ch'[e] = d /\ ch'[o] = ch[o]
    <2>1. d \in Channel
      BY <1>1 DEF Basic, Fit
    <2> QED BY <1>1, <1>2, <1>3, <2>1
  <1> DEFINE new == Append(sent[e], t)
             N == Len(sent[e])
  <1>5. N \in Nat /\ new \in Seq(MsgTypes) /\ Len(new) = N + 1 /\ With(sent[e], N, new)
    BY <1>1, <1>2, Appended, SeqMessages
  <1>6. sent' \in [End -> Seq(MsgTypes)] /\ sent'[e] = new /\ sent'[o] = sent[o]
    BY <1>1, <1>2, <1>3, <1>5
  <1>7. ChannelTyped'
    BY <1>1, <1>3, <1>4, <1>6 DEF ChannelTyped
  <1>8. Both(e)'
    BY <1>1, <1>4, <1>6 DEF Both, o
  <1> HIDE DEF new
  <1>9. PartOf(received'[o], sent'[e])
    <2> DEFINE lth == Len(received[o])
    <2>1. lth <= N /\ \A i \in 1 .. lth : received[o][i] = sent[e][i]
      BY <1>3 DEF PartOf
    <2>2. lth \in Nat
      BY <1>2
    <2> HIDE DEF lth, N
    <2>3. lth <= Len(new)
      BY <1>5, <2>1, <2>2
    <2>4. \A i \in 1 .. lth : received[o][i] = new[i]
      BY <1>5, <2>1, <2>2 DEF With
    <2>5. PartOf(received[o], new)
      BY <2>3, <2>4 DEF PartOf, lth
    <2> QED BY <1>1, <1>6, <2>5
  <1>10. PartOf(received'[e], sent'[o])
    BY <1>1, <1>3, <1>6
  <1>11. Basic(ch'[e]) /\ Eager(ch'[e]) /\ Basic(ch'[o]) /\ Eager(ch'[o])
    BY <1>1, <1>2, <1>4
  <1> QED BY <1>7, <1>8, <1>9, <1>10, <1>11, EndsEnough DEF o

\* A new connection has nothing on its way.
LEMMA NewFlow ==
    ASSUME NEW r, NEW s, NEW v \in Versions, NEW w \in Versions, r = NewChannel(v), s = NewChannel(w)
    PROVE  Flow(r, s, Pipe(r, s), Span(r, s), <<>>, 0, 0)
  <1>0. Word \in Nat \ {0}
    BY SizeAssumption
  <1>1. /\ r.instate = "none" /\ r.protocol = -1 /\ r.inbuf = <<>> /\ r.intogo = 0
        /\ s.instate = "none" /\ s.protocol = -1 /\ s.stream = <<>> /\ s.msgtogo = 0
    BY DEF NewChannel
  <1>2. Span(r, s) = 0
    BY <1>1 DEF Span, Unread, Held
  <1>3. /\ Stage0(r) /\ ~Stage1(r) /\ ~Talks(r) /\ r.instate # "NEED_LEN"
        /\ r.instate \notin {"FILL_BUF", "HAS_MSG"} /\ Stage0(s) /\ ~Stage1(s) /\ ~Talks(s)
    BY <1>1 DEF Stage0, Stage1, Talks
  <1> DEFINE pos == [i \in 0 .. 0 |-> 2 * Word]
             pipe == Pipe(r, s)
  <1>4. pos \in [0 .. 0 -> Int] /\ pos[0] = 2 * Word
    BY <1>0
  <1> HIDE DEF pos, pipe
  <1>5. Layout(pipe, 0, pos, s.version, Agreed(r, s), <<>>, 0)
    <2>1. Marks(pos, 0, Agreed(r, s), <<>>, 0)
      BY <1>0, <1>4 DEF Marks
    <2>2. Greeting(pipe, 0, pos, s.version, Agreed(r, s))
      BY DEF Greeting, At
    <2>3. Lengths(pipe, 0, pos, Agreed(r, s), <<>>, 0) /\ Bodies(pipe, 0, pos, Agreed(r, s), <<>>, 0)
      BY DEF Lengths, Bodies
    <2> QED BY <2>1, <2>2, <2>3 DEF Layout
  <1>6. Receiver(r, pos, Agreed(r, s), <<>>, 0, 0)
    BY <1>3, <1>4 DEF Receiver
  <1>7. Sender(s, pos, 0, r.version, 0)
    <2>1. 0 = pos[0] - 2 * Word /\ ~(0 > pos[0] - Word)
      BY <1>0, <1>4
    <2> QED BY <1>1, <1>3, <2>1 DEF Sender
  <1>8. Versioned(r, s)
    BY <1>3 DEF Versioned
  <1>9. Flow(r, s, pipe, 0, <<>>, 0, 0)
    BY <1>5, <1>6, <1>7, <1>8 DEF Flow
  <1> QED BY <1>2, <1>9 DEF pipe

\* The initial states satisfy the invariant.
LEMMA ChannelInit == Init => ChannelInv
  <1> SUFFICES ASSUME Init PROVE ChannelInv
    OBVIOUS
  <1>0. Word \in Nat \ {0}
    BY SizeAssumption
  <1>1. \A e \in End : \E v \in Versions : ch[e] = NewChannel(v)
    BY DEF Init
  <1>2. \A e \in End : sent[e] = <<>> /\ received[e] = <<>> /\ Len(sent[e]) = 0 /\ Len(received[e]) = 0
    BY DEF Init
  <1>3. ASSUME NEW v \in Versions, NEW c, c = NewChannel(v)
        PROVE  Basic(c) /\ Eager(c) /\ c \in Channel
    <2>1. c \in Channel
      <3>1. <<>> \in Seq(Byte) /\ -1 \in Int /\ 0 \in Int /\ 0 \in Nat /\ "none" \in InStates
        BY DEF InStates
      <3> QED BY <1>3, <3>1 DEF NewChannel, Channel
    <2>2. /\ c.instate = "none" /\ c.protocol = -1 /\ c.inbuf = <<>> /\ c.intogo = 0 /\ c.msgofs = 0
          /\ c.msgtogo = 0 /\ c.msgbuf = <<>> /\ Len(c.inbuf) = 0 /\ Len(c.msgbuf) = 0
      BY <1>3 DEF NewChannel
    <2>3. Fit(c) /\ Unread(c) = 0
      BY <2>1, <2>2 DEF Fit, Unread
    <2>4. Basic(c) /\ Eager(c)
      BY <1>0, <2>2, <2>3 DEF Basic, Eager
    <2> QED BY <2>1, <2>4
  <1>4. \A e \in End : Basic(ch[e]) /\ Eager(ch[e]) /\ ch[e] \in Channel
    BY <1>1, <1>3
  <1>5. ChannelTyped
    <2>1. ch \in [End -> {NewChannel(v) : v \in Versions}]
      BY DEF Init
    <2>2. ch \in [End -> Channel]
      BY <1>4, <2>1
    <2>3. <<>> \in Seq(MsgTypes)
      OBVIOUS
    <2> QED BY <2>2, <2>3 DEF Init, ChannelTyped
  <1>6. ASSUME NEW e \in End
        PROVE  Both(e) /\ PartOf(received[e], sent[Other(e)])
    <2>1. Other(e) \in End
      BY TwoEnds
    <2>2. PICK v \in Versions : ch[e] = NewChannel(v)
      BY <1>1
    <2>3. PICK w \in Versions : ch[Other(e)] = NewChannel(w)
      BY <1>1, <2>1
    <2> DEFINE c == ch[e]
               o == ch[Other(e)]
    <2>4. Flow(c, o, Pipe(c, o), Span(c, o), <<>>, 0, 0) /\ Flow(o, c, Pipe(o, c), Span(o, c), <<>>, 0, 0)
      <3> HIDE DEF c, o
      <3> QED BY <2>2, <2>3, NewFlow DEF c, o
    <2>5. /\ sent[e] = <<>> /\ sent[Other(e)] = <<>> /\ Len(received[e]) = 0 /\ Len(received[Other(e)]) = 0
          /\ Len(<<>>) = 0
      BY <1>2, <2>1
    <2>6. Both(e)
      BY <2>4, <2>5 DEF Both, Pair
    <2>7. PartOf(received[e], sent[Other(e)])
      BY <1>2, <2>1, <2>5 DEF PartOf
    <2> QED BY <2>6, <2>7
  <1> QED BY <1>4, <1>5, <1>6 DEF ChannelInv

\* Every step keeps the invariant.
LEMMA ChannelStep == ChannelInv /\ [Next]_vars => ChannelInv'
  <1> SUFFICES ASSUME ChannelInv, [Next]_vars PROVE ChannelInv'
    OBVIOUS
  <1>1. CASE UNCHANGED vars
    <2>1. ch' = ch /\ closed' = closed /\ sent' = sent /\ received' = received
      BY <1>1 DEF vars
    <2> QED BY <2>1 DEF ChannelInv, ChannelTyped, Both
  <1>2. CASE Next
    <2>1. PICK e \in End :
             \/ Create(e) \/ Read(e) \/ ReadEof(e) \/ ReadError(e) \/ ProtocolTimeout(e)
             \/ get_msg(e) \/ get_msg_eof(e) \/ SetErrorEnds(e) \/ Close(e)
             \/ \E bulk \in BOOLEAN : send_msg(e, bulk)
      BY <1>2 DEF Next
    <2>2. CASE Create(e)
      BY <2>2, CreateInv
    <2>3. CASE Read(e)
      BY <2>3, ReadInv
    <2>4. CASE ReadEof(e)
      BY <2>4, ReadEofInv
    <2>5. CASE ReadError(e)
      BY <2>5, ReadErrorInv
    <2>6. CASE ProtocolTimeout(e)
      BY <2>6, ProtocolTimeoutInv
    <2>7. CASE get_msg(e)
      BY <2>7, get_msgInv
    <2>8. CASE get_msg_eof(e)
      BY <2>8, get_msg_eofInv
    <2>9. CASE SetErrorEnds(e)
      BY <2>9, SetErrorEndsInv
    <2>10. CASE Close(e)
      BY <2>10, CloseInv
    <2>11. CASE \E bulk \in BOOLEAN : send_msg(e, bulk)
      BY <2>11, send_msgInv
    <2> QED BY <2>1, <2>2, <2>3, <2>4, <2>5, <2>6, <2>7, <2>8, <2>9, <2>10, <2>11
  <1> QED BY <1>1, <1>2

\* The invariant holds for ends of any releases, with any messages, whatever the cuts of the
\* streams and the failures.
THEOREM ChannelAlways == Spec => []ChannelInv
  <1>1. Init => ChannelInv
    BY ChannelInit
  <1>2. ChannelInv /\ [Next]_vars => ChannelInv'
    BY ChannelStep
  <1> QED BY <1>1, <1>2, PTL DEF Spec

-----------------------------------------------------------------------------
(* The properties *)

\* The offsets stay inside the buffers, and a channel in the error state reports the end of
\* its stream.
THEOREM BuffersAlwaysFit == Spec => []TypeOK
  <1>1. ChannelInv => TypeOK
    <2> SUFFICES ASSUME ChannelInv, NEW e \in End
                 PROVE  /\ closed \subseteq End
                        /\ ch[e].instate \in InStates
                        /\ ch[e].intogo \in 0 .. Len(ch[e].inbuf)
                        /\ ch[e].msgofs + ch[e].msgtogo <= Len(ch[e].msgbuf)
                        /\ ch[e].instate = "ERROR" => ch[e].eof
      BY DEF TypeOK, ChannelInv, ChannelTyped
    <2> DEFINE c == ch[e]
    <2>1. Basic(c) /\ closed \subseteq End
      BY DEF ChannelInv, ChannelTyped
    <2> HIDE DEF c
    <2>2. c \in Channel /\ c.intogo <= Len(c.inbuf) /\ c.msgofs + c.msgtogo <= Len(c.msgbuf)
      BY <2>1 DEF Basic, Fit
    <2>3. c.instate \in InStates /\ c.intogo \in Nat /\ Len(c.inbuf) \in Nat
      BY <2>2, ChannelTypes
    <2>4. c.intogo \in 0 .. Len(c.inbuf)
      BY <2>2, <2>3
    <2>5. c.instate = "ERROR" => c.eof
      BY <2>1 DEF Basic
    <2> QED BY <2>1, <2>2, <2>3, <2>4, <2>5 DEF c
  <1> QED BY <1>1, ChannelAlways, PTL

\* Two ends that talk have the lower of their versions for their protocol, and know the
\* other's, for every pair of versions and every cut of the exchange.
THEOREM VersionsAlwaysAgree == Spec => []VersionsAgree
  <1>1. ChannelInv => VersionsAgree
    <2> SUFFICES ASSUME ChannelInv, NEW e \in End, Talking(e)
                 PROVE  /\ ch[e].protocol = MinOf(ch[e].version, ch[Other(e)].version)
                        /\ ch[e].maximum_remote_protocol = ch[Other(e)].version
                        /\ ch[e].protocol >= MIN_PROTOCOL_VERSION
      BY DEF VersionsAgree
    <2> DEFINE c == ch[e]
               o == ch[Other(e)]
    <2>1. Flow(c, o, Pipe(c, o), Span(c, o), sent[Other(e)], Len(sent[Other(e)]), Len(received[e]))
      BY AtEnd DEF Both, Pair
    <2>2. Talks(c) /\ Live(c)
      BY DEF Talking, Talks, Live
    <2>3. Versioned(c, o)
      BY <2>1, <2>2, FlowPlaced
    <2> QED BY <2>2, <2>3 DEF Versioned, Agreed
  <1> QED BY <1>1, ChannelAlways, PTL

\* A complete message is the next that the other end sent, with the members that
\* fill_from_channel reads: get_msg never finds a message that it cannot read.
THEOREM MessagesReadAsWritten == Spec => []ReadAsWritten
  <1>1. ChannelInv => ReadAsWritten
    <2> SUFFICES ASSUME ChannelInv, NEW e \in End, ch[e].instate = "HAS_MSG",
                        NEW first, first = ByteAt(ch[e].inbuf, ch[e].intogo + 1)
                 PROVE  /\ first = <<"body", sent[Other(e)][Len(received[e]) + 1], 1>>
                        /\ ch[e].inmsglen <= Unread(ch[e])
                        /\ ch[e].inmsglen = 1 + Len(Reads(ch[e].protocol)[first[2]])
      BY DEF ReadAsWritten
    <2> DEFINE c == ch[e]
               o == ch[Other(e)]
               ins == sent[Other(e)]
               m == Len(received[e])
               t == ins[m + 1]
    <2>1. Basic(c) /\ Fit(o) /\ ins \in Seq(MsgTypes) /\ m \in Nat
      BY AtEnd
    <2>2. Flow(c, o, Pipe(c, o), Span(c, o), ins, Len(ins), m)
      BY AtEnd DEF Both, Pair
    <2>3. /\ first = <<"body", t, 1>> /\ c.inmsglen = Size(c.protocol, t) /\ c.inmsglen <= Unread(c)
      <3>1. c.instate = "HAS_MSG" /\ first = ByteAt(c.inbuf, c.intogo + 1)
        OBVIOUS
      <3> HIDE DEF c, o, ins, m
      <3> QED BY <2>1, <2>2, <3>1, NextMessage
    <2> HIDE DEF t
    <2>4. first[2] = t /\ Reads(c.protocol) = Writes(c.protocol)
      BY <2>3, WireSame
    <2>5. c.inmsglen = 1 + Len(Reads(c.protocol)[first[2]])
      BY <2>3, <2>4 DEF Size
    <2> QED BY <2>3, <2>5 DEF t
  <1> QED BY <1>1, ChannelAlways, PTL

\* An end that is neither new nor failed exchanges versions or talks.
LEMMA Waiting ==
    ASSUME NEW c, Basic(c), ~c.set_error_recursion, c.instate \notin {"none", "ERROR"}
    PROVE  /\ Stage0(c) \/ Stage1(c) \/ Talks(c)
           /\ Stage0(c) \/ Stage1(c) => c.msgtogo = 0
  <1>1. c \in Channel
    BY DEF Basic, Fit
  <1>2. c.instate \in InStates /\ c.protocol \in Int
    BY <1>1, ChannelTypes
  <1>3. CASE c.instate = "NEED_PROTO"
    <2>1. c.protocol # 0 /\ c.protocol <= 0 /\ c.msgtogo = 0
      BY <1>3 DEF Basic
    <2>2. c.protocol = -1 \/ c.protocol < -1
      BY <1>2, <2>1
    <2> QED BY <1>3, <2>1, <2>2 DEF Stage0, Stage1
  <1>4. CASE c.instate # "NEED_PROTO"
    BY <1>2, <1>4 DEF InStates, Stage0, Stage1, Talks
  <1> QED BY <1>3, <1>4

\* With an empty stream, the bytes on their way are in the two buffers.
LEMMA Between ==
    ASSUME NEW r, NEW s, Fit(r), Fit(s), s.stream = <<>>
    PROVE  Span(r, s) = Unread(r) + s.msgtogo
  <1>1. Len(s.stream) = 0 /\ s.msgtogo \in Nat /\ Unread(r) \in Nat
    BY FitCounts
  <1> QED BY <1>1 DEF Span, Held

\* Two ends that wait have both got over the first round.
LEMMA NotFirst ==
    ASSUME NEW r, NEW s, Basic(r), Basic(s), Eager(r), ~r.set_error_recursion,
           ~s.set_error_recursion, s.instate \notin {"none", "ERROR"}, s.stream = <<>>,
           r.instate # "none", NEW msgs, NEW N, NEW m,
           Flow(r, s, Pipe(r, s), Span(r, s), msgs, N, m)
    PROVE  ~Stage0(r)
  <1> SUFFICES ASSUME Stage0(r) PROVE FALSE
    OBVIOUS
  <1>1. Fit(r) /\ Fit(s) /\ Unread(r) \in Nat /\ s.msgtogo \in Nat /\ Word \in Nat \ {0}
    BY FitCounts, SizeAssumption DEF Basic
  <1>2. Span(r, s) = Unread(r) + s.msgtogo
    BY <1>1, Between
  <1>3. Unread(r) < Word
    BY DEF Eager, Stage0
  <1>4. PICK pos : Placed(pos, r, s, Pipe(r, s), Span(r, s), msgs, N, m)
    BY FlowPlaced DEF Live
  <1>5. pos[0] = 2 * Word
    BY <1>4 DEF Placed, Receiver
  <1>6. /\ Stage0(s) \/ Stage1(s) \/ Talks(s)
        /\ Stage0(s) \/ Stage1(s) => s.msgtogo = 0
    BY Waiting
  <1>7. CASE Stage0(s)
    <2>1. Span(r, s) = pos[0] - Word /\ s.msgtogo = 0
      BY <1>4, <1>6, <1>7 DEF Placed, Sender
    <2> QED BY <1>1, <1>2, <1>3, <1>5, <2>1
  <1>8. CASE Stage1(s) \/ Talks(s)
    <2>1. pos[0] <= Span(r, s) - s.msgtogo
      BY <1>4, <1>8 DEF Placed, Sender
    <2> QED BY <1>1, <1>2, <1>3, <1>5, <2>1
  <1> QED BY <1>6, <1>7, <1>8

\* Nor do they wait in the second round.
LEMMA NotSecond ==
    ASSUME NEW r, NEW s, Basic(r), Basic(s), Eager(r), ~r.set_error_recursion,
           ~s.set_error_recursion, s.instate \notin {"none", "ERROR"}, s.stream = <<>>, ~Stage0(s),
           NEW msgs, NEW N, NEW m,
           Flow(r, s, Pipe(r, s), Span(r, s), msgs, N, m)
    PROVE  ~Stage1(r)
  <1> SUFFICES ASSUME Stage1(r) PROVE FALSE
    OBVIOUS
  <1>1. Fit(r) /\ Fit(s) /\ Unread(r) \in Nat /\ s.msgtogo \in Nat /\ Word \in Nat \ {0}
    BY FitCounts, SizeAssumption DEF Basic
  <1>2. Span(r, s) = Unread(r) + s.msgtogo
    BY <1>1, Between
  <1>3. Unread(r) < Word
    BY DEF Eager, Stage1
  <1>4. PICK pos : Placed(pos, r, s, Pipe(r, s), Span(r, s), msgs, N, m)
    BY FlowPlaced DEF Live
  <1>5. pos[0] = Word
    BY <1>4 DEF Placed, Receiver
  <1>6. Stage1(s) \/ Talks(s)
    BY Waiting
  <1>7. pos[0] <= Span(r, s) - s.msgtogo
    BY <1>4, <1>6 DEF Placed, Sender
  <1> QED BY <1>1, <1>2, <1>3, <1>5, <1>7

\* An end that talks and waits has got all that the other has handed to the network.
LEMMA AllArrived ==
    ASSUME NEW r, NEW s, Basic(r), Basic(s), Eager(r), ~r.set_error_recursion, Talks(r),
           r.instate # "HAS_MSG", Talks(s), s.stream = <<>>, s.msgtogo = 0,
           NEW msgs, NEW N \in Nat, Messages(msgs, N), NEW m \in Nat,
           Flow(r, s, Pipe(r, s), Span(r, s), msgs, N, m)
    PROVE  m = N
  <1> SUFFICES ASSUME m # N PROVE FALSE
    OBVIOUS
  <1>1. Fit(r) /\ Fit(s) /\ Unread(r) \in Nat /\ Word \in Nat \ {0} /\ r.inmsglen \in Int
    BY FitCounts, SizeAssumption, ChannelTypes DEF Basic, Fit
  <1> DEFINE n == Span(r, s)
  <1>2. n = Unread(r)
    <2>1. n = Unread(r) + s.msgtogo
      BY <1>1, Between
    <2> QED BY <1>1, <2>1
  <1>3. PICK pos : Placed(pos, r, s, Pipe(r, s), n, msgs, N, m)
    BY FlowPlaced DEF Live
  <1> HIDE DEF n
  <1>4. m <= N /\ n = pos[N]
    BY <1>3 DEF Placed, Receiver, Sender
  <1>5. m + 1 \in 1 .. N /\ m + 1 \in 0 .. N /\ N \in 0 .. N /\ m + 1 <= N /\ (m + 1) - 1 = m
    BY <1>4
  <1> DEFINE size == Size(Agreed(r, s), msgs[m + 1])
  <1>6. size \in Nat \ {0}
    <2>1. msgs[m + 1] \in MsgTypes
      BY <1>5 DEF Messages
    <2> QED BY <2>1, Sizes
  <1>7. pos[m + 1] <= pos[N] /\ pos[m + 1] = pos[m] + Word + size
    <2>1. Marks(pos, n, Agreed(r, s), msgs, N)
      BY <1>3 DEF Placed, Layout
    <2>2. pos[m + 1] <= pos[N]
      BY <1>5, <2>1 DEF Marks
    <2>3. pos[m + 1] = pos[(m + 1) - 1] + Word + size
      BY <1>5, <2>1 DEF Marks
    <2> QED BY <1>5, <2>2, <2>3
  <1> HIDE DEF size
  <1>8. CASE r.instate = "NEED_LEN"
    <2>1. pos[m] = 0 /\ Unread(r) < Word
      BY <1>3, <1>8 DEF Placed, Receiver, Eager
    <2> QED BY <1>1, <1>2, <1>4, <1>6, <1>7, <2>1
  <1>9. CASE r.instate = "FILL_BUF"
    <2>1. pos[m] = -Word /\ r.inmsglen = size /\ Unread(r) < r.inmsglen
      BY <1>3, <1>9 DEF Placed, Receiver, Eager, size
    <2> QED BY <1>1, <1>2, <1>4, <1>6, <1>7, <2>1
  <1> QED BY <1>8, <1>9 DEF Talks

\* Two owners that wait for each other in poll have exchanged their versions, and every
\* message that was handed to the network has come out of get_msg.
THEOREM NothingStalls == Spec => []NoStall
  <1>1. ChannelInv => NoStall
    <2> SUFFICES ASSUME ChannelInv, \A e \in End : ~Busy(e), \A e \in End : ch[e].instate # "ERROR",
                        NEW e \in End
                 PROVE  /\ Talking(e)
                        /\ ch[e].msgtogo = 0 => received[Other(e)] = sent[e]
      BY DEF NoStall
    <2> DEFINE o == Other(e)
               c == ch[e]
               d == ch[o]
    <2>1. /\ o \in End /\ Other(o) = e
          /\ Basic(c) /\ Eager(c) /\ Basic(d) /\ Eager(d)
          /\ sent[e] \in Seq(MsgTypes) /\ sent[o] \in Seq(MsgTypes)
          /\ received[o] \in Seq(MsgTypes) /\ Len(received[o]) \in Nat
      BY AtEnd
    <2>2. /\ Flow(c, d, Pipe(c, d), Span(c, d), sent[o], Len(sent[o]), Len(received[e]))
          /\ Flow(d, c, Pipe(d, c), Span(d, c), sent[e], Len(sent[e]), Len(received[o]))
      BY AtEnd DEF Both, Pair
    <2>3. ASSUME NEW f \in End
          PROVE  /\ ch[f].instate \notin {"none", "ERROR"} /\ ~ch[f].set_error_recursion
                 /\ ch[f].instate # "HAS_MSG" /\ ch[Other(f)].stream = <<>>
      BY DEF Busy, Own, has_msg
    <2>4. /\ c.instate \notin {"none", "ERROR", "HAS_MSG"} /\ ~c.set_error_recursion /\ c.stream = <<>>
          /\ d.instate \notin {"none", "ERROR", "HAS_MSG"} /\ ~d.set_error_recursion /\ d.stream = <<>>
      BY <2>1, <2>3
    <2> HIDE DEF c, d
    <2>5. ~Stage0(c) /\ ~Stage0(d)
      BY <2>1, <2>2, <2>4, NotFirst
    <2>6. ~Stage1(c) /\ ~Stage1(d)
      BY <2>1, <2>2, <2>4, <2>5, NotSecond
    <2>7. Talks(c) /\ Talks(d)
      BY <2>1, <2>4, <2>5, <2>6, Waiting
    <2>8. Talking(e)
      BY <2>7 DEF Talks, Talking, c
    <2>9. ASSUME c.msgtogo = 0
          PROVE  received[o] = sent[e]
      <3> DEFINE N == Len(sent[e])
                 m == Len(received[o])
      <3>1. N \in Nat /\ Messages(sent[e], N) /\ m \in Nat
        BY <2>1, SeqMessages
      <3>2. Flow(d, c, Pipe(d, c), Span(d, c), sent[e], N, m)
        BY <2>2
      <3> HIDE DEF N, m
      <3>3. m = N
        BY <2>1, <2>4, <2>7, <2>9, <3>1, <3>2, AllArrived
      <3>4. PartOf(received[o], sent[e])
        BY <2>1 DEF ChannelInv
      <3>5. Len(received[o]) = Len(sent[e]) /\ \A i \in 1 .. Len(received[o]) : received[o][i] = sent[e][i]
        BY <3>3, <3>4 DEF PartOf, N, m
      <3> QED BY <2>1, <3>5
    <2> QED BY <2>8, <2>9 DEF c
  <1> QED BY <1>1, ChannelAlways, PTL

\* Each direction is a queue: what get_msg delivers is the beginning of what send_msg took,
\* message by message, whatever becomes of the connection.
THEOREM ChannelIsFifo == Spec => Fifo
  <1>1. Init => Queues!Init
    BY DEF Init, Queues!Init
  <1>2. ChannelInv /\ [Next]_vars => [Queues!Next]_<<sent, received>>
    <2> SUFFICES ASSUME ChannelInv, [Next]_vars PROVE [Queues!Next]_<<sent, received>>
      OBVIOUS
    <2>1. CASE UNCHANGED vars
      BY <2>1 DEF vars
    <2>2. CASE Next
      <3>1. PICK e \in End :
               \/ Create(e) \/ Read(e) \/ ReadEof(e) \/ ReadError(e) \/ ProtocolTimeout(e)
               \/ get_msg(e) \/ get_msg_eof(e) \/ SetErrorEnds(e) \/ Close(e)
               \/ \E bulk \in BOOLEAN : send_msg(e, bulk)
        BY <2>2 DEF Next
      <3>2. CASE \/ Create(e) \/ Read(e) \/ ReadEof(e) \/ ReadError(e) \/ ProtocolTimeout(e)
                 \/ get_msg_eof(e) \/ SetErrorEnds(e) \/ Close(e)
        <4>1. UNCHANGED <<sent, received>>
          BY <3>2 DEF Create, Read, ReadEof, ReadError, ProtocolTimeout, get_msg_eof, SetErrorEnds, Close
        <4> QED BY <4>1
      <3>3. CASE get_msg(e)
        <4> DEFINE o == Other(e)
                   m == Len(received[e])
        <4>1. /\ m < Len(sent[o]) /\ sent' = sent
              /\ received' = [received EXCEPT ![e] = Append(@, sent[o][m + 1])]
          BY <3>3, Delivers
        <4>2. m \in Nat /\ Len(sent[o]) \in Nat
          <5>1. sent[o] \in Seq(MsgTypes) /\ m \in Nat
            BY AtEnd
          <5> QED BY <5>1, SeqMessages
        <4>3. m + 1 <= Len(sent[o])
          <5> DEFINE N == Len(sent[o])
          <5>1. m \in Nat /\ N \in Nat /\ m < N
            BY <4>1, <4>2
          <5> HIDE DEF m, N
          <5>2. m + 1 <= N
            BY <5>1
          <5> QED BY <5>2 DEF N
        <4>4. Queues!Receive(e)
          BY <4>1, <4>3 DEF Queues!Receive
        <4> QED BY <4>4 DEF Queues!Next
      <3>4. CASE \E bulk \in BOOLEAN : send_msg(e, bulk)
        <4>1. PICK bulk \in BOOLEAN : send_msg(e, bulk)
          BY <3>4
        <4>2. PICK t \in MsgTypes : sent' = [sent EXCEPT ![e] = Append(@, t)] /\ received' = received
          BY <4>1, Submits
        <4>3. Queues!Send(e)
          BY <4>2 DEF Queues!Send
        <4> QED BY <4>3 DEF Queues!Next
      <3> QED BY <3>1, <3>2, <3>3, <3>4
    <2> QED BY <2>1, <2>2
  <1> QED BY <1>1, <1>2, ChannelAlways, PTL DEF Spec, Fifo, Queues!Spec

\* What is left of a minimal version after one hop.
LEMMA OneHop ==
    ASSUME NEW p \in Int, NEW v \in Nat
    PROVE  /\ MinimalVersionRead(p, v) \in Nat /\ MinimalVersionRead(p, v) <= v
           /\ p >= 34 => MinimalVersionRead(p, v) = v
           /\ p >= 31 /\ v >= 31 => MinimalVersionRead(p, v) >= 31
  BY DEF MinimalVersionRead, MaxOf

\* Whatever protocol two ends agree on: fill_from_channel reads what send_to_channel wrote,
\* a minimal version only ever shrinks on its way and does not where every hop can say it,
\* and only an old daemon takes an exit code of 200 for a job without an id.
THEOREM WireAlwaysAgrees == Spec => []WireAgrees
  <1>1. ChannelInv => WireAgrees
    <2> SUFFICES ASSUME ChannelInv PROVE WireAgrees
      OBVIOUS
    <2>1. \A p \in Possible : p \in Int
      BY DEF Possible
    <2>2. \A p \in Possible, t \in MsgTypes : Writes(p)[t] = Reads(p)[t]
      <3> SUFFICES ASSUME NEW p, NEW t PROVE Writes(p)[t] = Reads(p)[t]
        OBVIOUS
      <3> QED BY WireSame
    <2>3. ASSUME NEW p \in Possible, NEW q \in Possible, NEW v \in 0 .. PROTOCOL_VERSION,
                 NEW f \in 0 .. 1, NEW wanted, wanted = minimal_host_version(v, f),
                 NEW read, read = MinimalVersionRead(q, MinimalVersionRead(p, wanted))
          PROVE  /\ read <= wanted
                 /\ p >= 34 /\ q >= 34 => read = wanted
                 /\ p >= 31 /\ q >= 31 /\ wanted >= 31 => read >= 31
      <3>1. p \in Int /\ q \in Int
        BY <2>1
      <3>2. wanted \in Nat
        <4>1. v \in Nat
          BY DEF PROTOCOL_VERSION
        <4> QED BY <2>3, <4>1 DEF minimal_host_version, MaxOf
      <3> DEFINE first == MinimalVersionRead(p, wanted)
      <3>3. /\ first \in Nat /\ first <= wanted
            /\ p >= 34 => first = wanted
            /\ p >= 31 /\ wanted >= 31 => first >= 31
        BY <3>1, <3>2, OneHop
      <3> HIDE DEF first
      <3>4. /\ read \in Nat /\ read <= first
            /\ q >= 34 => read = first
            /\ q >= 31 /\ first >= 31 => read >= 31
        BY <2>3, <3>1, <3>3, OneHop DEF first
      <3> QED BY <3>1, <3>2, <3>3, <3>4
    <2>4. ASSUME NEW p \in Possible, NEW exitcode \in {0, 1, UNKNOWN_JOB_EXIT}, NEW unknown \in BOOLEAN
          PROVE  UnknownJobIdRead(p, ExitcodeWritten(p, exitcode, unknown), unknown)
                   = (unknown \/ (p < 39 /\ exitcode = UNKNOWN_JOB_EXIT))
      <3>1. CASE unknown
        BY <3>1 DEF UnknownJobIdRead
      <3>2. CASE ~unknown
        <4>1. ExitcodeWritten(p, exitcode, unknown) = exitcode
          BY <3>2 DEF ExitcodeWritten
        <4> QED BY <4>1 DEF UnknownJobIdRead
      <3> QED BY <3>1, <3>2
    <2> QED BY <2>2, <2>3, <2>4 DEF WireAgrees
  <1> QED BY <1>1, ChannelAlways, PTL
=============================================================================

---------------------------- MODULE ParameterSets ----------------------------
(***************************************************************************)
(* The algorithms that work on the bytes of a picture: the encoder takes   *)
(* the H.264 parameter sets out of its first keyframe, and the tablet      *)
(* rewrites them for its decoder.  A job is an input of one of them; a     *)
(* step computes its result.  Bytes are 0..255.                            *)
(***************************************************************************)
EXTENDS Integers, Sequences, FiniteSets, SequencesExt, FiniteSetsExt, Functions

CONSTANT Jobs      \* the inputs considered
VARIABLES job, done, result

-----------------------------------------------------------------------------
(* Parameter sets: bits, escapes, and the rewriting of an SPS.             *)

BitsOf(v, n) == [i \in 1..n |-> (v \div 2^(n - i)) % 2]
ValueOf(bits) == FoldLeft(LAMBDA v, b : 2 * v + b, 0, bits)
Bits(bytes) == FoldLeft(LAMBDA s, b : s \o BitsOf(b, 8), <<>>, bytes)
Bytes(bits) == [i \in 1..(Len(bits) \div 8) |-> ValueOf(SubSeq(bits, 8 * i - 7, 8 * i))]

\* A read: the value, the bits behind it, and whether the bits sufficed.
Fail == [v |-> 0, rest |-> <<>>, ok |-> FALSE]

ReadBits(bits, n) ==
    IF Len(bits) < n THEN Fail
    ELSE [v |-> ValueOf(SubSeq(bits, 1, n)), rest |-> SubSeq(bits, n + 1, Len(bits)), ok |-> TRUE]

ReadUe(bits) ==
    LET zeros == SelectInSeq(bits, LAMBDA b : b = 1) - 1
    IN  IF zeros \notin 0..31 THEN Fail
        ELSE [ReadBits(SubSeq(bits, zeros + 2, Len(bits)), zeros) EXCEPT !.v = 2^zeros - 1 + @]

WidthOf(v) == CHOOSE n \in 1..31 : 2^(n - 1) <= v /\ v < 2^n

WriteUe(v) == LET n == WidthOf(v + 1) IN [i \in 1..(n - 1) |-> 0] \o BitsOf(v + 1, n)

SignedOf(code) == IF code % 2 = 1 THEN (code + 1) \div 2 ELSE -(code \div 2)
CodeOf(v) == IF v <= 0 THEN -2 * v ELSE 2 * v - 1

\* The escape of the byte stream: a third byte after two zeros may not look like a marker.
Escape(rbsp) ==
    FoldLeft(LAMBDA st, b :
        LET stuffed == st.zeros >= 2 /\ b <= 3
        IN  [out |-> st.out \o (IF stuffed THEN <<3, b>> ELSE <<b>>),
             zeros |-> IF b # 0 THEN 0 ELSE IF stuffed THEN 1 ELSE st.zeros + 1],
        [out |-> <<>>, zeros |-> 0], rbsp).out

Unescape(ebsp) ==
    FoldLeft(LAMBDA st, b :
        IF st.zeros >= 2 /\ b = 3 THEN [st EXCEPT !.zeros = 0]
        ELSE [out |-> Append(st.out, b), zeros |-> IF b = 0 THEN st.zeros + 1 ELSE 0],
        [out |-> <<>>, zeros |-> 0], ebsp).out

SetConstraints(byte) ==      \* byte | 0x4C
    ValueOf([i \in 1..8 |-> IF i \in {2, 5, 6} THEN 1 ELSE BitsOf(byte, 8)[i]])

\* The syntax elements: n bits, ue(v), se(v), the constraint flags, num_ref_frames.
U(n) == [kind |-> "u", n |-> n]
Ue == [kind |-> "ue", n |-> 0]
Se == [kind |-> "se", n |-> 0]
Constraints == [kind |-> "constraints", n |-> 8]
RefFrames == [kind |-> "refs", n |-> 0]

Read(e, bits) ==
    CASE e.kind \in {"u", "constraints"} -> ReadBits(bits, e.n)
      [] e.kind = "se" -> [ReadUe(bits) EXCEPT !.v = SignedOf(@)]
      [] OTHER -> ReadUe(bits)

Written(e, v) ==
    CASE e.kind = "u" -> BitsOf(v, e.n)
      [] e.kind = "constraints" -> BitsOf(SetConstraints(v), 8)
      [] OTHER -> WriteUe(CASE e.kind = "se" -> CodeOf(v) [] e.kind = "refs" -> 1 [] OTHER -> v)

\* Elements are copied from the read to the written bits; last is the last value.
Copied(st, e, r) == [in |-> r.rest, out |-> st.out \o Written(e, r.v),
                     ok |-> st.ok /\ r.ok, last |-> r.v]
Copy(st, e) == Copied(st, e, Read(e, st.in))
CopyAll(st, elements) == FoldLeft(Copy, st, elements)
Times(n, e) == [i \in 1..n |-> e]

LowLatencyVui ==
    Times(8, 0) \o <<1, 1>> \o WriteUe(2) \o WriteUe(1) \o WriteUe(16) \o WriteUe(16)
        \o WriteUe(0) \o WriteUe(1)

\* The parts of the set whose syntax depends on the element before them.
CopyCycle(st) == CopyAll(st, Times(st.last, Se))
CopyPoc(st) ==
    CASE st.last = 0 -> CopyAll(st, <<Ue>>)
      [] st.last = 1 -> CopyCycle(CopyAll(st, <<U(1), Se, Se, Ue>>))
      [] OTHER -> [st EXCEPT !.ok = FALSE]
CopyFlags(st) == CopyAll(st, Times(IF st.last = 0 THEN 3 ELSE 2, U(1)))
CopyCrop(st) == CopyAll(st, Times(IF st.last = 1 THEN 4 ELSE 0, Ue))

\* Flush: the new VUI in place of the old one, and the end of the set.
Padded(bits) == Bytes(bits \o Times((-Len(bits)) % 8, 0))
Flush(st) == IF st.ok /\ Read(U(1), st.in).ok
             THEN Padded(st.out \o <<1>> \o LowLatencyVui \o <<1>>) ELSE <<>>

\* sps_rewrite_baseline_rbsp: the bytes, or <<>> when it gives up.
RewriteBaseline(rbsp) ==
    LET start == [in |-> Bits(rbsp), out |-> <<>>, ok |-> TRUE, last |-> 0]
        poc == CopyPoc(CopyAll(start, <<U(8), Constraints, U(8), Ue, Ue, Ue>>))
        crop == CopyCrop(CopyFlags(CopyAll(poc, <<RefFrames, U(1), Ue, Ue, U(1)>>)))
    IN  IF Len(rbsp) < 3 \/ rbsp[1] # 66 THEN <<>> ELSE Flush(crop)

IsSps(nal) == nal # <<>> /\ nal[1] % 32 = 7

\* sps_patch_constraints, the fallback.
PatchConstraints(nal) ==
    IF Len(nal) > 3 /\ IsSps(nal) THEN [nal EXCEPT ![3] = SetConstraints(@)] ELSE nal

(* Mutant: the rewritten set is not escaped again. *)
PatchWithoutEscape(nal, rewritten) ==
    IF Len(nal) < 4 \/ rewritten = <<>> THEN PatchConstraints(nal)
                                        ELSE <<nal[1]>> \o rewritten

\* The end of sps_patch_single_nal.
PutBack(nal, rewritten) ==
    IF Len(nal) < 4 \/ rewritten = <<>> THEN PatchConstraints(nal)
                                        ELSE <<nal[1]>> \o Escape(rewritten)

\* sps_patch_single_nal on a NAL that is an SPS.
PatchSps(nal) == PutBack(nal, RewriteBaseline(Unescape(Tail(nal))))

\* Where a start code is, from index i on, and where its NAL begins; {} if there is none.
StartCodes(data) ==
    {i \in 1..(Len(data) - 3) :
        data[i] = 0 /\ data[i + 1] = 0
            /\ (data[i + 2] = 1 \/ (data[i + 2] = 0 /\ data[i + 3] = 1))}

FirstCode(data, from) ==
    LET found == {i \in StartCodes(data) : i >= from}
    IN  IF found = {} THEN 0 ELSE Min(found)

NalStart(data, code) == code + (IF data[code + 2] = 1 THEN 3 ELSE 4)

PatchNal(lowLatency, nal) ==
    IF ~IsSps(nal) THEN nal ELSE IF lowLatency THEN PatchSps(nal) ELSE PatchConstraints(nal)

\* The NALs behind the start codes from index i on, each patched in its place.
RECURSIVE PatchFrom(_, _, _)
PatchRest(lowLatency, data, nal, next) ==
    LET front == SubSeq(data, 1, nal - 1)
    IN  IF next = 0 THEN front \o PatchNal(lowLatency, SubSeq(data, nal, Len(data)))
        ELSE LET patched == front \o PatchNal(lowLatency, SubSeq(data, nal, next - 1))
             IN  PatchFrom(lowLatency, patched \o SubSeq(data, next, Len(data)), Len(patched) + 1)
PatchFrom(lowLatency, data, from) ==
    LET code == FirstCode(data, from)
        nal == NalStart(data, code)
    IN  IF code = 0 THEN data ELSE PatchRest(lowLatency, data, nal, FirstCode(data, nal))

\* sps_patch_h264_low_latency, or sps_patch_h264_constraints_only for some decoders.
PatchConfig(lowLatency, data) ==
    IF FirstCode(data, 1) = 0 THEN PatchNal(lowLatency, data)
                              ELSE PatchFrom(lowLatency, data, 1)

-----------------------------------------------------------------------------
(* The encoder's parameter sets: they go first, in a packet of their own.  *)

\* The start codes emit_config stops at, from index i on: up to the first slice.
RECURSIVE Scan(_, _)
Scan(data, from) ==
    LET code == FirstCode(data, from)
        header == NalStart(data, code)
        nal == [at |-> code, type |-> data[header] % 32]
    IN  IF code = 0 \/ header > Len(data) THEN <<>>
        ELSE IF nal.type \in 1..5 THEN <<nal>>
        ELSE <<nal>> \o Scan(data, header + 1)

\* emit_config on a keyframe, which always has a slice: the bytes, or <<>>.
ConfigOf(data) ==
    LET nals == Scan(data, 1)
        At(type) == {nals[i].at : i \in {j \in DOMAIN nals : nals[j].type = type}}
    IN  IF At(7) = {} \/ At(8) = {} THEN <<>>
        ELSE SubSeq(data, Min(At(7)), Last(nals).at - 1)

Packet(config, bytes) == [config |-> config, bytes |-> bytes]

\* FFmpegEncoder::encode on the packets of the codec; sent is config_sent_.
Encode(packets) ==
    LET Emit(s, p) ==
            LET config == IF p.key /\ ~s.sent THEN ConfigOf(p.bytes) ELSE <<>>
            IN  [sent |-> s.sent \/ config # <<>>,
                 out |-> s.out \o (IF config = <<>> THEN <<>> ELSE <<Packet(TRUE, config)>>)
                              \o <<Packet(FALSE, p.bytes)>>]
    IN  FoldLeft(Emit, [sent |-> FALSE, out |-> <<>>], packets).out

-----------------------------------------------------------------------------
(* Jobs: a byte sequence to escape, a stream with parameter sets, and what *)
(* a codec returns.                                                        *)

Flatten(nals) == FoldLeft(LAMBDA s, n : s \o (IF n.long THEN <<0, 0, 0, 1>> ELSE <<0, 0, 1>>)
                                            \o n.bytes, <<>>, nals)

Result ==
    CASE job.kind = "escape" -> Escape(job.input)
      [] job.kind = "stream" -> PatchConfig(job.lowLatency, Flatten(job.input))
      [] job.kind = "encoder" ->
            Encode([i \in DOMAIN job.input |-> [key |-> job.input[i].key,
                                                bytes |-> Flatten(job.input[i].nals)]])

Init == job \in Jobs /\ done = FALSE /\ result = <<>>
Compute == ~done /\ done' = TRUE /\ result' = Result /\ UNCHANGED job
Next == Compute
Spec == Init /\ [][Next]_<<job, done, result>>

Done(kind) == done /\ job.kind = kind

-----------------------------------------------------------------------------
(* Properties.                                                             *)

(* Reference: the bits of an H.264 sequence parameter set of Baseline, as  *)
(* the standard orders its elements.                                       *)
SpsRbsp(s) ==
    LET bits == BitsOf(s.profile, 8) \o BitsOf(s.constraints, 8) \o BitsOf(s.level, 8)
            \o WriteUe(s.id) \o WriteUe(s.frameNum) \o WriteUe(s.pocType)
            \o (CASE s.pocType = 0 -> WriteUe(s.pocLsb)
                  [] s.pocType = 1 -> <<1>> \o WriteUe(CodeOf(-3)) \o WriteUe(CodeOf(2))
                        \o WriteUe(Len(s.cycle))
                        \o FoldLeft(LAMBDA b, v : b \o WriteUe(CodeOf(v)), <<>>, s.cycle)
                  [] OTHER -> <<>>)
            \o WriteUe(s.refs) \o <<0>> \o WriteUe(s.width) \o WriteUe(s.height)
            \o (IF s.progressive THEN <<1>> ELSE <<0, 1>>) \o <<1>>
            \o (IF s.crop = <<>> THEN <<0>>
                ELSE <<1>> \o FoldLeft(LAMBDA b, v : b \o WriteUe(v), <<>>, s.crop))
            \o (IF s.vui = <<>> THEN <<0>> ELSE <<1>> \o s.vui) \o <<1>>
    IN  Padded(bits)

SpsNal(s) == <<103>> \o Escape(SpsRbsp(s))
LowLatencySps(s) == [s EXCEPT !.constraints = SetConstraints(@), !.refs = 1,
                              !.vui = LowLatencyVui]

(* In the stream the decoder gets, every set the rewriter handles is the   *)
(* same set with one reference picture and no reordering, every other set  *)
(* has its constraint flags set, every other NAL is as it was and stands   *)
(* where it stood, and handing the stream in again changes nothing.  An    *)
(* escaped sequence contains no start code and unescapes to itself.  And   *)
(* the encoder's output is its codec's, with one packet more: the sets, no *)
(* slice, before the first keyframe that has both kinds.                   *)
StreamStaysDecodable ==
    /\ Done("escape") =>
        /\ Unescape(result) = job.input
        /\ \A i \in 1..(Len(result) - 2) :
              ~(result[i] = 0 /\ result[i + 1] = 0 /\ result[i + 2] < 3)
    /\ Done("stream") =>
        LET Handled(s) == job.lowLatency /\ s.profile = 66 /\ s.pocType \in {0, 1}
            Expected(n) == IF n.sps = <<>> THEN n.bytes
                         ELSE IF Handled(n.sps[1]) THEN SpsNal(LowLatencySps(n.sps[1]))
                         ELSE PatchConstraints(n.bytes)
        IN  /\ result = Flatten([i \in DOMAIN job.input |->
                                    [long |-> job.input[i].long, bytes |-> Expected(job.input[i])]])
            /\ PatchConfig(job.lowLatency, result) = result
    /\ Done("encoder") =>
        LET Type(n) == n.bytes[1] % 32
            Of(nals, types) == SelectSeq(nals, LAMBDA n : Type(n) \in types)
            Complete(p) == p.key /\ \A t \in {7, 8} : Of(p.nals, {t}) # <<>>
            pictures == [i \in DOMAIN job.input |-> Packet(FALSE, Flatten(job.input[i].nals))]
            first == SelectInSeq(job.input, Complete)
            sets == Packet(TRUE, Flatten(Of(job.input[first].nals, {6, 7, 8})))
        IN  result = IF first = 0 THEN pictures ELSE InsertAt(pictures, first, sets)

=============================================================================

----------------------------- MODULE MCWireCodec -----------------------------
EXTENDS ParameterSets, WireMessages, MCCoordinates

\* Arguments of which one takes a boundary value and the others tell themselves apart.
Extremes(width) == CASE width = 1 -> {0, 255} [] width = 2 -> {0, 255, 256, 65535}
                     [] OTHER -> {0, 65535, 65536, 16777217, 2147483647}
Usual(fields) == [f \in DOMAIN fields |-> fields[f].at + 1]
Variants(fields) ==
    UNION {{[Usual(fields) EXCEPT ![f] = v] :
                v \in Extremes(fields[f].width) \cup IF f = "button_id" THEN {-1, 256} ELSE {}} :
               f \in DOMAIN fields}

Volume == [type |-> 68, flags |-> 0, body |-> Usual(VolumeState.fields)]
FixedScripts ==
    UNION {{<<[type |-> t, flags |-> 0, body |-> m], Volume>> :
               m \in Variants(LayoutOf[t].fields)} : t \in DOMAIN LayoutOf}

Nals == {<<>>, <<0, 0, 0, 1, 101, 7>>, [i \in 1..60 |-> IF i = 4 THEN 1 ELSE i % 3]}
VideoScripts ==
    {<<[type |-> VideoFrame, flags |-> Len(n) % 4, body |-> [telemetry |-> t, nal |-> n]], Volume>> :
        n \in Nals, t \in Variants([f \in Measures |-> Telemetry.fields[f]])}

PlainScripts ==
    {<<[type |-> t, flags |-> 0, body |-> b], Volume, [type |-> t, flags |-> 0, body |-> b]>> :
        t \in Plain, b \in {<<>>, <<4>>, <<123, 125>>}}

\* The second message is too long for the other end, which stops there.
LongScript == <<Volume, [type |-> 64, flags |-> 0, body |-> [i \in 1..117 |-> i]], Volume>>

MCScripts == {<<Volume>>, LongScript} \cup FixedScripts \cup VideoScripts \cup PlainScripts

EscapeJobs == {[kind |-> "escape", input |-> b] :
                  b \in UNION {[1..n -> {0, 1, 3, 4}] : n \in 1..5}}

Sets == [profile : {66, 100}, constraints : {0, 192}, level : {30}, id : {0, 2},
         frameNum : {4}, pocType : {0}, pocLsb : {0, 5}, cycle : {<<>>}, refs : {1, 4},
         width : {119, 65535}, height : {67, 255}, progressive : BOOLEAN,
         crop : {<<>>, <<0, 0, 0, 4>>}, vui : {<<>>, <<0, 0, 1, 0, 1>>}]
        \cup [profile : {66}, constraints : {64}, level : {30}, id : {0}, frameNum : {4},
              pocType : {1, 2}, pocLsb : {0}, cycle : {<<>>, <<-1, 3>>}, refs : {1},
              width : {119, 65535}, height : {67}, progressive : {TRUE}, crop : {<<>>},
              vui : {<<>>}]

SpsOf(s, l) == [long |-> l, sps |-> <<s>>, bytes |-> SpsNal(s)]
Other(b) == [long |-> FALSE, sps |-> <<>>, bytes |-> b]
Pps == Other(<<104, 206, 60, 128>>)
Idr == Other(<<101, 136, 132, 0, 3>>)

StreamJobs ==
    {[kind |-> "stream", lowLatency |-> l, input |-> <<SpsOf(s, long), Pps>>] :
        l \in {TRUE}, long \in BOOLEAN, s \in Sets}
    \cup {[kind |-> "stream", lowLatency |-> l, input |-> <<Pps, SpsOf(s, FALSE), Idr, SpsOf(s, TRUE)>>] :
        l \in BOOLEAN, s \in {x \in Sets : x.pocType # 0 \/ (x.refs = 4 /\ x.pocLsb = 5 /\ x.id = 0)}}

\* Nvidia's, Intel's and AMD's orders of a keyframe, some with a set missing, and a picture.
Aud == Other(<<9, 240>>)
Sei == Other(<<6, 5, 1, 0, 128>>)
Sps == [Other(<<103, 66, 0, 30>>) EXCEPT !.long = TRUE]
Slice == Other(<<65, 154, 2, 4>>)
KeyFrames == {[key |-> TRUE, nals |-> n] :
    n \in {<<Aud, Sps, Pps, Sei, Idr>>, <<Aud, Sps, Pps, Idr>>, <<Sps, Pps, Sei, Idr, Idr>>,
           <<Sps, Idr>>, <<Pps, Idr>>, <<Idr>>}}
EncoderJobs ==
    {[kind |-> "encoder", input |-> i] :
        i \in SeqOf(KeyFrames \cup {[key |-> FALSE, nals |-> <<Slice>>]}, 3)}

MCJobs == EscapeJobs \cup StreamJobs \cup EncoderJobs

\* These share nothing: a behaviour computes a job, carries messages or moves a pointer.
AnyJob == [kind |-> "escape", input |-> <<0>>]
AnyScript == <<Volume>>
jobVars == <<job, done, result>>
MCInit ==
    \/ script = AnyScript /\ StreamInit /\ MCRest /\ Init
    \/ job = AnyJob /\ Init /\ MCRest /\ StreamInit
    \/ job = AnyJob /\ script = AnyScript /\ Init /\ StreamInit /\ PointInit
MCNext ==
    \/ script = AnyScript /\ Next /\ UNCHANGED <<streamVars, pointVars>>
    \/ job = AnyJob /\ StreamNext /\ UNCHANGED <<jobVars, pointVars>>
    \/ job = AnyJob /\ script = AnyScript /\ Point /\ UNCHANGED <<jobVars, streamVars>>
MCSpec == MCInit /\ [][MCNext]_<<jobVars, streamVars, pointVars>>
=============================================================================

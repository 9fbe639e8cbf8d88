----------------------------- MODULE MuxerProofs -----------------------------
(***************************************************************************)
(* The muxer, proved for all rates, frame sizes, durations and encoder     *)
(* delays.                                                                 *)
(***************************************************************************)
EXTENDS Muxer, TLAPS

\* Frames, samples and packets: what was generated is in the file or in the
\* encoder, and the time stamps follow the generator.
CountInv ==
    /\ written["video"] + held["video"] = next_pts["video"]
    /\ (written["audio"] + held["audio"]) * NbSamples = next_pts["audio"]
    /\ samples_count = next_pts["audio"]

\* How far each generator goes.
LimitInv ==
    /\ next_pts["video"] <= Duration * VideoRate
    /\ next_pts["audio"] < Duration * SampleRate + NbSamples

\* A stream that has ended is complete, and nothing is left in its encoder; one
\* that does not exist has nothing.
EndInv ==
    /\ pc = "add" => \A s \in Streams : stream[s] = "none"
    /\ pc \in {"add", "open"} => \A s \in Streams : next_pts[s] = 0 /\ held[s] = 0
    /\ pc = "open" => \A s \in Streams : encode[s] <=> stream[s] # "none"
    /\ pc \in {"loop", "close", "done"} => \A s \in Streams :
          ~encode[s] /\ stream[s] # "none" =>
             /\ held[s] = 0
             /\ s = "video" => next_pts[s] >= Duration * VideoRate
             /\ s = "audio" => next_pts[s] >= Duration * SampleRate
    /\ pc \in {"close", "done"} => \A s \in Streams : ~encode[s]

\* A stream without codec stays empty.
NoneInv == \A s \in Streams :
    stream[s] = "none" /\ pc # "failed" => next_pts[s] = 0 /\ held[s] = 0
                                           /\ (pc # "add" => ~encode[s])

\* The inductive invariant.
IndInv ==
    /\ TypeOK /\ CountInv /\ LimitInv /\ EndInv /\ NoneInv
    /\ InterleavedClosely

-----------------------------------------------------------------------------
(* Arithmetic. *)

\* Products of naturals.
LEMMA Products ==
  ASSUME NEW a \in Nat, NEW b \in Nat, NEW c \in Nat
  PROVE  /\ a * b \in Nat
         /\ (a + b) * c = a * c + b * c
         /\ (a + 1) * c = a * c + c
         /\ 0 * c = 0
  OBVIOUS

\* Time limits are naturals.
LEMMA Limits ==
    /\ Duration * VideoRate \in Nat /\ Duration * SampleRate \in Nat
    /\ NbSamples * VideoRate \in Nat
    /\ Duration * VideoRate >= 0 /\ Duration * SampleRate + NbSamples > 0
  BY MuxerAssumption, Products

-----------------------------------------------------------------------------
\* At the start there is no stream.
LEMMA InitInv == Init => IndInv
<1> SUFFICES ASSUME Init PROVE IndInv
  OBVIOUS
<1> USE MuxerAssumption DEF Init, Streams
<1>1. TypeOK
  BY DEF TypeOK, Stages
<1>2. CountInv /\ LimitInv
  BY Limits, Products DEF CountInv, LimitInv
<1>3. EndInv /\ NoneInv /\ InterleavedClosely
  BY DEF EndInv, NoneInv, InterleavedClosely
<1> QED BY <1>1, <1>2, <1>3 DEF IndInv

\* Set-up, the trailer and the end do not touch the counters.
LEMMA OtherInv ==
  ASSUME IndInv, \/ add_stream \/ WriteHeader \/ WriteTrailer \/ Return \/ Fail
                 \/ \E s \in Streams : open_stream(s) \/ close_stream(s)
  PROVE  IndInv'
<1> USE DEF IndInv, coding, Streams
<1>1. /\ UNCHANGED <<next_pts, samples_count, held, written>>
      /\ \/ add_stream
         \/ encode' = encode
  BY DEF add_stream, WriteHeader, WriteTrailer, Return, Fail, open_stream, close_stream
<1>2. TypeOK'
  <2>1. pc' \in Stages
    BY DEF TypeOK, Stages, add_stream, WriteHeader, WriteTrailer, Return, Fail, open_stream,
           close_stream
  <2>2. /\ stream' \in [Streams -> {"none", "added", "open", "closed"}]
        /\ encode' \in [Streams -> BOOLEAN]
    <3>1. CASE add_stream
      <4>1. PICK has \in SUBSET Streams :
               /\ stream' = [s \in Streams |-> IF s \in has THEN "added" ELSE "none"]
               /\ encode' = [s \in Streams |-> s \in has]
        BY <3>1 DEF add_stream
      <4>2. \A s \in Streams : (IF s \in has THEN "added" ELSE "none")
                                 \in {"none", "added", "open", "closed"}
        OBVIOUS
      <4>3. \A s \in Streams : (s \in has) \in BOOLEAN
        OBVIOUS
      <4>4. stream' \in [Streams -> {"none", "added", "open", "closed"}]
        BY <4>1, <4>2
      <4>5. encode' \in [Streams -> BOOLEAN]
        BY <4>1, <4>3
      <4> QED BY <4>4, <4>5
    <3>2. CASE ~add_stream
      BY <1>1, <3>2 DEF TypeOK, WriteHeader, WriteTrailer, Return, Fail, open_stream,
                        close_stream
    <3> QED BY <3>1, <3>2
  <2> QED BY <1>1, <2>1, <2>2 DEF TypeOK
<1>3. CountInv' /\ LimitInv'
  BY <1>1 DEF CountInv, LimitInv
<1>4. EndInv'
  <2>1. CASE add_stream
    <3>1. PICK has \in SUBSET Streams :
             /\ stream' = [s \in Streams |-> IF s \in has THEN "added" ELSE "none"]
             /\ encode' = [s \in Streams |-> s \in has]
      BY <2>1 DEF add_stream
    <3>2. \A s \in Streams : encode'[s] <=> s \in has
      BY <3>1, Zenon
    <3>3. \A s \in Streams : stream'[s] # "none" <=> s \in has
      BY <3>1
    <3>4. \A s \in Streams : encode'[s] <=> stream'[s] # "none"
      BY <3>2, <3>3, Zenon
    <3>5. pc = "add" /\ pc' = "open" /\ next_pts' = next_pts /\ held' = held
      BY <2>1 DEF add_stream
    <3> QED BY <3>4, <3>5 DEF EndInv
  <2>2. CASE WriteHeader \/ WriteTrailer
    BY <2>2 DEF EndInv, NoneInv, TypeOK, WriteHeader, WriteTrailer
  <2>3. CASE Return \/ Fail
    BY <2>3 DEF EndInv, NoneInv, TypeOK, Return, Fail
  <2>4. CASE \E s \in Streams : open_stream(s)
    BY <2>4 DEF EndInv, NoneInv, TypeOK, open_stream
  <2>5. CASE \E s \in Streams : close_stream(s)
    BY <2>5 DEF EndInv, NoneInv, TypeOK, close_stream
  <2> QED BY <2>1, <2>2, <2>3, <2>4, <2>5
<1>5. NoneInv'
  <2>1. CASE add_stream
    <3>1. /\ pc = "add" /\ pc' = "open" /\ next_pts' = next_pts /\ held' = held
          /\ \A s \in Streams : next_pts[s] = 0 /\ held[s] = 0
      BY <2>1 DEF add_stream, EndInv
    <3>2. \A s \in Streams : encode'[s] <=> stream'[s] # "none"
      BY <1>4, <3>1 DEF EndInv
    <3> QED BY <3>1, <3>2 DEF NoneInv
  <2>2. CASE WriteHeader \/ WriteTrailer
    BY <2>2, SMTT(30) DEF EndInv, NoneInv, TypeOK, WriteHeader, WriteTrailer
  <2>3. CASE Return \/ Fail
    BY <2>3, SMTT(30) DEF EndInv, NoneInv, TypeOK, Return, Fail
  <2>4. CASE \E s \in Streams : open_stream(s)
    BY <2>4, SMTT(30) DEF EndInv, NoneInv, TypeOK, open_stream
  <2>5. CASE \E s \in Streams : close_stream(s)
    BY <2>5, SMTT(30) DEF EndInv, NoneInv, TypeOK, close_stream
  <2> QED BY <2>1, <2>2, <2>3, <2>4, <2>5
<1>6. InterleavedClosely'
  <2>1. CASE add_stream
    <3>1. next_pts["video"] = 0 /\ next_pts["audio"] = 0 /\ samples_count = 0
      BY <2>1 DEF add_stream, EndInv, CountInv
    <3> QED BY <1>1, <3>1, MuxerAssumption, Products DEF InterleavedClosely
  <2>2. CASE encode' = encode
    BY <1>1, <2>2 DEF InterleavedClosely
  <2> QED BY <1>1, <2>1, <2>2
<1> QED BY <1>2, <1>3, <1>4, <1>5, <1>6

\* What the encoder does to its stream.
LEMMA EncodeEffect ==
  ASSUME TypeOK, NEW s \in Streams, NEW frame \in BOOLEAN, Encode(s, frame)
  PROVE  /\ held' \in [Streams -> Nat] /\ written' \in [Streams -> Nat]
         /\ encode' \in [Streams -> BOOLEAN]
         /\ \A r \in Streams \ {s} :
               held'[r] = held[r] /\ written'[r] = written[r] /\ encode'[r] = encode[r]
         /\ written'[s] + held'[s] = written[s] + held[s] + (IF frame THEN 1 ELSE 0)
         /\ ~encode'[s] => ~frame /\ held'[s] = 0
<1>1. PICK got \in BOOLEAN :
        LET in == IF frame THEN held[s] + 1 ELSE held[s]
        IN  /\ got => in > 0
            /\ ~got => (frame /\ in <= MaxDelay) \/ in = 0
            /\ held' = [held EXCEPT ![s] = IF got THEN in - 1 ELSE in]
            /\ written' = [written EXCEPT ![s] = IF got THEN @ + 1 ELSE @]
            /\ encode' = [encode EXCEPT ![s] = frame \/ got]
  BY DEF Encode
<1> DEFINE in == IF frame THEN held[s] + 1 ELSE held[s]
<1>2. held[s] \in Nat /\ written[s] \in Nat /\ in \in Nat
  BY DEF TypeOK
<1>3. held' \in [Streams -> Nat] /\ written' \in [Streams -> Nat]
  BY <1>1, <1>2 DEF TypeOK
<1>4. encode' \in [Streams -> BOOLEAN]
  BY <1>1 DEF TypeOK
<1>5. \A r \in Streams \ {s} :
         held'[r] = held[r] /\ written'[r] = written[r] /\ encode'[r] = encode[r]
  BY <1>1 DEF TypeOK
<1>6. /\ held'[s] = IF got THEN in - 1 ELSE in
      /\ written'[s] = IF got THEN written[s] + 1 ELSE written[s]
      /\ encode'[s] = (frame \/ got)
  BY <1>1 DEF TypeOK
<1>7. written'[s] + held'[s] = written[s] + held[s] + (IF frame THEN 1 ELSE 0)
  BY <1>1, <1>2, <1>6
<1>8. ~encode'[s] => ~frame /\ held'[s] = 0
  BY <1>1, <1>2, <1>6
<1> QED BY <1>3, <1>4, <1>5, <1>7, <1>8

-----------------------------------------------------------------------------
\* A picture, or a packet of the video encoder.
LEMMA WriteVideoInv == IndInv /\ write_video_frame => IndInv'
<1> SUFFICES ASSUME IndInv, write_video_frame PROVE IndInv'
  OBVIOUS
<1> DEFINE v == next_pts["video"]
           a == next_pts["audio"]
<1>1. TypeOK /\ CountInv /\ LimitInv /\ EndInv /\ NoneInv /\ InterleavedClosely
  BY DEF IndInv
<1>2. /\ pc = "loop" /\ VideoNext /\ Encode("video", VideoFrame)
      /\ pc' = pc /\ stream' = stream /\ samples_count' = samples_count
  BY DEF write_video_frame
<1>3. VideoFrame \in BOOLEAN /\ "video" \in Streams /\ "audio" \in Streams
  BY DEF VideoFrame, Streams
<1>4. /\ held' \in [Streams -> Nat] /\ written' \in [Streams -> Nat]
      /\ encode' \in [Streams -> BOOLEAN]
      /\ \A r \in Streams \ {"video"} :
            held'[r] = held[r] /\ written'[r] = written[r] /\ encode'[r] = encode[r]
      /\ written'["video"] + held'["video"]
            = written["video"] + held["video"] + (IF VideoFrame THEN 1 ELSE 0)
      /\ ~encode'["video"] => ~VideoFrame /\ held'["video"] = 0
  BY <1>1, <1>2, <1>3, EncodeEffect
<1>5. v \in Nat /\ a \in Nat /\ samples_count \in Nat
  BY <1>1, <1>3 DEF TypeOK
<1>6. /\ next_pts' \in [Streams -> Nat]
      /\ next_pts'["video"] = IF VideoFrame THEN v + 1 ELSE v
      /\ next_pts'["audio"] = a
  <2>1. next_pts' = [next_pts EXCEPT !["video"] = IF VideoFrame THEN @ + 1 ELSE @]
    BY DEF write_video_frame
  <2> QED BY <2>1, <1>1, <1>3, <1>5 DEF TypeOK
<1>7. TypeOK'
  BY <1>1, <1>2, <1>4, <1>6 DEF TypeOK
<1>8. CountInv'
  <2>1. written'["video"] + held'["video"] = next_pts'["video"]
    BY <1>1, <1>4, <1>5, <1>6 DEF CountInv
  <2>2. written'["audio"] = written["audio"] /\ held'["audio"] = held["audio"]
    BY <1>4 DEF Streams
  <2> QED BY <1>1, <1>2, <1>6, <2>1, <2>2 DEF CountInv
<1>9. LimitInv'
  BY <1>1, <1>5, <1>6, Limits DEF LimitInv, VideoFrame
<1>10. EndInv'
  <2>1. ~encode'["video"] => held'["video"] = 0 /\ next_pts'["video"] >= Duration * VideoRate
    BY <1>4, <1>5, <1>6, Limits DEF VideoFrame
  <2>2. /\ encode'["audio"] = encode["audio"] /\ held'["audio"] = held["audio"]
        /\ next_pts'["audio"] = next_pts["audio"]
    BY <1>4, <1>6 DEF Streams
  <2> QED BY <1>1, <1>2, <2>1, <2>2 DEF EndInv, Streams
<1>11. stream["video"] # "none"
  BY <1>1, <1>2, <1>3 DEF NoneInv, VideoNext
<1>12. NoneInv'
  BY <1>1, <1>2, <1>4, <1>6, <1>11 DEF NoneInv, Streams
<1>13. InterleavedClosely'
  <2> SUFFICES ASSUME encode'["video"], encode'["audio"]
               PROVE  /\ next_pts'["video"] * SampleRate
                            <= samples_count * VideoRate + SampleRate
                      /\ \/ samples_count * VideoRate
                               < next_pts'["video"] * SampleRate + NbSamples * VideoRate
                         \/ samples_count = 0
    BY <1>2 DEF InterleavedClosely
  <2>1. encode["audio"] /\ encode["video"]
    BY <1>2, <1>4 DEF Streams, VideoNext
  <2>2. v * SampleRate <= samples_count * VideoRate
    BY <1>1, <1>2, <2>1 DEF VideoNext, CountInv
  <2>3. \/ samples_count * VideoRate < v * SampleRate + NbSamples * VideoRate
        \/ samples_count = 0
    BY <1>1, <2>1 DEF InterleavedClosely
  <2>4. PICK sv \in Nat, sa \in Nat, n \in Nat :
           sv = v * SampleRate /\ sa = samples_count * VideoRate /\ n = NbSamples * VideoRate
    BY <1>5, MuxerAssumption, Products
  <2>5. (v + 1) * SampleRate = sv + SampleRate
    BY <1>5, <2>4, MuxerAssumption, Products
  <2>6. next_pts'["video"] * SampleRate \in {sv, sv + SampleRate}
    BY <1>6, <2>4, <2>5
  <2>7. SampleRate \in Nat
    BY MuxerAssumption
  <2> HIDE DEF v, a
  <2> QED BY <2>2, <2>3, <2>4, <2>6, <2>7
<1> QED BY <1>7, <1>8, <1>9, <1>10, <1>12, <1>13 DEF IndInv

\* An audio frame, or a packet of the audio encoder.
LEMMA WriteAudioInv == IndInv /\ write_audio_frame => IndInv'
<1> SUFFICES ASSUME IndInv, write_audio_frame PROVE IndInv'
  OBVIOUS
<1> DEFINE v == next_pts["video"]
           a == next_pts["audio"]
<1>1. TypeOK /\ CountInv /\ LimitInv /\ EndInv /\ NoneInv /\ InterleavedClosely
  BY DEF IndInv
<1>2. /\ pc = "loop" /\ encode["audio"] /\ ~VideoNext /\ Encode("audio", AudioFrame)
      /\ pc' = pc /\ stream' = stream
      /\ samples_count' = IF AudioFrame THEN samples_count + NbSamples ELSE samples_count
  BY DEF write_audio_frame, dst_nb_samples
<1>3. AudioFrame \in BOOLEAN /\ "video" \in Streams /\ "audio" \in Streams
  BY DEF AudioFrame, Streams
<1>4. /\ held' \in [Streams -> Nat] /\ written' \in [Streams -> Nat]
      /\ encode' \in [Streams -> BOOLEAN]
      /\ \A r \in Streams \ {"audio"} :
            held'[r] = held[r] /\ written'[r] = written[r] /\ encode'[r] = encode[r]
      /\ written'["audio"] + held'["audio"]
            = written["audio"] + held["audio"] + (IF AudioFrame THEN 1 ELSE 0)
      /\ ~encode'["audio"] => ~AudioFrame /\ held'["audio"] = 0
  BY <1>1, <1>2, <1>3, EncodeEffect
<1>5. /\ v \in Nat /\ a \in Nat /\ samples_count \in Nat
      /\ written["audio"] \in Nat /\ held["audio"] \in Nat
      /\ NbSamples \in Nat \ {0} /\ SampleRate \in Nat /\ VideoRate \in Nat
  BY <1>1, <1>3, MuxerAssumption DEF TypeOK
<1>6. /\ next_pts' \in [Streams -> Nat]
      /\ next_pts'["audio"] = IF AudioFrame THEN a + NbSamples ELSE a
      /\ next_pts'["video"] = v
  <2>1. next_pts' = [next_pts EXCEPT !["audio"] = IF AudioFrame THEN @ + NbSamples ELSE @]
    BY DEF write_audio_frame
  <2> QED BY <2>1, <1>1, <1>3, <1>5 DEF TypeOK
<1>7. TypeOK'
  BY <1>1, <1>2, <1>4, <1>5, <1>6 DEF TypeOK
<1>8. CountInv'
  <2>1. PICK k \in Nat : k = written["audio"] + held["audio"]
    BY <1>5
  <2>2. k * NbSamples = a /\ (k + 1) * NbSamples = k * NbSamples + NbSamples
    BY <1>1, <1>5, <2>1, Products DEF CountInv
  <2>3. written'["audio"] + held'["audio"] = IF AudioFrame THEN k + 1 ELSE k
    BY <1>4, <2>1
  <2>4. (written'["audio"] + held'["audio"]) * NbSamples = next_pts'["audio"]
    BY <1>6, <2>2, <2>3
  <2>5. samples_count' = next_pts'["audio"]
    BY <1>1, <1>2, <1>6 DEF CountInv
  <2>6. written'["video"] = written["video"] /\ held'["video"] = held["video"]
    BY <1>4 DEF Streams
  <2> QED BY <1>1, <1>6, <2>4, <2>5, <2>6 DEF CountInv
<1>9. LimitInv'
  BY <1>1, <1>5, <1>6, Limits DEF LimitInv, AudioFrame
<1>10. EndInv'
  <2>1. ~encode'["audio"] => held'["audio"] = 0 /\ next_pts'["audio"] >= Duration * SampleRate
    BY <1>4, <1>5, <1>6, Limits DEF AudioFrame
  <2>2. /\ encode'["video"] = encode["video"] /\ held'["video"] = held["video"]
        /\ next_pts'["video"] = next_pts["video"]
    BY <1>4, <1>6 DEF Streams
  <2> QED BY <1>1, <1>2, <2>1, <2>2 DEF EndInv, Streams
<1>11. stream["audio"] # "none"
  BY <1>1, <1>2, <1>3 DEF NoneInv
<1>12. NoneInv'
  BY <1>1, <1>2, <1>4, <1>6, <1>11 DEF NoneInv, Streams
<1>13. InterleavedClosely'
  <2> SUFFICES ASSUME encode'["video"], encode'["audio"]
               PROVE  /\ next_pts'["video"] * SampleRate
                            <= samples_count' * VideoRate + SampleRate
                      /\ \/ samples_count' * VideoRate
                               < next_pts'["video"] * SampleRate + NbSamples * VideoRate
                         \/ samples_count' = 0
    BY DEF InterleavedClosely
  <2>1. encode["video"]
    BY <1>4 DEF Streams
  <2>2. PICK sv \in Nat, sa \in Nat, n \in Nat :
           sv = v * SampleRate /\ sa = samples_count * VideoRate /\ n = NbSamples * VideoRate
    BY <1>5, Products
  <2>3. (samples_count + NbSamples) * VideoRate = sa + n
    BY <1>5, <2>2, Products
  <2>4. samples_count' * VideoRate \in {sa, sa + n}
    BY <1>2, <2>2, <2>3
  <2>5. sa < sv
    BY <1>1, <1>2, <2>1, <2>2 DEF VideoNext, CountInv
  <2>6. sv <= sa + SampleRate
    BY <1>1, <1>2, <2>1, <2>2 DEF InterleavedClosely
  <2>7. next_pts'["video"] * SampleRate = sv
    BY <1>6, <2>2
  <2>8. SampleRate \in Nat
    BY <1>5
  <2> HIDE DEF v, a
  <2>9. samples_count' * VideoRate < sv + n /\ sv <= samples_count' * VideoRate + SampleRate
    BY <2>2, <2>4, <2>5, <2>6, <2>8
  <2> QED BY <2>2, <2>7, <2>9
<1> QED BY <1>7, <1>8, <1>9, <1>10, <1>12, <1>13 DEF IndInv

\* Every step of main preserves the invariant.
LEMMA StepInv == IndInv /\ [Next]_vars => IndInv'
<1> SUFFICES ASSUME IndInv, [Next]_vars PROVE IndInv'
  OBVIOUS
<1>1. CASE write_video_frame
  BY <1>1, WriteVideoInv
<1>2. CASE write_audio_frame
  BY <1>2, WriteAudioInv
<1>3. CASE \/ add_stream \/ WriteHeader \/ WriteTrailer \/ Return \/ Fail
           \/ \E s \in Streams : open_stream(s) \/ close_stream(s)
  BY <1>3, OtherInv
<1>4. CASE UNCHANGED vars
  BY <1>4 DEF vars, IndInv, TypeOK, CountInv, LimitInv, EndInv, NoneInv, InterleavedClosely
<1> QED BY <1>1, <1>2, <1>3, <1>4 DEF Next, Proceed

-----------------------------------------------------------------------------
\* The invariant holds in every state of the program.
THEOREM MuxerInductive == Spec => []IndInv
  BY InitInv, StepInv, PTL DEF Spec

\* The two streams stay within one frame of each other, whatever the rates, the
\* frame size and the delays of the encoders.
THEOREM StreamsInterleave == Spec => []InterleavedClosely
<1>1. IndInv => InterleavedClosely
  BY DEF IndInv
<1> QED BY <1>1, MuxerInductive, PTL

\* A file with a trailer has every frame of the whole duration.
THEOREM WholeFile == Spec => []FileIsWhole
<1>1. IndInv => FileIsWhole
  <2> SUFFICES ASSUME IndInv, pc \in {"close", "done"},
                      NEW s \in Streams, stream[s] # "none"
               PROVE  /\ held[s] = 0
                      /\ written["video"] = next_pts["video"]
                      /\ written["audio"] * NbSamples = next_pts["audio"]
                      /\ s = "video" => next_pts[s] = Duration * VideoRate
                      /\ s = "audio" => next_pts[s] \in Duration * SampleRate
                                            ..(Duration * SampleRate + NbSamples - 1)
    BY DEF FileIsWhole
  <2>1. \A r \in Streams : held[r] = 0
    BY DEF IndInv, EndInv, NoneInv
  <2>2. /\ \A r \in Streams : written[r] \in Nat /\ next_pts[r] \in Nat
        /\ "video" \in Streams /\ "audio" \in Streams
    BY DEF IndInv, TypeOK, Streams
  <2>3. /\ written["video"] + 0 = next_pts["video"]
        /\ (written["audio"] + 0) * NbSamples = next_pts["audio"]
    BY <2>1, <2>2 DEF IndInv, CountInv
  <2>4. written["audio"] + 0 = written["audio"] /\ written["video"] + 0 = written["video"]
    BY <2>2
  <2>5. /\ s = "video" => next_pts[s] >= Duration * VideoRate
        /\ s = "audio" => next_pts[s] >= Duration * SampleRate
    BY DEF IndInv, EndInv
  <2>6. /\ next_pts["video"] <= Duration * VideoRate
        /\ next_pts["audio"] < Duration * SampleRate + NbSamples
    BY DEF IndInv, LimitInv
  <2> QED BY <2>1, <2>2, <2>3, <2>4, <2>5, <2>6, Limits, MuxerAssumption
<1> QED BY <1>1, MuxerInductive, PTL
=============================================================================

------------------------------- MODULE Muxer -------------------------------
(***************************************************************************)
(* muxer.cpp and libs/Ffmpeg: main sets up a video and an audio stream (or *)
(* the one the format has) and then always writes a frame of the stream    *)
(* that is behind, until both have ended and their encoders are drained.   *)
(*                                                                         *)
(* FFmpeg is external: an encoder may hold back frames before it gives     *)
(* packets, and any call may fail, which ends the program.                 *)
(***************************************************************************)
EXTENDS Integers

CONSTANTS
    VideoRate,      \* STREAM_FRAME_RATE, 25 frames a second
    SampleRate,     \* 44100 samples a second
    NbSamples,      \* samples of an audio frame: the codec's frame_size
    Duration,       \* STREAM_DURATION, 10 seconds
    MaxDelay        \* most frames an encoder holds back

ASSUME MuxerAssumption ==
    /\ {VideoRate, SampleRate, NbSamples, Duration} \subseteq Nat \ {0}
    /\ MaxDelay \in Nat

Streams == {"video", "audio"}

VARIABLES
    pc,             \* where main is, see Stages
    stream,         \* each OutputStream: "none", "added", "open" or "closed"
    encode,         \* encode_video, encode_audio
    next_pts,       \* OutputStream::next_pts, in frames and in samples
    samples_count,  \* OutputStream::samples_count of the audio stream
    held,           \* frames inside each encoder
    written         \* packets of each stream handed to the file

vars == <<pc, stream, encode, next_pts, samples_count, held, written>>

(***************************************************************************)
(* add, open      set-up of the streams and of the file                    *)
(* loop           the encoding loop                                        *)
(* close          behind the trailer: the codecs are freed                 *)
(* done, failed   return 0; return 1 or exit(1)                            *)
(***************************************************************************)
Stages == {"add", "open", "loop", "close", "done", "failed"}

TypeOK ==
    /\ pc \in Stages
    /\ stream \in [Streams -> {"none", "added", "open", "closed"}]
    /\ encode \in [Streams -> BOOLEAN]
    /\ next_pts \in [Streams -> Nat]
    /\ samples_count \in Nat
    /\ held \in [Streams -> Nat]
    /\ written \in [Streams -> Nat]

Init ==
    /\ pc = "add"
    /\ stream = [s \in Streams |-> "none"]
    /\ encode = [s \in Streams |-> FALSE]
    /\ next_pts = [s \in Streams |-> 0]
    /\ samples_count = 0
    /\ held = [s \in Streams |-> 0]
    /\ written = [s \in Streams |-> 0]

coding == <<next_pts, samples_count, held, written>>

\* exit(1) or return 1: a call of FFmpeg fails, in set-up or in the loop.
Fail ==
    /\ pc \in {"add", "open"} \/ (pc = "loop" /\ \E s \in Streams : encode[s])
    /\ pc' = "failed"
    /\ UNCHANGED <<stream, encode, coding>>

-----------------------------------------------------------------------------
(* Set-up. *)

\* add_stream for the streams the output format has a codec for.
add_stream ==
    /\ pc = "add"
    /\ \E has \in SUBSET Streams :
          /\ stream' = [s \in Streams |-> IF s \in has THEN "added" ELSE "none"]
          /\ encode' = [s \in Streams |-> s \in has]
    /\ pc' = "open"
    /\ UNCHANGED coding

\* open_video, then open_audio.
open_stream(s) ==
    /\ pc = "open" /\ stream[s] = "added"
    /\ s = "audio" => stream["video"] # "added"
    /\ stream' = [stream EXCEPT ![s] = "open"]
    /\ UNCHANGED <<pc, encode, coding>>

\* avio_open and avformat_write_header.
WriteHeader ==
    /\ pc = "open" /\ \A s \in Streams : stream[s] # "added"
    /\ pc' = "loop"
    /\ UNCHANGED <<stream, encode, coding>>

-----------------------------------------------------------------------------
(* The loop. *)

\* Mutant: the other stream is chosen, < for > in the comparison.
VideoWhenAhead ==
    encode["video"] /\ (~encode["audio"]
                        \/ next_pts["video"] * SampleRate >= next_pts["audio"] * VideoRate)

\* main's choice: video if audio is over or video is not ahead of it
\* (av_compare_ts(...) <= 0).
VideoNext ==
    encode["video"] /\ (~encode["audio"]
                        \/ next_pts["video"] * SampleRate <= next_pts["audio"] * VideoRate)

\* Mutant: "return frame ? 0 : 1": what the encoder holds is not fetched.
EncodeNoFlush(s, frame) ==
    \E got \in BOOLEAN :
        LET in == IF frame THEN held[s] + 1 ELSE held[s]
        IN  /\ got => in > 0
            /\ ~got => (frame /\ in <= MaxDelay) \/ in = 0
            /\ held' = [held EXCEPT ![s] = IF got THEN in - 1 ELSE in]
            /\ written' = [written EXCEPT ![s] = IF got THEN @ + 1 ELSE @]
            /\ encode' = [encode EXCEPT ![s] = frame]

\* Mutant: "return 0": the end of a stream is not reported.
EncodeEndless(s, frame) ==
    \E got \in BOOLEAN :
        LET in == IF frame THEN held[s] + 1 ELSE held[s]
        IN  /\ got => in > 0
            /\ ~got => (frame /\ in <= MaxDelay) \/ in = 0
            /\ held' = [held EXCEPT ![s] = IF got THEN in - 1 ELSE in]
            /\ written' = [written EXCEPT ![s] = IF got THEN @ + 1 ELSE @]
            /\ encode' = [encode EXCEPT ![s] = TRUE]

\* avcodec_encode_*2 and write_frame.  A frame goes in, if there is one; a
\* packet may come out, and does when the encoder is full or, without a frame,
\* when it holds anything.  The stream is over without frame and packet.
Encode(s, frame) ==
    \E got \in BOOLEAN :
        LET in == IF frame THEN held[s] + 1 ELSE held[s]
        IN  /\ got => in > 0
            /\ ~got => (frame /\ in <= MaxDelay) \/ in = 0
            /\ held' = [held EXCEPT ![s] = IF got THEN in - 1 ELSE in]
            /\ written' = [written EXCEPT ![s] = IF got THEN @ + 1 ELSE @]
            /\ encode' = [encode EXCEPT ![s] = frame \/ got]

\* dst_nb_samples: equal rates, so the resampler adds no delay.
dst_nb_samples == NbSamples

\* get_video_frame: NULL from STREAM_DURATION on.
VideoFrame == next_pts["video"] < Duration * VideoRate

write_video_frame ==
    /\ pc = "loop" /\ VideoNext
    /\ Encode("video", VideoFrame)
    /\ next_pts' = [next_pts EXCEPT !["video"] = IF VideoFrame THEN @ + 1 ELSE @]
    /\ UNCHANGED <<pc, stream, samples_count>>

\* get_audio_frame.
AudioFrame == next_pts["audio"] < Duration * SampleRate

\* The frame is stamped with samples_count, the choice goes by next_pts.
write_audio_frame ==
    /\ pc = "loop" /\ encode["audio"] /\ ~VideoNext
    /\ Encode("audio", AudioFrame)
    /\ next_pts' = [next_pts EXCEPT !["audio"] = IF AudioFrame THEN @ + NbSamples ELSE @]
    /\ samples_count' = IF AudioFrame THEN samples_count + dst_nb_samples ELSE samples_count
    /\ UNCHANGED <<pc, stream>>

\* av_write_trailer, whose result is ignored.
WriteTrailer ==
    /\ pc = "loop" /\ \A s \in Streams : ~encode[s]
    /\ pc' = "close"
    /\ UNCHANGED <<stream, encode, coding>>

\* close_stream for what was opened, avio_closep, avformat_free_context.
close_stream(s) ==
    /\ pc = "close" /\ stream[s] = "open"
    /\ s = "audio" => stream["video"] # "open"
    /\ stream' = [stream EXCEPT ![s] = "closed"]
    /\ UNCHANGED <<pc, encode, coding>>

Return ==
    /\ pc = "close" /\ \A s \in Streams : stream[s] # "open"
    /\ pc' = "done"
    /\ UNCHANGED <<stream, encode, coding>>

-----------------------------------------------------------------------------
Proceed ==
    \/ add_stream \/ WriteHeader \/ WriteTrailer \/ Return
    \/ write_video_frame \/ write_audio_frame
    \/ \E s \in Streams : open_stream(s) \/ close_stream(s)

Next == Proceed \/ Fail

Spec == Init /\ [][Next]_vars

\* A single thread that runs on; nothing needs to fail.
FairSpec == Spec /\ WF_vars(Proceed)

-----------------------------------------------------------------------------
(* Properties. *)

\* The time stamps of the two streams never drift apart: video is ahead by at
\* most one picture, audio by less than one audio frame, from the first frame
\* to the flushing of the encoders.
InterleavedClosely ==
    encode["video"] /\ encode["audio"] =>
        /\ next_pts["video"] * SampleRate <= samples_count * VideoRate + SampleRate
        /\ samples_count * VideoRate < next_pts["video"] * SampleRate + NbSamples * VideoRate
           \/ samples_count = 0

\* A file that gets its trailer has every frame that was generated, the encoders
\* are empty, and each stream covers the duration and overruns it by less than
\* one frame.
FileIsWhole ==
    pc \in {"close", "done"} =>
        \A s \in Streams : stream[s] # "none" =>
            /\ held[s] = 0
            /\ written["video"] = next_pts["video"]
            /\ written["audio"] * NbSamples = next_pts["audio"]
            /\ s = "video" => next_pts[s] = Duration * VideoRate
            /\ s = "audio" => next_pts[s] \in Duration * SampleRate
                                              ..(Duration * SampleRate + NbSamples - 1)

\* The program comes to an end.
Terminates == <>(pc \in {"done", "failed"})
=============================================================================

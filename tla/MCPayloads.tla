------------------------------ MODULE MCPayloads ------------------------------
(***************************************************************************)
(* What packets carry.  Either RED packets arrive, with up to three        *)
(* redundant blocks, whole and cut short; or one payload of a codec is     *)
(* handed to its parsers.                                                  *)
(***************************************************************************)
EXTENDS Red, KeyFrames

CONSTANTS Heads, Extensions, Bytes, PictureIds

Byte == 0 .. 255
TwoByteId == 0 .. 32767 \* what a picture id of two bytes can hold

ASSUME BytesAssumption ==
  Heads \subseteq Byte /\ Extensions \subseteq Byte /\ Bytes \subseteq Byte /\ PictureIds \subseteq TwoByteId

VARIABLE payload \* of a codec: [codec, ...], or NoPayload between the calls

MCRedPayloads ==
  { [lengths |-> <<>>, size |-> 1], [lengths |-> <<>>, size |-> 0],
    [lengths |-> <<2>>, size |-> 9],
    [lengths |-> <<1, 2>>, size |-> 13], [lengths |-> <<1, 2>>, size |-> 11],
    [lengths |-> <<1, 2>>, size |-> 8],
    [lengths |-> <<2, 0, 1>>, size |-> 17] }

UpTo(n, S) == UNION { [1 .. k -> S] : k \in 1 .. n }
Of(codec, form, units) == [codec |-> codec, form |-> form, units |-> units]

\* A slice, an IDR slice, an SPS and a PPS; long enough for a size of two bytes once.
H264Units == { <<65>>, <<101, 7>>, <<103, 66, 0, 31, 172>>, <<104>>, <<65>> \o [k \in 1 .. 260 |-> 7] }
H264Inputs ==
  { Of("h264", 1, <<u>>) : u \in H264Units } \cup { Of("h264", 28, <<u>>) : u \in H264Units }
  \cup { Of("h264", f, us) : f \in 24 .. 27, us \in UpTo(3, H264Units \ { <<65>> }) }

\* A slice, the three parameter sets and an IDR slice.
H265Units == { <<2, 1, 66>>, <<64, 1>>, <<66, 1, 5>>, <<68, 1>>, <<38, 1, 68>> }
H265Inputs ==
  { Of("h265", 0, <<u>>) : u \in H265Units } \cup { Of("h265", 48, us) : us \in UpTo(3, H265Units) }

\* A temporal delimiter, a sequence header, metadata of 130 bytes, a frame
\* header, and frames: a key frame, one that is shown again, one that is not intra-coded.
Obus == { <<16>>, <<8, 1>>, <<40>> \o [k \in 1 .. 129 |-> 24], <<24, 16>>, <<24>>,
          <<48, 0, 9>>, <<48, 128>>, <<48, 32>> }
Av1Inputs == { Of("av1", Len(us), us) : us \in UpTo(3, Obus) }

Vp8Payloads ==
  { <<h>> : h \in Heads }
  \cup { start \o rest : start \in Heads \X Extensions, rest \in {<<>>} \cup UpTo(5, Bytes) }

NoPayload == [codec |-> "none"]

MCInit == Init /\ payload = NoPayload

Arrive == payload = NoPayload /\ Next /\ UNCHANGED payload

Parse ==
  /\ payload = NoPayload /\ ~started
  /\ payload' \in H264Inputs \cup H265Inputs \cup Av1Inputs
                  \cup { [codec |-> "vp8", bytes |-> p] : p \in Vp8Payloads }
  /\ UNCHANGED vars

Return == payload # NoPayload /\ payload' = NoPayload /\ UNCHANGED vars

MCNext == Arrive \/ Parse \/ Return

MCSpec == MCInit /\ [][MCNext]_<<vars, payload>>

-----------------------------------------------------------------------------
\* Every VP8 descriptor survives being parsed, given a new picture id and written
\* again (vp8.go, Unmarshal and MarshalTo).
DescriptorsSurvive ==
  payload.codec = "vp8" => Vp8RoundTrip(payload.bytes, PictureIds)

\* Key frames and sequence parameter sets are found where a sender has put them, in
\* whole packets and in ones cut short; in H.264's packets with times only an SPS that
\* comes first is (keyframe.go, h26xhelper.go).
WhatIsSentIsFound ==
  payload.codec \notin {"vp8", "none"} => KeyFramesFound(payload)
=============================================================================

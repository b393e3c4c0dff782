---------------------------- MODULE FrameDecode ----------------------------
(***************************************************************************)
(* Responses framed with a length, read in pieces and decoded: what the    *)
(* encoder of Framing, the reader of FrameRead and the decoder agree on.   *)
(***************************************************************************)
EXTENDS FrameRead, HsmDecoder

CONSTANT Responses  \* [header, code, error, data, tail]: tail from the delimiter on

Bytes(r) == r.header \o r.code \o r.error \o r.data \o r.tail

ASSUME ResponsesAssumption ==
    \A r \in Responses :
        /\ r \in [header : Seq(Byte), code : Seq(Byte), error : Seq(Byte),
                  data : Seq(Byte), tail : Seq(Byte)]
        /\ Len(r.header) = 2 /\ Len(r.code) = 2 /\ Len(r.error) = 2
        /\ \A i \in 1 .. Len(r.data) : r.data[i] # Delimiter
        /\ r.tail # <<>> => r.tail[1] = Delimiter
        /\ Len(Bytes(r)) <= LenMax

-----------------------------------------------------------------------------
(* Framing loses no more than a tail: what is sent is a prefix of the      *)
(* payload, complete up to two bytes short of the limit of the header, and *)
(* closed by the -T byte where there is one (mode_oneshot.c, 128 to 153).  *)
OnlyATailIsLost ==
    \A i \in 1 .. Len(messages), addLen, hasTerm \in BOOLEAN :
        LosesOnlyATail(messages[i], Frame(messages[i], addLen, hasTerm), addLen, hasTerm)

(* Every complete response decodes to the fields it was made of, however   *)
(* it was cut on its way, and with the length of the next behind it.       *)
DecodesBack ==
    \A i \in 1 .. Len(frames), more \in {<<>>} \cup (Byte \X Byte) : \A r \in Responses :
        messages[i] = Bytes(r) =>
            /\ Parses(frames[i] \o more, 2)
            /\ LET p == Parse(frames[i] \o more, 2)
               IN  /\ p.code = r.code /\ p.error = r.error
                   /\ p.header = Clip(r.header, HeaderCap)
                   /\ r.tail # <<>> \/ more = <<>> => p.payload = r.data

(* Whatever part of a response has arrived, the fields stay inside it and  *)
(* cover it from the header on: no byte is read twice or skipped, except   *)
(* what a full header or trailer field has no room for.  The key and check *)
(* value shown are the payload, cut once, whatever length stands in it.    *)
FieldsTile ==
    \A headerLen \in {0, 2, 3} :
        Parses(buf, headerLen) =>
            LET p  == Parse(buf, headerLen)
                at == HeaderEnd(buf, headerLen)
                em == IF p.hasDelimiter THEN <<Delimiter>> ELSE <<>>
                read == p.code \o p.error \o p.payload \o em \o p.trailer
            IN  /\ SubSeq(buf, at + 1, at + Len(read)) = read
                /\ at + Len(read) = Len(buf) \/ Len(p.trailer) = HeaderCap
                /\ IsKey(p) => KeyEnd(p.payload) \in 1 .. Len(p.payload)
                /\ \/ Shown(p) \in {<<>>, <<p.payload>>}
                   \/ Shown(p)[1] \o Shown(p)[2] = p.payload
=============================================================================

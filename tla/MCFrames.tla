----------------------------- MODULE MCFrames -----------------------------
(* Bytes are the numbers 0 to 3, lengths end at 15.  The responses are key *)
(* blocks with and without a trailer, a key of a known length, an error.   *)
EXTENDS FrameDecode

MCSuccess     == <<0, 0>>
MCKeyResponse == <<1, 0>>
MCAtoi(s)     == 4 * s[3] + s[4]

Response(code, error, data, tail) ==
    [header |-> <<0, 2>>, code |-> code, error |-> error, data |-> data, tail |-> tail]

MCResponses ==
    {Response(MCKeyResponse, MCSuccess, <<1, 0, 0, 2, 0, 2, 0>>, <<3, 1>>),
     Response(MCKeyResponse, MCSuccess, <<1, 0, 0, 1, 1, 2>>, <<>>),
     Response(MCKeyResponse, MCSuccess, <<2, 0, 1>>, <<>>),
     Response(<<0, 2>>, <<0, 1>>, <<>>, <<3>>)}

Pattern(n) == [i \in 1 .. n |-> i % 3]

MCMessages == {Bytes(r) : r \in MCResponses} \cup {Pattern(n) : n \in {0, 16}}
=============================================================================

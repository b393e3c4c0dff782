----------------------------- MODULE MCOneShot -----------------------------
(* One-shot mode on a connection that holds two bytes each way.            *)
EXTENDS OneShotRefinement

Config(kind, data, addLen, hasTerm, decode, hexOut) ==
    [kind |-> kind, data |-> data, addLen |-> addLen, hasTerm |-> hasTerm,
     decode |-> decode, hexOut |-> hexOut]

Stdin(data, hasTerm)  == Config("stdin", data, FALSE, hasTerm, FALSE, FALSE)

(* Three bytes from stdin, or a payload with its length header.            *)
PlainConfigs ==
    {Stdin(<<0, 1, 1>>, FALSE),
     Config("payload", <<1, 0>>, TRUE, FALSE, FALSE, FALSE)}

(* -T from stdin and behind payloads, -X, and -D with and without -T.      *)
OptionConfigs ==
    {Stdin(<<0, 1>>, TRUE),
     Config("payload", <<0>>, FALSE, FALSE, FALSE, TRUE),
     Config("payload", <<0, 0, 1, 0>>, TRUE, TRUE, FALSE, FALSE)}
    \cup {Config("payload", <<0>>, FALSE, hasTerm, TRUE, FALSE) : hasTerm \in BOOLEAN}
=============================================================================

------------------------------ MODULE MCImRpc ------------------------------
(***************************************************************************)
(* ImRpc with small requests: a nil message, which the codecs write like   *)
(* an empty one, and one of two bytes.                                     *)
(***************************************************************************)
EXTENDS RpcCodecs

MCMsgs == {Nil, <<3, 3>>}
MCTgids == {<<2>>}
MCUid == <<1>>
=============================================================================

---------------------------- MODULE MCBinLogFile ----------------------------
(* Instance of BinLogFile: payloads of one and of two words. *)
EXTENDS BinLogFile

MCPayloads == {<<1>>, <<2, 1>>}
=============================================================================
